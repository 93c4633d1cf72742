--------------------------- MODULE HashTypesProofs ---------------------------
(***************************************************************************)
(* Proofs about HashTypes and Conversions, for any buffers: hash types of  *)
(* one buffer never contradict each other, what is known of it reaches the *)
(* database, the answers that a hash type gives are right, and what is     *)
(* known of a source neither costs a conversion nor makes it fetch its     *)
(* buffer.                                                                 *)
(*                                                                         *)
(* The recursive functions Route and ConversionFeasible are unfolded by    *)
(* their depth: any function they are applied to agrees with itself after  *)
(* as many steps as the deepest conversion needs: a fixed point.           *)
(***************************************************************************)
EXTENDS Conversions, TLAPS

-----------------------------------------------------------------------------
(* Words *)

\* What a word says.
Says(w, kind, length, dtype, rank, flags) ==
    /\ w \in Nat /\ w < MaxWord
    /\ Unpack(w) = [kind |-> kind, length |-> length, dtype |-> dtype, rank |-> rank,
                    flags |-> flags]

LEMMA PackSays ==
    ASSUME NEW kind \in 0 .. 15, NEW length \in 0 .. 3, NEW dtype \in 0 .. 3,
           NEW rank \in 0 .. 3, NEW flags \in 0 .. 7,
           NEW word, word = Pack(kind, length, dtype, rank, flags)
    PROVE  Says(word, kind, length, dtype, rank, flags)
<1> DEFINE w == kind + 16 * length + 64 * dtype + 256 * rank + 1024 * flags
<1>1. 2^4 = 16 /\ 2^6 = 64 /\ 2^8 = 256 /\ 2^10 = 1024 /\ 2^2 = 4 /\ 2^3 = 8 /\ 2^13 = 8192
  OBVIOUS
<1>2. word = w
  BY <1>1 DEF Pack
<1>3. w \in Nat /\ w < 8192
  OBVIOUS
<1>4. w % 16 = kind
  OBVIOUS
<1>5. (w \div 16) % 4 = length
  <2>1. w \div 16 = length + 4 * dtype + 16 * rank + 64 * flags
    OBVIOUS
  <2> QED BY <2>1
<1>6. (w \div 64) % 4 = dtype
  <2>1. w \div 64 = dtype + 4 * rank + 16 * flags
    OBVIOUS
  <2> QED BY <2>1
<1>7. (w \div 256) % 4 = rank
  <2>1. w \div 256 = rank + 4 * flags
    OBVIOUS
  <2> QED BY <2>1
<1>8. (w \div 1024) % 8 = flags
  OBVIOUS
<1> HIDE DEF w
<1>9. Unpack(w) = [kind |-> kind, length |-> length, dtype |-> dtype, rank |-> rank,
                   flags |-> flags]
  BY <1>1, <1>4, <1>5, <1>6, <1>7, <1>8 DEF Unpack
<1> QED BY <1>1, <1>2, <1>3, <1>9 DEF MaxWord, Says

\* What the classifier finds in a buffer.
Classified(c, kind, dtype, rank, flags) ==
    /\ FromBuffer(c) = Pack(kind, c.length, dtype, rank, flags)
    /\ kind \in 0 .. 12 \ {9, 10, 11} /\ dtype \in 0 .. 3 /\ rank \in 0 .. 3 /\ flags \in 0 .. 2
    /\ kind = 0 <=> c.form \in OpaqueForm
    /\ kind = 1 <=> c.form \in DOMAIN ArrayForm
    /\ kind \in {2, 3} <=> c.form \in MixedForm
    /\ kind = 4 <=> c.form \in TextForm
    /\ kind \in {5, 6, 7, 8, 12} <=> c.form \in JsonForm
    /\ kind = 7 <=> c.form \in {"string", "true", "spaced_true"}
    /\ kind = 8 <=> c.form \in NumberForm
    /\ dtype # 0 <=> kind = 1
    /\ rank # 0 => kind = 1
    /\ flags = 2 => kind = 1 /\ dtype = 2 /\ rank = 0
    /\ flags = 1 <=> c.form \in NumberForm \/ IsNumericString(c)

\* The forms of buffers are apart.
LEMMA FormsApart ==
    ASSUME NEW c
    PROVE  /\ c.form \in OpaqueForm =>
                c.form \notin DOMAIN ArrayForm \union MixedForm \union TextForm \union JsonForm
           /\ c.form \in MixedForm =>
                c.form \notin DOMAIN ArrayForm \union TextForm \union JsonForm
           /\ c.form \in TextForm => c.form \notin DOMAIN ArrayForm \union JsonForm
           /\ c.form \in JsonForm => c.form \notin DOMAIN ArrayForm
           /\ c.form \in NumberForm \/ IsNumericString(c)
                \/ c.form \in {"string", "true", "spaced_true"} => c.form \in JsonForm
<1>1. DOMAIN ArrayForm = {"number0", "nan0", "number1", "number2", "number3", "bytes0",
                          "bytes1", "words0", "record1"}
  BY DEF ArrayForm
<1> QED BY <1>1 DEF OpaqueForm, MixedForm, TextForm, JsonForm, NumberForm, IsNumericString

LEMMA Classifies ==
    ASSUME NEW c, c.form \in Form
    PROVE  \E kind, dtype, rank, flags : Classified(c, kind, dtype, rank, flags)
<1>1. CASE c.form \in DOMAIN ArrayForm
  <2>1. PICK a : a = ArrayForm[c.form]
    OBVIOUS
  <2>2. c.form \in {"number0", "nan0", "number1", "number2", "number3", "bytes0", "bytes1",
                    "words0", "record1"}
    BY <1>1 DEF ArrayForm
  <2>3. /\ a.dtype \in 1 .. 3 /\ a.rank \in 0 .. 3
        /\ c.form = "bytes0" => a.dtype = 2 /\ a.rank = 0
    <3> USE DEF ArrayForm, DType, Rank
    <3>1. CASE c.form \in {"number0", "nan0"}
      BY <2>1, <3>1
    <3>2. CASE c.form = "number1"
      BY <2>1, <3>2
    <3>3. CASE c.form = "number2"
      BY <2>1, <3>3
    <3>4. CASE c.form = "number3"
      BY <2>1, <3>4
    <3>5. CASE c.form \in {"bytes0", "words0"}
      BY <2>1, <3>5
    <3>6. CASE c.form \in {"bytes1", "record1"}
      BY <2>1, <3>6
    <3> QED BY <2>2, <3>1, <3>2, <3>3, <3>4, <3>5, <3>6
  <2> DEFINE flags == IF c.form = "bytes0" THEN 2 ELSE 0
  <2>4. FromBuffer(c) = Pack(1, c.length, a.dtype, a.rank, flags)
    <3>1. FromBuffer(c) = NumpyWord(c)
      BY <1>1, FormsApart DEF FromBuffer, MixedForm
    <3> QED BY <2>1, <3>1 DEF NumpyWord, Kind, Flag
  <2>5. Classified(c, 1, a.dtype, a.rank, flags)
    BY <1>1, <2>3, <2>4, FormsApart DEF Classified
  <2> QED BY <2>5
<1>2. ASSUME NEW kind, NEW flags, FromBuffer(c) = PlainWord(kind, c, flags)
      PROVE  FromBuffer(c) = Pack(kind, c.length, 0, 0, flags)
  BY <1>2 DEF PlainWord, DType, Rank
<1>3. CASE c.form \in MixedForm
  <2> DEFINE kind == IF c.form = "mixed_array" THEN 3 ELSE 2
  <2>1. FromBuffer(c) = PlainWord(kind, c, 0)
    BY <1>3, FormsApart DEF FromBuffer, Kind, MixedForm
  <2>2. Classified(c, kind, 0, 0, 0)
    BY <1>2, <1>3, <2>1, FormsApart DEF Classified
  <2> QED BY <2>2
<1>4. CASE c.form \in OpaqueForm
  <2>1. FromBuffer(c) = PlainWord(0, c, 0)
    BY <1>4, FormsApart DEF FromBuffer, Kind, OpaqueForm
  <2>2. Classified(c, 0, 0, 0, 0)
    BY <1>2, <1>4, <2>1, FormsApart DEF Classified
  <2> QED BY <2>2
<1>5. CASE c.form \in TextForm
  <2>1. FromBuffer(c) = PlainWord(4, c, 0)
    BY <1>5, FormsApart DEF FromBuffer, Kind, OpaqueForm, TextForm
  <2>2. Classified(c, 4, 0, 0, 0)
    BY <1>2, <1>5, <2>1, FormsApart DEF Classified
  <2> QED BY <2>2
<1>6. CASE c.form \in JsonForm
  <2> DEFINE kind == JsonKind(c.form)
             flags == IF c.form \in NumberForm \/ IsNumericString(c) THEN 1 ELSE 0
  <2>1. FromBuffer(c) = PlainWord(kind, c, flags)
    BY <1>6, FormsApart DEF FromBuffer, Flag, OpaqueForm, TextForm, JsonForm, NumberForm
  <2>2. /\ kind \in {5, 6, 7, 8, 12}
        /\ kind = 7 <=> c.form \in {"string", "true", "spaced_true"}
        /\ kind = 8 <=> c.form \in NumberForm
    BY <1>6 DEF JsonKind, JsonForm, NumberForm, Kind
  <2> HIDE DEF kind
  <2>3. Classified(c, kind, 0, 0, flags)
    BY <1>2, <1>6, <2>1, <2>2, FormsApart DEF Classified
  <2> QED BY <2>3
<1> QED BY <1>1, <1>3, <1>4, <1>5, <1>6 DEF Form

LEMMA TestedSays ==
    ASSUME NEW c \in Contents
    PROVE  \E kind, dtype, rank, flags :
               /\ Classified(c, kind, dtype, rank, flags)
               /\ Says(FromBuffer(c), kind, c.length, dtype, rank, flags)
<1>1. c.form \in Form /\ c.length \in 0 .. 3
  BY TypesAssumption
<1>2. PICK kind, dtype, rank, flags : Classified(c, kind, dtype, rank, flags)
  BY <1>1, Classifies
<1>3. /\ FromBuffer(c) = Pack(kind, c.length, dtype, rank, flags)
      /\ kind \in 0 .. 15 /\ dtype \in 0 .. 3 /\ rank \in 0 .. 3 /\ flags \in 0 .. 7
  BY <1>2 DEF Classified
<1>4. PICK length \in 0 .. 3 : length = c.length
  BY <1>1
<1>5. Says(FromBuffer(c), kind, length, dtype, rank, flags)
  BY <1>3, <1>4, PackSays
<1> QED BY <1>2, <1>4, <1>5

LEMMA UntestedSays ==
    ASSUME NEW c \in Contents, NEW kind \in {9, 10, 11}
    PROVE  Says(PlainWord(kind, c, 0), kind, c.length, 0, 0, 0)
<1>1. c.length \in 0 .. 3
  BY TypesAssumption
<1>2. PlainWord(kind, c, 0) = Pack(kind, c.length, 0, 0, 0)
  BY DEF PlainWord, DType, Rank
<1>3. PICK zero \in 0 .. 3 : zero = 0 /\ zero \in 0 .. 7 /\ kind \in 0 .. 15
  OBVIOUS
<1>4. PlainWord(kind, c, 0) = Pack(kind, c.length, zero, zero, zero)
  BY <1>2, <1>3
<1>5. Says(PlainWord(kind, c, 0), kind, c.length, zero, zero, zero)
  BY <1>1, <1>3, <1>4, PackSays
<1> QED BY <1>3, <1>5

\* A true word is the classifier's, or one of the untested ones.
LEMMA TrueCases ==
    ASSUME NEW c, NEW w \in TrueWords(c)
    PROVE  \/ w = FromBuffer(c)
           \/ w = PlainWord(9, c, 0)
           \/ w = PlainWord(10, c, 0) /\ IsText(c)
           \/ w = PlainWord(11, c, 0) /\ c.form \in JsonForm
BY DEF TrueWords, Kind

\* How little a word of a kind says.
Looseness(kind) == IF kind = 9 THEN 3 ELSE IF kind = 10 THEN 2 ELSE IF kind = 11 THEN 1 ELSE 0

LEMMA FlagFacts ==
    ASSUME NEW t, t.flags \in 0 .. 2
    PROVE  /\ HasFlag(t, 1) <=> t.flags = 1
           /\ HasFlag(t, 2) <=> t.flags = 2
           /\ ~HasFlag(t, 4)
BY DEF HasFlag

\* What the words of one buffer have in common.
TrueWord(c, w, kind) ==
    /\ w \in Nat /\ Unpack(w).kind = kind /\ Unpack(w).length = c.length
    /\ kind \in 0 .. 12
    /\ kind \in {9, 10, 11} => Unpack(w) = [kind |-> kind, length |-> c.length, dtype |-> 0,
                                            rank |-> 0, flags |-> 0]
    /\ kind \notin {9, 10, 11} => w = FromBuffer(c)
    /\ kind = 10 => IsText(c)
    /\ kind = 11 => c.form \in JsonForm
    /\ kind \notin {9, 10} => (kind \in {5, 6, 7, 8, 12, 11} <=> c.form \in JsonForm)
    /\ kind # 9 /\ kind \notin {9, 10, 11} => (kind \in {4, 5, 6, 7, 8, 12} <=> IsText(c))

LEMMA TrueWordFacts ==
    ASSUME NEW c \in Contents, NEW w \in TrueWords(c)
    PROVE  IsValidWord(w) /\ \E kind : TrueWord(c, w, kind)
<1>1. CASE w = FromBuffer(c)
  <2>1. PICK kind, dtype, rank, flags :
          /\ Classified(c, kind, dtype, rank, flags)
          /\ Says(FromBuffer(c), kind, c.length, dtype, rank, flags)
    BY TestedSays
  <2>2. TrueWord(c, w, kind)
    BY <1>1, <2>1 DEF TrueWord, Says, Classified, IsText
  <2>3. PICK t : t = Unpack(w)
    OBVIOUS
  <2>4. /\ t.kind = kind /\ t.dtype = dtype /\ t.rank = rank /\ t.flags = flags
        /\ w < MaxWord
    BY <1>1, <2>1, <2>3 DEF Says
  <2>5. /\ (HasFlag(t, 1) <=> flags = 1) /\ (HasFlag(t, 2) <=> flags = 2) /\ ~HasFlag(t, 4)
    BY <2>1, <2>4, FlagFacts DEF Classified
  <2>6. flags = 1 => kind \in {7, 8}
    BY <2>1 DEF Classified, IsNumericString
  <2>7. IsValidWord(w)
    BY <2>1, <2>3, <2>4, <2>5, <2>6
       DEF IsValidWord, Classified, Kind, DType, Rank, Flag
  <2> QED BY <2>2, <2>7
<1>2. ASSUME NEW kind \in {9, 10, 11}, w = PlainWord(kind, c, 0), kind = 10 => IsText(c),
             kind = 11 => c.form \in JsonForm
      PROVE  IsValidWord(w) /\ TrueWord(c, w, kind)
  <2>1. Says(w, kind, c.length, 0, 0, 0)
    BY <1>2, UntestedSays
  <2>2. TrueWord(c, w, kind)
    BY <1>2, <2>1 DEF TrueWord, Says
  <2>3. PICK t : t = Unpack(w)
    OBVIOUS
  <2>4. t.kind = kind /\ t.dtype = 0 /\ t.rank = 0 /\ t.flags = 0 /\ w < MaxWord
    BY <2>1, <2>3 DEF Says
  <2>5. ~HasFlag(t, 1) /\ ~HasFlag(t, 2) /\ ~HasFlag(t, 4)
    BY <2>4, FlagFacts
  <2>6. IsValidWord(w)
    BY <2>3, <2>4, <2>5 DEF IsValidWord, Kind, DType, Rank, Flag
  <2> QED BY <2>2, <2>6
<1> QED BY <1>1, <1>2, TrueCases

\* The words of one buffer are ordered: one that says less is implied.
LEMMA ImpliesOrders ==
    ASSUME NEW c \in Contents, NEW v \in TrueWords(c), NEW w \in TrueWords(c),
           NEW j, NEW k, TrueWord(c, v, j), TrueWord(c, w, k)
    PROVE  Implies(v, w) <=> Looseness(j) <= Looseness(k)
<1>1. PICK s, t : s = Unpack(v) /\ t = Unpack(w)
  OBVIOUS
<1>2. s.kind = j /\ t.kind = k /\ s.length = t.length /\ j \in 0 .. 12 /\ k \in 0 .. 12
  BY <1>1 DEF TrueWord
<1>3. /\ IsJson(s) <=> j \in {5, 6, 7, 8, 12, 11}
      /\ IsUtf8(s) <=> j \in {4, 5, 6, 7, 8, 12, 10, 11}
  BY <1>2 DEF IsJson, IsUtf8, Kind
<1>4. Implies(v, w) <=> \/ k = 9
                        \/ k = 10 /\ IsUtf8(s)
                        \/ k = 11 /\ IsJson(s)
                        \/ s = t
  BY <1>1, <1>2 DEF Implies, Kind
<1>5. CASE k = 9
  BY <1>2, <1>4, <1>5 DEF Looseness
<1>6. CASE k = 10
  <2>1. IsText(c)
    BY <1>6 DEF TrueWord
  <2>2. j \notin {9, 10, 11} => IsUtf8(s)
    BY <1>3, <2>1 DEF TrueWord
  <2>3. s = t => j = 10
    BY <1>2, <1>6
  <2> QED BY <1>2, <1>3, <1>4, <1>6, <2>2, <2>3 DEF Looseness
<1>7. CASE k = 11
  <2>1. c.form \in JsonForm
    BY <1>7 DEF TrueWord
  <2>2. j \notin {9, 10, 11} => IsJson(s)
    BY <1>3, <2>1 DEF TrueWord
  <2>3. s = t => j = 11
    BY <1>2, <1>7
  <2> QED BY <1>2, <1>3, <1>4, <1>7, <2>2, <2>3 DEF Looseness
<1>8. CASE k \notin {9, 10, 11}
  <2>1. w = FromBuffer(c) /\ (j \notin {9, 10, 11} => v = FromBuffer(c))
    BY <1>8 DEF TrueWord
  <2>2. j \notin {9, 10, 11} <=> s = t
    BY <1>1, <1>2, <1>8, <2>1
  <2> QED BY <1>2, <1>4, <1>8, <2>2 DEF Looseness
<1> QED BY <1>5, <1>6, <1>7, <1>8

LEMMA Order ==
    ASSUME NEW c \in Contents, NEW u \in TrueWords(c), NEW v \in TrueWords(c),
           NEW w \in TrueWords(c)
    PROVE  /\ IsValidWord(u) /\ u # Unknown /\ Implies(u, u)
           /\ Implies(u, v) \/ Implies(v, u)
           /\ Implies(u, v) /\ Implies(v, w) => Implies(u, w)
<1>1. PICK i : TrueWord(c, u, i)
  BY TrueWordFacts
<1>2. PICK j : TrueWord(c, v, j)
  BY TrueWordFacts
<1>3. PICK k : TrueWord(c, w, k)
  BY TrueWordFacts
<1>4. /\ Implies(u, u) <=> Looseness(i) <= Looseness(i)
      /\ Implies(u, v) <=> Looseness(i) <= Looseness(j)
      /\ Implies(v, u) <=> Looseness(j) <= Looseness(i)
      /\ Implies(v, w) <=> Looseness(j) <= Looseness(k)
      /\ Implies(u, w) <=> Looseness(i) <= Looseness(k)
  BY <1>1, <1>2, <1>3, ImpliesOrders
<1>5. Looseness(i) \in Nat /\ Looseness(j) \in Nat /\ Looseness(k) \in Nat
  BY DEF Looseness
<1>6. IsValidWord(u) /\ u # Unknown
  BY <1>1, TrueWordFacts, TypesAssumption DEF TrueWord
<1> QED BY <1>4, <1>5, <1>6

-----------------------------------------------------------------------------
(* What an evaluation learns of its source *)

\* A conversion has learnt nothing of the source c, of which w was known, but
\* what the classifier says, and it is at the source until it has a new buffer.
\* If the source had been fetched before, it has been fetched.
Learns(s, c, w, before) ==
    /\ DOMAIN s = {"ok", "at", "word", "new", "fetched", "known", "value"}
    /\ s.new \in BOOLEAN
    /\ s.known \in {w, FromBuffer(c)}
    /\ ~s.new => s.at = c /\ s.word = s.known
    /\ before.fetched => s.fetched

LEMMA StartLearns ==
    ASSUME NEW c, NEW w
    PROVE  Learns(Start(c, w), c, w, Start(c, w))
BY DEF Learns, Start

LEMMA StepsLearn ==
    ASSUME NEW s, NEW c, NEW w, NEW before, Learns(s, c, w, before)
    PROVE  /\ Learns(Keep(s), c, w, before) /\ Learns(Fail(s), c, w, before) /\ Learns(Fetch(s), c, w, before)
           /\ \A at : Learns(New(s, at), c, w, before)
           /\ \A value : Learns(With(s, value), c, w, before)
           /\ Learns([s EXCEPT !.ok = TRUE], c, w, before)
<1>1. Learns(Keep(s), c, w, before)
  BY DEF Keep
<1>2. Learns(Fail(s), c, w, before)
  BY DEF Learns, Fail
<1>3. Learns(Fetch(s), c, w, before)
  BY DEF Learns, Fetch
<1>4. ASSUME NEW at
      PROVE  Learns(New(s, at), c, w, before)
  BY DEF Learns, New
<1>5. ASSUME NEW value
      PROVE  Learns(With(s, value), c, w, before)
  BY DEF Learns, With
<1>6. Learns([s EXCEPT !.ok = TRUE], c, w, before)
  BY DEF Learns
<1> QED BY <1>1, <1>2, <1>3, <1>4, <1>5, <1>6

LEMMA ParseLearns ==
    ASSUME NEW s, NEW c, NEW w, NEW before, Learns(s, c, w, before), NEW celltype
    PROVE  Learns(Parse(s, celltype), c, w, before)
<1>1. PICK f : f = Fetch(s)
  OBVIOUS
<1>2. Learns(f, c, w, before) /\ f.new = s.new /\ f.known = s.known
  <2>1. Learns(f, c, w, before)
    BY <1>1, StepsLearn
  <2>2. f.new = s.new /\ f.known = s.known
    BY <1>1 DEF Learns, Fetch
  <2> QED BY <2>1, <2>2
<1>3. PICK word : word = IF s.word = Unknown THEN FromBuffer(s.at) ELSE s.word
  OBVIOUS
<1>4. ~f.new => word \in {w, FromBuffer(c)}
  BY <1>2, <1>3 DEF Learns
<1>5. PICK q : q = Classify(f, word)
  OBVIOUS
<1>6. Learns(q, c, w, before)
  BY <1>2, <1>4, <1>5 DEF Learns, Classify
<1>7. Parse(s, celltype) = Read(q, celltype)
  BY <1>1, <1>3, <1>5 DEF Parse
<1> QED BY <1>6, <1>7, StepsLearn DEF Read

LEMMA ValueLearns ==
    ASSUME NEW s, NEW c, NEW w, NEW before, Learns(s, c, w, before), NEW celltype
    PROVE  Learns(ValueOf(s, celltype), c, w, before)
BY StepsLearn, ParseLearns DEF ValueOf, ValueOr

LEMMA KeepOrLearns ==
    ASSUME NEW s, NEW c, NEW w, NEW before, Learns(s, c, w, before), NEW at
    PROVE  Learns(KeepOr(s, at), c, w, before) /\ Learns(KeepIfSame(s, at), c, w, before)
<1>1. Learns(KeepOr(s, at), c, w, before)
  <2>1. PICK q : q = [s EXCEPT !.ok = TRUE]
    OBVIOUS
  <2>2. Learns(q, c, w, before)
    BY <2>1, StepsLearn
  <2>3. Learns(New(q, at), c, w, before)
    BY <2>2, StepsLearn
  <2> QED BY <2>1, <2>3, StepsLearn DEF KeepOr
<1>2. Learns(KeepIfSame(s, at), c, w, before)
  BY StepsLearn DEF KeepIfSame
<1> QED BY <1>1, <1>2

LEMMA NewLearns ==
    ASSUME NEW s, NEW c, NEW w, NEW before, Learns(s, c, w, before), NEW at, NEW failed, NEW value
    PROVE  /\ Learns(NewUnless(failed, s, at), c, w, before)
           /\ Learns(NewValue(s, value), c, w, before)
BY StepsLearn DEF NewUnless, NewValue

LEMMA BinaryToBytesLearns ==
    ASSUME NEW s, NEW c, NEW w, NEW before, Learns(s, c, w, before)
    PROVE  Learns(BinaryToBytes(s), c, w, before)
<1> DEFINE at == IF s.value.of.of.form = "empty" THEN Plainly("null", TRUE) ELSE s.value.of.of
<1>1. BinaryToBytes(s) \in {Keep(s), New(s, at)}
  BY DEF BinaryToBytes
<1> HIDE DEF at
<1>2. Learns(Keep(s), c, w, before) /\ Learns(New(s, at), c, w, before)
  BY StepsLearn
<1> QED BY <1>1, <1>2

LEMMA ReformatValueLearns ==
    ASSUME NEW s, NEW c, NEW w, NEW before, Learns(s, c, w, before),
           NEW conv \in {<<"plain", "text">>, <<"text", "str">>, <<"str", "text">>,
                         <<"yaml", "plain">>, <<"ipython", "python">>}
    PROVE  Learns(ReformatValue(s, conv), c, w, before)
<1>1. CASE conv = <<"plain", "text">>
  <2>1. ReformatValue(s, conv) = IF s.value.type = "str" THEN New(s, AsText(s.value)) ELSE Keep(s)
    BY <1>1 DEF ReformatValue
  <2> QED BY <2>1, StepsLearn
<1>2. CASE conv = <<"text", "str">>
  <2>1. ReformatValue(s, conv) = New(s, AsStr(s.value))
    BY <1>2 DEF ReformatValue
  <2> QED BY <2>1, StepsLearn
<1>3. CASE conv = <<"str", "text">>
  <2>1. ReformatValue(s, conv) = New(s, AsText(s.value))
    BY <1>3 DEF ReformatValue
  <2> QED BY <2>1, StepsLearn
<1>4. CASE conv = <<"yaml", "plain">>
  <2>1. ReformatValue(s, conv) = IF IsNull(s.at) THEN Fail(s) ELSE NewValue(s, YamlValue(s.at))
    BY <1>4 DEF ReformatValue
  <2> QED BY <2>1, StepsLearn, NewLearns
<1>5. CASE conv = <<"ipython", "python">>
  <2> DEFINE at == IF s.at.form = "magic" THEN Plainly("code", TRUE) ELSE Line(s.at)
  <2>1. ReformatValue(s, conv) = NewUnless(IsNull(s.at), s, at)
    BY <1>5 DEF ReformatValue
  <2> HIDE DEF at
  <2> QED BY <2>1, NewLearns
<1> QED BY <1>1, <1>2, <1>3, <1>4, <1>5

LEMMA ReformatLearns ==
    ASSUME NEW s, NEW c, NEW w, NEW before, Learns(s, c, w, before), NEW conv \in Reformatted
    PROVE  Learns(Reformat(s, conv), c, w, before)
<1>1. CASE conv = <<"bytes", "binary">>
  <2>1. Reformat(s, conv) = BytesToBinary(s)
    BY <1>1 DEF Reformat
  <2>2. Learns(Fetch(s), c, w, before) /\ Learns(Fetch(ValueOf(s, "binary")), c, w, before)
    BY StepsLearn, ValueLearns
  <2> QED BY <2>1, <2>2, StepsLearn, KeepOrLearns DEF BytesToBinary
<1>2. CASE conv = <<"bytes", "mixed">>
  <2> DEFINE at == IF IsText(s.at) THEN Quoted(s.at) ELSE Boxed(s.at)
  <2>1. Reformat(s, conv) = BytesToMixed(s, at)
    BY <1>2 DEF Reformat
  <2> HIDE DEF at
  <2>2. Learns(Fetch(s), c, w, before) /\ Learns(Fetch(ValueOf(s, "mixed")), c, w, before)
    BY StepsLearn, ValueLearns
  <2>3. BytesToMixed(s, at) \in {Keep(s), KeepOr(Fetch(ValueOf(s, "mixed")), at), New(Fetch(s), at)}
    BY DEF BytesToMixed
  <2>4. /\ Learns(Keep(s), c, w, before) /\ Learns(New(Fetch(s), at), c, w, before)
        /\ Learns(KeepOr(Fetch(ValueOf(s, "mixed")), at), c, w, before)
    BY <2>2, StepsLearn, KeepOrLearns
  <2> QED BY <2>1, <2>3, <2>4
<1>3. CASE conv = <<"binary", "bytes">>
  <2>1. Reformat(s, conv) = BinaryToBytes(ValueOf(s, "binary"))
    BY <1>3 DEF Reformat
  <2> QED BY <2>1, ValueLearns, BinaryToBytesLearns
<1>4. CASE conv = <<"mixed", "bytes">>
  <2>1. Reformat(s, conv) = MixedToBytes(Fetch(s))
    BY <1>4 DEF Reformat
  <2>2. PICK f : f = Fetch(s)
    OBVIOUS
  <2>3. Learns(f, c, w, before)
    BY <2>2, StepsLearn
  <2>4. Learns(ValueOf(f, "binary"), c, w, before) /\ Learns(ValueOf(f, "mixed"), c, w, before)
    BY <2>3, ValueLearns
  <2> QED BY <2>1, <2>2, <2>4, StepsLearn, BinaryToBytesLearns DEF MixedToBytes
<1>5. CASE conv = <<"text", "plain">>
  <2>1. PICK virtual, json : virtual = VirtualValue(s.at, "plain") /\ json = PlainValue(s.at)
    OBVIOUS
  <2>2. Reformat(s, conv) = TextToPlain(s, virtual, json)
    BY <1>5, <2>1 DEF Reformat
  <2> QED BY <2>2, ValueLearns, KeepOrLearns DEF TextToPlain
<1>6. CASE conv \in {<<"plain", "text">>, <<"text", "str">>, <<"str", "text">>,
                     <<"yaml", "plain">>, <<"ipython", "python">>}
  <2>1. PICK q : q = ValueOf(s, conv[1])
    OBVIOUS
  <2>2. Reformat(s, conv) = IF q.ok THEN ReformatValue(q, conv) ELSE q
    BY <1>6, <2>1 DEF Reformat, IfRead
  <2>3. Learns(q, c, w, before)
    BY <2>1, ValueLearns
  <2> QED BY <1>6, <2>2, <2>3, ReformatValueLearns
<1> QED BY <1>1, <1>2, <1>3, <1>4, <1>5, <1>6 DEF Reformatted

LEMMA ReinterpretLearns ==
    ASSUME NEW s, NEW c, NEW w, NEW before, Learns(s, c, w, before), NEW virtual, NEW target
    PROVE  Learns(Reinterpret(s, virtual, target), c, w, before)
BY StepsLearn, ParseLearns DEF Reinterpret

LEMMA ConvertValueLearns ==
    ASSUME NEW s, NEW c, NEW w, NEW before, Learns(s, c, w, before), NEW conv \in ByValue, conv[2] # "checksum"
    PROVE  Learns(ConvertValue(s, conv), c, w, before)
<1>1. \/ conv \in {"checksum"} \X (Celltype \ {"checksum"})
      \/ conv \in {<<"binary", "plain">>, <<"plain", "binary">>}
      \/ conv \in {"bool"} \X Numeric
      \/ conv \in Numeric \X {"bool"}
  BY DEF ByValue
<1> DEFINE form == s.value.of.form
           plain == Plainly(IF form = "null" THEN "null"
                            ELSE IF form = "number0" THEN "number" ELSE "array", TRUE)
           array == Plainly(IF form = "array" THEN "number1" ELSE "number0", FALSE)
           scalar == form \notin {"null", "number0", "number1", "number2", "number3"}
           boxed == form \notin {"number", "true", "array"} \/ s.value.type = "str"
           Converted == {NewUnless(IsNull(s.at), s, Referenced),
                         NewUnless(scalar, s, plain),
                         NewUnless(boxed, s, array),
                         New(s, Plainly("true", TRUE)),
                         NewUnless(IsNull(s.at), s, Plainly("number", TRUE))}
<1>2. ConvertValue(s, conv) \in Converted
  <2>1. CASE conv \in {"checksum"} \X (Celltype \ {"checksum"})
    <3>1. conv[1] = "checksum" /\ conv \notin Numeric \X {"bool"}
      BY <2>1 DEF Numeric
    <3> QED BY <3>1 DEF ConvertValue, Numeric
  <2>2. CASE conv = <<"binary", "plain">>
    BY <2>2 DEF ConvertValue, Numeric
  <2>3. CASE conv = <<"plain", "binary">>
    BY <2>3 DEF ConvertValue, Numeric
  <2>4. CASE conv \in {"bool"} \X Numeric
    <3>1. conv[1] = "bool" /\ conv \notin Numeric \X {"bool"}
      BY <2>4 DEF Numeric
    <3> QED BY <2>4, <3>1 DEF ConvertValue
  <2>5. CASE conv \in Numeric \X {"bool"}
    <3>1. conv[1] \in Numeric
      BY <2>5
    <3> QED BY <2>5, <3>1 DEF ConvertValue, Numeric
  <2> HIDE DEF Converted
  <2> QED BY <1>1, <2>1, <2>2, <2>3, <2>4, <2>5
<1> HIDE DEF plain, array, scalar, boxed
<1>3. ASSUME NEW failed, NEW at
      PROVE  Learns(NewUnless(failed, s, at), c, w, before)
  BY StepsLearn DEF NewUnless
<1>4. ASSUME NEW x \in Converted
      PROVE  Learns(x, c, w, before)
  BY <1>3, StepsLearn DEF Converted
<1> HIDE DEF Converted
<1> QED BY <1>2, <1>4

Tables == Trivial \union Reinterpreted \union Reformatted \union Possible \union ByValue
            \union Forbidden

LEMMA LegLearns ==
    ASSUME NEW s, NEW c, NEW w, NEW before, Learns(s, c, w, before), NEW conv \in Tables
    PROVE  Learns(Leg(s, conv), c, w, before)
<1>1. PICK q : q = ValueOf(s, conv[1])
  OBVIOUS
<1>2. Learns(q, c, w, before)
  BY <1>1, ValueLearns
<1>3. IF q.ok THEN Learns(ConvertPossible(q, conv), c, w, before) ELSE Learns(q, c, w, before)
  BY <1>2, NewLearns DEF ConvertPossible
<1>4. \/ Leg(s, conv) \in {Keep(s), Fail(s), New(s, Plainly("digest", FALSE))}
      \/ Leg(s, conv) = Reinterpret(s, VirtualValue(s.at, conv[2]), conv[2])
      \/ conv \in Reformatted /\ Leg(s, conv) = Reformat(s, conv)
      \/ Leg(s, conv) = IF q.ok THEN ConvertPossible(q, conv) ELSE q
      \/ /\ conv \in ByValue /\ conv[2] # "checksum"
         /\ Leg(s, conv) = IF q.ok THEN ConvertValue(q, conv) ELSE q
  BY <1>1 DEF Leg, Tables, IfRead
<1>5. /\ Learns(Keep(s), c, w, before) /\ Learns(Fail(s), c, w, before)
      /\ Learns(New(s, Plainly("digest", FALSE)), c, w, before)
      /\ Learns(Reinterpret(s, VirtualValue(s.at, conv[2]), conv[2]), c, w, before)
  BY StepsLearn, ReinterpretLearns
<1>6. conv \in Reformatted => Learns(Reformat(s, conv), c, w, before)
  BY ReformatLearns
<1>7. conv \in ByValue /\ conv[2] # "checksum" => Learns(ConvertValue(q, conv), c, w, before)
  BY <1>2, ConvertValueLearns
<1> QED BY <1>2, <1>3, <1>4, <1>5, <1>6, <1>7

\* The conversion at the end of each leg, for routes as long as they come.
LEMMA LegsByLeg ==
    ASSUME NEW route, Len(route) \in 1 .. 3, NEW start
    PROVE  /\ Legs(route, start)[0] = start
           /\ \A n \in 1 .. Len(route) :
                Legs(route, start)[n] = Leg(Legs(route, start)[n - 1], route[n])
<1> DEFINE Extended(f) == [n \in 0 .. Len(route) |->
                        IF n = 0 THEN start ELSE Leg(f[n - 1], route[n])]
<1>1. Legs(route, start) = CHOOSE f : f = Extended(f)
  BY DEF Legs
<1>2. \E f : f = Extended(f)
  <2>1. PICK first : first = Leg(start, route[1])
    OBVIOUS
  <2>2. PICK second : second = Leg(first, route[2])
    OBVIOUS
  <2>3. PICK third : third = Leg(second, route[3])
    OBVIOUS
  <2> DEFINE f == [n \in 0 .. Len(route) |->
                    IF n = 0 THEN start ELSE IF n = 1 THEN first
                    ELSE IF n = 2 THEN second ELSE third]
  <2>4. \A n \in 0 .. Len(route) : f[n] = IF n = 0 THEN start ELSE Leg(f[n - 1], route[n])
    BY <2>1, <2>2, <2>3
  <2>5. f = Extended(f)
    BY <2>4
  <2> HIDE DEF f, Extended
  <2> QED BY <2>5
<1> HIDE DEF Extended
<1>3. Legs(route, start) = Extended(Legs(route, start))
  BY <1>1, <1>2
<1> QED BY <1>3 DEF Extended

\* An evaluation knows of its source what was known, or what the classifier
\* says.
LEMMA OutcomeLearns ==
    ASSUME NEW conv \in Legal, NEW c, NEW w
    PROVE  Outcome(conv, c, w).known \in {w, FromBuffer(c)}
<1>0. PICK before : before = Start(c, w)
  OBVIOUS
<1>1. Learns(Start(c, w), c, w, before)
  BY <1>0, StartLearns
<1>2. PICK route : route = Route[conv]
  OBVIOUS
<1>3. /\ Len(route) \in 1 .. 3
      /\ \A i \in 1 .. Len(route) : route[i] \in Tables
  BY <1>2, CheckConversions DEF Tables, Legal, MaxLegs
<1> DEFINE legs == Legs(route, Start(c, w))
<1>4. ASSUME NEW n \in 1 .. Len(route), Learns(legs[n - 1], c, w, before)
      PROVE  Learns(legs[n], c, w, before)
  <2>1. Learns(Leg(legs[n - 1], route[n]), c, w, before)
    BY <1>3, <1>4, LegLearns
  <2> QED BY <1>3, <2>1, LegsByLeg
<1>5. Learns(legs[0], c, w, before)
  BY <1>1, <1>3, LegsByLeg
<1> HIDE DEF legs
<1>6. Learns(legs[1], c, w, before)
  <2>1. 1 \in 1 .. Len(route) /\ 1 - 1 = 0
    BY <1>3
  <2> QED BY <1>4, <1>5, <2>1
<1>7. 2 <= Len(route) => Learns(legs[2], c, w, before)
  <2>1. 2 <= Len(route) => 2 \in 1 .. Len(route) /\ 2 - 1 = 1
    BY <1>3
  <2> QED BY <1>4, <1>6, <2>1
<1>8. 3 <= Len(route) => Learns(legs[3], c, w, before)
  <2>1. 3 <= Len(route) => 3 \in 1 .. Len(route) /\ 3 - 1 = 2 /\ 2 <= Len(route)
    BY <1>3
  <2> QED BY <1>4, <1>7, <2>1
<1>9. Learns(legs[Len(route)], c, w, before)
  <2>1. Len(route) \in {1, 2, 3}
    BY <1>3
  <2>2. CASE Len(route) = 1
    BY <1>6, <2>2
  <2>3. CASE Len(route) = 2
    BY <1>7, <2>3
  <2>4. CASE Len(route) = 3
    BY <1>8, <2>4
  <2> QED BY <2>1, <2>2, <2>3, <2>4
<1>10. Learns(ConvertChecksum(conv, c, w), c, w, before)
  BY <1>2, <1>9 DEF ConvertChecksum, legs
<1>11. Learns(Fail(Start(c, w)), c, w, before)
  BY <1>1, StepsLearn
<1>12. Learns(Outcome(conv, c, w), c, w, before)
  BY <1>1, <1>10, <1>11 DEF Outcome, Evaluated
<1> QED BY <1>12 DEF Learns

-----------------------------------------------------------------------------
(* The inductive invariant *)

\* A word that is stored: it is queued, or the database has it already.
LEMMA SetHashTypeInv ==
    ASSUME TypesInv, NEW word \in TrueWords(content), NEW upload \in BOOLEAN,
           SetHashType(word, upload), UNCHANGED <<content, database>>,
           upload \/ (database # Unknown /\ Implies(database, word))
    PROVE  /\ known' \in Word /\ uploads' \subseteq TrueWords(content)
           /\ givenUp' \in BOOLEAN /\ NeverRefused' /\ KnowledgeShared'
<1>1. content \in Contents /\ known \in Word /\ uploads \subseteq TrueWords(content)
  BY DEF TypesInv, WordsTrue
<1>2. IsValidWord(word) /\ word # Unknown /\ Implies(word, word)
  BY <1>1, Order
<1>3. known = Unknown \/ Implies(known, word) \/ Implies(word, known)
  BY <1>1, Order DEF Word
<1>4. /\ known' \in {known, word}
      /\ known' = word /\ upload => (word \in uploads' \/ known' = known)
      /\ uploads \subseteq uploads' /\ uploads' \subseteq uploads \union {word}
      /\ ~refused'
      /\ givenUp' \in BOOLEAN /\ (known' = known /\ givenUp => givenUp')
  BY <1>2, <1>3 DEF SetHashType, TypesInv, NeverRefused, WordsTrue
<1>5. KnowledgeShared'
  BY <1>4 DEF TypesInv, KnowledgeShared, Implies
<1> QED BY <1>1, <1>4, <1>5 DEF Word, NeverRefused

\* The database never forgets.
LEMMA StoredTightens ==
    ASSUME TypesInv, NEW word \in TrueWords(content), UNCHANGED content,
           database' = Stored(word)
    PROVE  /\ database' \in TrueWords(content) /\ database' # Unknown
           /\ Implies(database', word)
           /\ \A w \in TrueWords(content) :
                database # Unknown /\ Implies(database, w) => Implies(database', w)
<1>1. content \in Contents /\ database \in TrueWords(content) \union {Unknown}
  BY DEF TypesInv, WordsTrue, Word
<1>2. word # Unknown /\ Implies(word, word)
  BY <1>1, Order
<1>3. CASE database = Unknown
  BY <1>2, <1>3 DEF Stored, Implies
<1>4. CASE database # Unknown
  <2>1. database \in TrueWords(content)
    BY <1>1, <1>4
  <2>2. Implies(word, database) \/ Implies(database, word)
    BY <1>1, <2>1, Order
  <2>3. PICK old, new : old = database /\ new = database'
    OBVIOUS
  <2>4. new \in {old, word} /\ Implies(new, old) /\ Implies(new, word)
    BY <1>1, <1>2, <1>4, <2>1, <2>2, <2>3, Order DEF Stored
  <2>5. new \in TrueWords(content) /\ new # Unknown
    BY <1>2, <1>4, <2>1, <2>3, <2>4
  <2>6. \A w \in TrueWords(content) : Implies(old, w) => Implies(new, w)
    BY <1>1, <2>1, <2>3, <2>4, <2>5, Order
  <2>7. Implies(database', word) /\
        \A w \in TrueWords(content) : Implies(database, w) => Implies(database', w)
    BY <2>3, <2>4, <2>6 DEF Implies
  <2> QED BY <2>3, <2>5, <2>7
<1> QED BY <1>3, <1>4

LEMMA InitInv ==
    ASSUME Init
    PROVE  TypesInv
<1> USE DEF Init, TypesInit
<1>1. WordsTrue
  BY DEF WordsTrue, Word
<1>2. AnswersKept
  BY DEF AnswersKept, Idle
<1> QED BY <1>1, <1>2 DEF TypesInv, NeverRefused, KnowledgeShared

\* The steps that leave the word known here, the queue and the database alone.
LEMMA LookupStep ==
    ASSUME TypesInv, UNCHANGED <<content, known, database, uploads, refused, givenUp>>,
           NEW p \in Caller, NEW entry, lookup' = [lookup EXCEPT ![p] = entry],
           \/ entry \in {Idle, [at |-> "asking"]}
           \/ entry = [at |-> "answered", word |-> database]
    PROVE  TypesInv'
<1>1. WordsTrue'
  <2>1. entry \in {Idle, [at |-> "asking"]} \union [at : {"answered"}, word : Word]
    BY DEF TypesInv, WordsTrue
  <2> QED BY <2>1 DEF TypesInv, WordsTrue, Word
<1>2. AnswersKept'
  <2> SUFFICES ASSUME NEW x \in Caller, lookup'[x].at = "answered", lookup'[x].word # Unknown
               PROVE  database # Unknown /\ Implies(database, lookup'[x].word)
    BY DEF AnswersKept, Implies
  <2>1. CASE x = p
    <3>1. lookup'[x] = entry /\ entry = [at |-> "answered", word |-> database]
      BY <2>1 DEF TypesInv, WordsTrue, Idle
    <3>2. database # Unknown /\ database \in TrueWords(content) /\ content \in Contents
      BY <3>1 DEF TypesInv, WordsTrue, Word
    <3>3. Implies(database, database)
      BY <3>2, Order
    <3> QED BY <3>1, <3>2, <3>3
  <2>2. CASE x # p
    <3>1. lookup'[x] = lookup[x]
      BY <2>2 DEF TypesInv, WordsTrue
    <3> QED BY <3>1 DEF TypesInv, AnswersKept
  <2> QED BY <2>1, <2>2
<1> QED BY <1>1, <1>2 DEF TypesInv, NeverRefused, KnowledgeShared, Implies

\* A word that is stored, by a step that may end a lookup.
LEMMA StoreStep ==
    ASSUME TypesInv, NEW word \in TrueWords(content), NEW upload \in BOOLEAN,
           SetHashType(word, upload), UNCHANGED <<content, database>>,
           upload \/ (database # Unknown /\ Implies(database, word)),
           \/ UNCHANGED lookup
           \/ \E p \in Caller : lookup' = [lookup EXCEPT ![p] = Idle]
    PROVE  TypesInv'
<1>1. /\ known' \in Word /\ uploads' \subseteq TrueWords(content)
      /\ givenUp' \in BOOLEAN /\ NeverRefused' /\ KnowledgeShared'
  BY SetHashTypeInv
<1>2. \A x \in Caller : lookup'[x] \in {lookup[x], Idle}
  BY DEF TypesInv, WordsTrue
<1>3. lookup' \in [Caller -> {Idle, [at |-> "asking"]} \union [at : {"answered"}, word : Word]]
  BY DEF TypesInv, WordsTrue
<1>4. WordsTrue'
  BY <1>1, <1>3 DEF TypesInv, WordsTrue, Word
<1>5. AnswersKept'
  BY <1>2 DEF TypesInv, AnswersKept, Idle, Implies
<1> QED BY <1>1, <1>4, <1>5 DEF TypesInv

\* A step that stores a word in the database, perhaps one of the queue.
LEMMA DatabaseStep ==
    ASSUME TypesInv, NEW word \in TrueWords(content), database' = Stored(word),
           UNCHANGED <<content, known, lookup, refused, givenUp>>,
           uploads' \in {uploads, uploads \ {word}}
    PROVE  TypesInv'
<1>1. /\ database' \in TrueWords(content) /\ database' # Unknown
      /\ Implies(database', word)
      /\ \A w \in TrueWords(content) :
           database # Unknown /\ Implies(database, w) => Implies(database', w)
  BY StoredTightens
<1>2. WordsTrue'
  BY <1>1 DEF TypesInv, WordsTrue, Word
<1>3. AnswersKept'
  <2> SUFFICES ASSUME NEW x \in Caller, lookup[x].at = "answered", lookup[x].word # Unknown
               PROVE  database' # Unknown /\ Implies(database', lookup[x].word)
    BY DEF AnswersKept, Implies
  <2>1. lookup[x].word \in TrueWords(content)
    BY DEF TypesInv, WordsTrue, Word, Idle
  <2> QED BY <1>1, <2>1 DEF TypesInv, AnswersKept
<1>4. KnowledgeShared'
  <2> SUFFICES ASSUME known # Unknown, known \notin uploads', ~givenUp
               PROVE  Implies(database', known)
    BY <1>1 DEF KnowledgeShared, Implies
  <2>1. known \in TrueWords(content)
    BY DEF TypesInv, WordsTrue, Word
  <2>2. known = word \/ (database # Unknown /\ Implies(database, known))
    BY DEF TypesInv, KnowledgeShared
  <2> QED BY <1>1, <2>1, <2>2
<1> QED BY <1>2, <1>3, <1>4 DEF TypesInv, NeverRefused

LEMMA EvaluateStep ==
    ASSUME TypesInv, NEW inLoop \in BOOLEAN, EvaluateExpression(inLoop)
    PROVE  TypesInv'
<1>1. PICK word : word = IF inLoop THEN Unknown ELSE database
  OBVIOUS
<1>2. /\ known' \in {Outcome(conv, content, word).known : conv \in Legal}
      /\ uploads' = IF word = known' THEN uploads ELSE uploads \union {known'}
      /\ UNCHANGED <<content, database, lookup, refused, givenUp>>
  BY <1>1 DEF EvaluateExpression
<1>3. known' \in {word, FromBuffer(content)}
  BY <1>2, OutcomeLearns
<1>4. FromBuffer(content) \in TrueWords(content)
  BY DEF TrueWords
<1>5. word = Unknown \/ word = database
  BY <1>1
<1>6. known' \in Word /\ (known' = word \/ known' \in TrueWords(content))
  BY <1>3, <1>4, <1>5 DEF TypesInv, WordsTrue, Word
<1>7. uploads' \subseteq TrueWords(content)
  BY <1>2, <1>6 DEF TypesInv, WordsTrue
<1>8. WordsTrue' /\ AnswersKept'
  BY <1>2, <1>6, <1>7 DEF TypesInv, WordsTrue, Word, AnswersKept, Implies
<1>9. KnowledgeShared'
  <2>1. CASE known' = word /\ word # Unknown
    <3>1. database # Unknown /\ database \in TrueWords(content) /\ content \in Contents
      BY <1>5, <2>1 DEF TypesInv, WordsTrue, Word
    <3>2. Implies(database, database)
      BY <3>1, Order
    <3> QED BY <1>2, <1>5, <2>1, <3>1, <3>2 DEF KnowledgeShared, Implies
  <2>2. CASE known' = Unknown
    BY <2>2 DEF KnowledgeShared
  <2>3. CASE known' # word
    BY <1>2, <2>3 DEF KnowledgeShared
  <2> QED BY <2>1, <2>2, <2>3
<1> QED BY <1>2, <1>8, <1>9 DEF TypesInv, NeverRefused

LEMMA NextInv ==
    ASSUME TypesInv, [Next]_typeVars
    PROVE  TypesInv'
<1>1. FromBuffer(content) \in TrueWords(content)
  BY DEF TrueWords
<1>2. CASE RegisterHashTypeForBuffer \/ SetHashTypeRemote
  <2>1. PICK word \in TrueWords(content) : SetHashType(word, TRUE)
    BY <1>1, <1>2 DEF RegisterHashTypeForBuffer, SetHashTypeRemote
  <2>2. UNCHANGED <<content, database, lookup>>
    BY <1>2 DEF RegisterHashTypeForBuffer, SetHashTypeRemote
  <2> QED BY <2>1, <2>2, StoreStep
<1>3. ASSUME NEW p \in Caller, EnsureHashTypeAsync(p) \/ DatabaseAnswers(p)
      PROVE  TypesInv'
  BY <1>3, LookupStep DEF EnsureHashTypeAsync, DatabaseAnswers
<1>4. ASSUME NEW p \in Caller, EnsureResumes(p)
      PROVE  TypesInv'
  <2>1. PICK word : word = lookup[p].word
    OBVIOUS
  <2>2. /\ lookup[p].at = "answered" /\ lookup' = [lookup EXCEPT ![p] = Idle]
        /\ UNCHANGED <<content, database>>
        /\ \/ word # Unknown /\ SetHashType(word, FALSE)
           \/ SetHashType(FromBuffer(content), TRUE)
           \/ UNCHANGED <<known, uploads, refused, givenUp>>
    BY <1>4, <2>1 DEF EnsureResumes
  <2>3. word \in Word
    BY <2>1, <2>2 DEF TypesInv, WordsTrue, Idle
  <2>4. CASE word # Unknown /\ SetHashType(word, FALSE)
    <3>1. word \in TrueWords(content) /\ database # Unknown /\ Implies(database, word)
      BY <2>1, <2>2, <2>3, <2>4 DEF Word, TypesInv, AnswersKept
    <3> QED BY <2>2, <2>4, <3>1, StoreStep
  <2>5. CASE SetHashType(FromBuffer(content), TRUE)
    BY <1>1, <2>2, <2>5, StoreStep
  <2>6. CASE UNCHANGED <<known, uploads, refused, givenUp>>
    BY <2>2, <2>6, LookupStep
  <2> QED BY <2>2, <2>4, <2>5, <2>6
<1>5. CASE UploadWritten
  <2>1. PICK word \in uploads :
          uploads' = uploads \ {word} /\ database' = Stored(word)
          /\ UNCHANGED <<content, known, lookup, refused, givenUp>>
    BY <1>5 DEF UploadWritten
  <2>2. word \in TrueWords(content)
    BY <2>1 DEF TypesInv, WordsTrue
  <2> QED BY <2>1, <2>2, DatabaseStep
<1>6. CASE OtherProcessWrites
  <2>1. PICK word \in TrueWords(content) : database' = Stored(word)
    BY <1>6 DEF OtherProcessWrites
  <2>2. UNCHANGED <<content, known, uploads, lookup, refused, givenUp>>
    BY <1>6 DEF OtherProcessWrites
  <2> QED BY <2>1, <2>2, DatabaseStep
<1>7. CASE UploadGivenUp
  <2>1. PICK word \in uploads :
          /\ uploads' = uploads \ {word} /\ givenUp' = (givenUp \/ word = known)
          /\ UNCHANGED <<content, known, database, lookup, refused>>
    BY <1>7 DEF UploadGivenUp
  <2>2. WordsTrue' /\ AnswersKept'
    BY <2>1 DEF TypesInv, WordsTrue, Word, AnswersKept, Implies
  <2>3. KnowledgeShared'
    BY <2>1 DEF TypesInv, KnowledgeShared, Implies
  <2> QED BY <2>1, <2>2, <2>3 DEF TypesInv, NeverRefused
<1>8. CASE UNCHANGED typeVars
  BY <1>8 DEF typeVars, TypesInv, WordsTrue, Word, AnswersKept, NeverRefused,
              KnowledgeShared, Implies
<1> QED BY <1>2, <1>3, <1>4, <1>5, <1>6, <1>7, <1>8, EvaluateStep DEF Next, TypesNext

-----------------------------------------------------------------------------
(* The theorems *)

\* Whatever is known of a buffer is true of it, here, in the queue, in the
\* database and in the answers under way.
THEOREM SpecTypesInv == Spec => []TypesInv
<1>1. Init => TypesInv
  BY InitInv
<1>2. TypesInv /\ [Next]_typeVars => TypesInv'
  BY NextInv
<1> QED BY <1>1, <1>2, PTL DEF Spec

\* set_hash_type never meets an invalid or a contradictory word.
THEOREM WordsNeverClash == Spec => []NeverRefused
<1>1. TypesInv => NeverRefused
  BY DEF TypesInv
<1> QED BY <1>1, SpecTypesInv, PTL

\* The word that a process knows is queued, or the database has it or a
\* tighter one, unless the writer has given the upload of this word up.
THEOREM KnowledgeReachesDatabase == Spec => []KnowledgeShared
<1>1. TypesInv => KnowledgeShared
  BY DEF TypesInv
<1> QED BY <1>1, SpecTypesInv, PTL

-----------------------------------------------------------------------------
(* The answers of a hash type *)

LEMMA ValuesApart ==
    /\ Failed # NotVirtual
    /\ \A form : Json(form) # Failed /\ Json(form) # NotVirtual /\ Json(form).type = "json"
    /\ \A form, other : Json(form) = Json(other) => form = other
    /\ \A c : Str(c) # Failed /\ Str(c) # NotVirtual /\ Str(c).type = "str"
    /\ \A c, form : Str(c) # Json(form)
    /\ \A c : Array(c) # Failed /\ Tree(c) # Failed
    /\ \A form : Failed # Json(form)
    /\ Failed.type = "failed"
<1>2. ASSUME NEW form, NEW other, Json(form) = Json(other)
      PROVE  form = other
  <2>1. Json(form).of.form = form /\ Json(other).of.form = other
    BY DEF Json, Plainly
  <2> QED BY <1>2, <2>1
<1>3. \A form : Json(form).type = "json"
  BY DEF Json
<1>4. \A c : Str(c).type = "str" /\ Array(c).type = "array" /\ Tree(c).type = "tree"
  BY DEF Str, Array, Tree
<1>5. Failed.type = "failed" /\ NotVirtual.type = "not_virtual"
  BY DEF Failed, NotVirtual
<1> QED BY <1>2, <1>3, <1>4, <1>5

LEMMA VirtualFacts ==
    ASSUME NEW c, NEW celltype \in Celltype
    PROVE  /\ IsNull(c) => VirtualValue(c, celltype) \notin {NotVirtual, Failed}
           /\ IsBool(c) =>
                CASE celltype \in {"bool", "plain", "mixed", "str"} ->
                        VirtualValue(c, celltype) \notin {NotVirtual, Failed}
                  [] celltype \in Numeric -> VirtualValue(c, celltype) = Failed
                  [] OTHER -> VirtualValue(c, celltype) = NotVirtual
           /\ ~IsNull(c) /\ ~IsBool(c) =>
                VirtualValue(c, celltype) = IF celltype = "bool" THEN Failed ELSE NotVirtual
<1>1. ~(IsNull(c) /\ IsBool(c))
  BY DEF IsNull, IsBool
<1>2. CASE IsNull(c)
  <2>1. VirtualValue(c, celltype) = Json("null")
    BY <1>1, <1>2 DEF VirtualValue
  <2> QED BY <1>1, <1>2, <2>1, ValuesApart
<1>3. CASE IsBool(c)
  <2>1. CASE celltype \in {"bool", "plain", "mixed"}
    <3>1. VirtualValue(c, celltype) = Json("true")
      BY <1>1, <1>3, <2>1 DEF VirtualValue, Numeric
    <3> QED BY <1>1, <1>3, <2>1, <3>1, ValuesApart DEF Numeric
  <2>2. CASE celltype = "str"
    <3>1. VirtualValue(c, celltype) = Str(Plainly("True", FALSE))
      BY <1>1, <1>3, <2>2 DEF VirtualValue, Numeric
    <3> QED BY <1>1, <1>3, <2>2, <3>1, ValuesApart DEF Numeric
  <2>3. CASE celltype \in Numeric
    BY <1>1, <1>3, <2>3 DEF VirtualValue, Numeric
  <2>4. CASE celltype \notin {"bool", "plain", "mixed", "str"} \union Numeric
    BY <1>1, <1>3, <2>4 DEF VirtualValue
  <2> QED BY <2>1, <2>2, <2>3, <2>4
<1>4. CASE ~IsNull(c) /\ ~IsBool(c)
  BY <1>4 DEF VirtualValue
<1> QED BY <1>2, <1>3, <1>4

\* What the parser of plain values makes of a buffer.
LEMMA PlainFacts ==
    ASSUME NEW c
    PROVE  /\ PlainValue(c) # Failed <=> c.form \in JsonForm
           /\ PlainValue(c).type = "str" <=> c.form = "string"
           /\ PlainValue(c) = Json("true") <=> c.form \in {"true", "spaced_true"}
           /\ PlainValue(c) = Json("number") <=> c.form \in NumberForm
<1>1. CASE c.form = "string"
  <2>1. PlainValue(c) = Str(c.of)
    BY <1>1 DEF PlainValue, NumberForm
  <2> QED BY <1>1, <2>1, ValuesApart DEF JsonForm, NumberForm
<1>2. CASE c.form \in NumberForm
  <2>1. PlainValue(c) = Json("number")
    BY <1>2 DEF PlainValue, NumberForm
  <2> QED BY <1>2, <2>1, ValuesApart DEF JsonForm, NumberForm
<1>3. CASE c.form \in {"true", "spaced_true"}
  <2>1. PlainValue(c) = Json("true")
    BY <1>3 DEF PlainValue, NumberForm
  <2> QED BY <1>3, <2>1, ValuesApart DEF JsonForm, NumberForm
<1>4. CASE c.form \in {"null", "spaced_null"}
  <2>1. PlainValue(c) = Json("null")
    BY <1>4 DEF PlainValue, NumberForm
  <2> QED BY <1>4, <2>1, ValuesApart DEF JsonForm, NumberForm
<1>5. CASE c.form \in {"object", "array", "ragged"}
  <2>1. PlainValue(c) = Json(c.form)
    BY <1>5 DEF PlainValue, NumberForm
  <2> QED BY <1>5, <2>1, ValuesApart DEF JsonForm, NumberForm
<1>6. CASE c.form \notin JsonForm
  <2>1. PlainValue(c) = Failed
    BY <1>6 DEF PlainValue, NumberForm, JsonForm
  <2> QED BY <1>6, <2>1, ValuesApart DEF JsonForm, NumberForm
<1> QED BY <1>1, <1>2, <1>3, <1>4, <1>5, <1>6 DEF JsonForm

\* What the parser of mixed values makes of a buffer that is not text.
LEMMA MixedFacts ==
    ASSUME NEW c, c.form \in Form \ TextForm
    PROVE  /\ c.form \in DOMAIN ArrayForm \union JsonForm => MixedValue(c) # Failed
           /\ c.form \in OpaqueForm => MixedValue(c) = Failed
<1>1. CASE c.form \in DOMAIN ArrayForm
  <2>1. MixedValue(c) = Array(c)
    BY <1>1, FormsApart DEF MixedValue, JsonForm, NumberForm
  <2> QED BY <1>1, <2>1, ValuesApart, FormsApart
<1>2. CASE c.form = "digits"
  <2>1. MixedValue(c) = Json("digits")
    BY <1>2, FormsApart DEF MixedValue, JsonForm, NumberForm
  <2> QED BY <1>2, <2>1, ValuesApart, FormsApart DEF OpaqueForm
<1>3. CASE c.form \in JsonForm \ {"digits"}
  <2>1. MixedValue(c) = PlainValue(c)
    BY <1>3, FormsApart DEF MixedValue
  <2> QED BY <1>3, <2>1, PlainFacts, FormsApart
<1>4. CASE c.form \in OpaqueForm
  BY <1>4, FormsApart DEF MixedValue, JsonForm, NumberForm
<1> QED BY <1>1, <1>2, <1>3, <1>4

\* What a buffer can be read as.
LEMMA Reads ==
    ASSUME NEW c \in Contents, ~IsNull(c)
    PROVE  /\ Readable(c, "bytes")
           /\ Readable(c, "bool") <=> IsBool(c)
           /\ Readable(c, "text") <=> IsText(c)
           /\ \A celltype \in TextSubtype : Readable(c, celltype) => IsText(c)
           /\ Readable(c, "plain") <=> c.form \in JsonForm
           /\ Readable(c, "str") <=>
                c.form \in {"string", "true", "spaced_true"} \union NumberForm
           /\ \A celltype \in Numeric : Readable(c, celltype) <=>
                c.length # 3 /\ (c.form \in NumberForm \/ IsNumericString(c))
           /\ Readable(c, "binary") <=> c.form \in DOMAIN ArrayForm
           /\ c.form \in DOMAIN ArrayForm \union JsonForm => Readable(c, "mixed")
           /\ Readable(c, "mixed") => c.form \notin OpaqueForm \union TextForm
           /\ Readable(c, "checksum") <=> c.form \in DigestForm /\ c.length = 1
<1>1. c.form \in Form
  BY TypesAssumption
<1>2. ASSUME NEW celltype \in {"bytes", "text", "binary", "checksum"} \union TextSubtype
      PROVE  VirtualValue(c, celltype) = NotVirtual
  BY <1>2, VirtualFacts DEF TextSubtype, Code, Celltype, Numeric
<1>3. ASSUME NEW celltype \in {"plain", "mixed", "str"}
      PROVE  /\ IsBool(c) => VirtualValue(c, celltype) \notin {NotVirtual, Failed}
             /\ ~IsBool(c) => VirtualValue(c, celltype) = NotVirtual
  BY <1>3, VirtualFacts DEF Celltype, Numeric
<1>4. IsBool(c) => c.form = "true" /\ c.form \in JsonForm /\ IsText(c)
                   /\ c.form \notin NumberForm /\ ~IsNumericString(c)
                   /\ c.form \notin DOMAIN ArrayForm \union OpaqueForm \union TextForm
  BY FormsApart DEF IsBool, JsonForm, NumberForm, IsText, IsNumericString
<1>5. Readable(c, "bytes")
  <2>1. Parsed(c, "bytes") = [type |-> "bytes", of |-> c]
    BY DEF Parsed, TextSubtype, Code, Scalar
  <2>2. Parsed(c, "bytes").type = "bytes"
    BY <2>1
  <2> QED BY <1>2, <2>2, ValuesApart DEF Readable
<1>6. Readable(c, "bool") <=> IsBool(c)
  <2>1. IsBool(c) => VirtualValue(c, "bool") \notin {NotVirtual, Failed}
    BY VirtualFacts DEF Celltype, Numeric
  <2>2. ~IsBool(c) => VirtualValue(c, "bool") = Failed
    BY VirtualFacts DEF Celltype
  <2> QED BY <2>1, <2>2, ValuesApart DEF Readable
<1>7. ASSUME NEW celltype \in {"text"} \union TextSubtype
      PROVE  /\ Readable(c, celltype) => IsText(c)
             /\ celltype = "text" /\ IsText(c) => Readable(c, celltype)
  <2>1. Parsed(c, celltype) = IF IsText(c) /\ ValidText(c, celltype) THEN Str(c) ELSE Failed
    BY <1>7 DEF Parsed, TextSubtype, Code, Scalar, Numeric
  <2>2. celltype = "text" => ValidText(c, celltype)
    BY DEF ValidText
  <2>3. VirtualValue(c, celltype) = NotVirtual /\ celltype \notin {"binary", "mixed"}
    BY <1>2, <1>7 DEF TextSubtype, Code
  <2> QED BY <2>1, <2>2, <2>3, ValuesApart DEF Readable
<1>8. Readable(c, "plain") <=> c.form \in JsonForm
  <2>1. Parsed(c, "plain") = PlainValue(c)
    BY DEF Parsed, TextSubtype, Code, Scalar
  <2> QED BY <1>3, <1>4, <2>1, PlainFacts, ValuesApart DEF Readable
<1>9. ASSUME NEW celltype \in Scalar
      PROVE  Parsed(c, celltype) = ScalarValue(c, PlainValue(c), celltype)
  BY <1>9 DEF Parsed, TextSubtype, Code, Scalar
<1>10. Readable(c, "str") <=> c.form \in {"string", "true", "spaced_true"} \union NumberForm
  <2>1. PICK value : value = PlainValue(c)
    OBVIOUS
  <2>2. Parsed(c, "str") = IF value.type = "str" THEN value
             ELSE IF value = Json("true") THEN Str(Plainly("True", FALSE))
             ELSE IF value = Json("number") THEN Str(value.of) ELSE Failed
    BY <1>9, <2>1 DEF Scalar, ScalarValue, Numeric
  <2>3. value.type = "str" => value # Failed
    BY ValuesApart
  <2>4. Parsed(c, "str") # Failed <=> c.form \in {"string", "true", "spaced_true"} \union NumberForm
    BY <2>1, <2>2, <2>3, PlainFacts, ValuesApart
  <2> QED BY <1>3, <1>4, <2>4, ValuesApart DEF Readable
<1>11. ASSUME NEW celltype \in Numeric
       PROVE  Readable(c, celltype) <=>
                c.length # 3 /\ (c.form \in NumberForm \/ IsNumericString(c))
  <2>1. Parsed(c, celltype) =
          IF c.length # 3 /\ (IsNumericString(c) \/ PlainValue(c) = Json("number"))
          THEN Json("number") ELSE Failed
    BY <1>9, <1>11 DEF Scalar, ScalarValue, Numeric, Length
  <2>2. Parsed(c, celltype) # Failed <=>
          c.length # 3 /\ (c.form \in NumberForm \/ IsNumericString(c))
    BY <2>1, PlainFacts, ValuesApart
  <2>3. celltype \in Celltype /\ celltype \notin {"binary", "mixed", "bool", "plain", "str"}
    BY <1>11 DEF Numeric, Celltype
  <2>4. CASE IsBool(c)
    <3>1. VirtualValue(c, celltype) = Failed
      BY <1>11, <2>3, <2>4, VirtualFacts
    <3> QED BY <1>4, <2>4, <3>1, ValuesApart DEF Readable
  <2>5. CASE ~IsBool(c)
    <3>1. VirtualValue(c, celltype) = NotVirtual
      BY <2>3, <2>5, VirtualFacts
    <3> QED BY <2>2, <2>3, <3>1, ValuesApart DEF Readable
  <2> QED BY <2>4, <2>5
<1>12. Readable(c, "binary") <=> c.form \in DOMAIN ArrayForm
  <2>1. Parsed(c, "binary") =
          IF c.form \in TextForm \union DOMAIN ArrayForm THEN MixedValue(c) ELSE Failed
    BY DEF Parsed, TextSubtype, Code, Scalar
  <2>2. c.form \in DOMAIN ArrayForm => c.form \notin TextForm /\ MixedValue(c) # Failed
    BY <1>1, MixedFacts, FormsApart
  <2> QED BY <1>2, <2>1, <2>2, ValuesApart DEF Readable
<1>13. /\ c.form \in DOMAIN ArrayForm \union JsonForm => Readable(c, "mixed")
       /\ Readable(c, "mixed") => c.form \notin OpaqueForm \union TextForm
  <2>1. Parsed(c, "mixed") = MixedValue(c)
    BY DEF Parsed, TextSubtype, Code, Scalar
  <2>2. c.form \notin TextForm =>
          /\ c.form \in DOMAIN ArrayForm \union JsonForm => MixedValue(c) # Failed
          /\ c.form \in OpaqueForm => MixedValue(c) = Failed
    BY <1>1, MixedFacts
  <2>3. c.form \in DOMAIN ArrayForm \union JsonForm => c.form \notin TextForm
    BY FormsApart
  <2> QED BY <1>3, <1>4, <2>1, <2>2, <2>3, ValuesApart DEF Readable
<1>14. Readable(c, "checksum") <=> c.form \in DigestForm /\ c.length = 1
  <2>1. Parsed(c, "checksum") = IF c.form \in DigestForm /\ c.length = 1
                                THEN [type |-> "checksum"] ELSE Failed
    BY DEF Parsed, TextSubtype, Code, Scalar, Length
  <2>2. [type |-> "checksum"] # Failed
    BY DEF Failed
  <2> QED BY <1>2, <2>1, <2>2, ValuesApart DEF Readable
<1>15. Readable(c, "text") <=> IsText(c)
  BY <1>7
<1>16. \A celltype \in TextSubtype : Readable(c, celltype) => IsText(c)
  BY <1>7
<1> QED BY <1>5, <1>6, <1>8, <1>10, <1>11, <1>12, <1>13, <1>14, <1>15, <1>16

\* An answer that is right.
Right(answer, readable) ==
    /\ answer = "True" => readable
    /\ answer = "False" => ~readable

\* The answers of the classifier's word.
LEMMA TestedRight ==
    ASSUME NEW c \in Contents, ~IsNull(c), NEW celltype \in Celltype \ {"bytes", "bool"}
    PROVE  LET t == Unpack(FromBuffer(c)) IN
           ~IsUntested(t) /\ Right(TestedAnswer(t, celltype, c), Readable(c, celltype))
<1>1. PICK kind, dtype, rank, flags :
        /\ Classified(c, kind, dtype, rank, flags)
        /\ Says(FromBuffer(c), kind, c.length, dtype, rank, flags)
  BY TestedSays
<1>2. PICK t : t = Unpack(FromBuffer(c))
  OBVIOUS
<1>3. t.kind = kind /\ t.length = c.length /\ t.flags = flags
  BY <1>1, <1>2 DEF Says
<1>4. /\ IsUtf8(t) <=> IsText(c)
      /\ IsJson(t) <=> c.form \in JsonForm
      /\ HasFlag(t, 1) <=> c.form \in NumberForm \/ IsNumericString(c)
      /\ ~IsUntested(t)
  <2>1. /\ IsJson(t) <=> kind \in {5, 6, 7, 8, 12}
        /\ IsUtf8(t) <=> kind \in {4, 5, 6, 7, 8, 12}
        /\ ~IsUntested(t)
    BY <1>1, <1>3 DEF IsJson, IsUtf8, IsUntested, Kind, Classified
  <2>2. HasFlag(t, 1) <=> flags = 1
    BY <1>1, <1>3, FlagFacts DEF Classified
  <2> QED BY <1>1, <2>1, <2>2 DEF Classified, IsText
<1> DEFINE A == TestedAnswer(t, celltype, c)
<1>5. CASE celltype = "text"
  <2>1. A = Answer(IsUtf8(t))
    BY <1>5 DEF TestedAnswer
  <2> QED BY <1>2, <1>4, <1>5, <2>1, Reads DEF Answer, Right
<1>6. CASE celltype \in TextSubtype
  <2>1. A = Perhaps(IsUtf8(t))
    BY <1>6 DEF TestedAnswer, TextSubtype, Code
  <2> QED BY <1>2, <1>4, <1>6, <2>1, Reads DEF Perhaps, Right
<1>7. CASE celltype = "plain"
  <2>1. A = Answer(IsJson(t))
    BY <1>7 DEF TestedAnswer
  <2> QED BY <1>2, <1>4, <1>7, <2>1, Reads DEF Answer, Right
<1>8. CASE celltype = "str"
  <2>1. A = Answer(kind \in {7, 8})
    BY <1>3, <1>8 DEF TestedAnswer, Kind
  <2>2. kind \in {7, 8} <=> c.form \in {"string", "true", "spaced_true"} \union NumberForm
    BY <1>1 DEF Classified
  <2> QED BY <1>2, <1>4, <1>8, <2>1, <2>2, Reads DEF Answer, Right
<1>9. CASE celltype \in Numeric
  <2>1. A = Answer(c.length # 3 /\ HasFlag(t, 1))
    BY <1>3, <1>9 DEF TestedAnswer, Numeric, Length, Flag
  <2> QED BY <1>2, <1>4, <1>9, <2>1, Reads DEF Answer, Right
<1>10. CASE celltype = "binary"
  <2>1. A = Answer(kind = 1)
    BY <1>3, <1>10 DEF TestedAnswer, Kind
  <2> QED BY <1>1, <1>2, <1>4, <1>10, <2>1, Reads DEF Answer, Right, Classified
<1>11. CASE celltype = "mixed"
  <2>1. A = IF kind \in {2, 3} THEN "None" ELSE Answer(kind \notin {0, 4})
    BY <1>3, <1>11 DEF TestedAnswer, Kind
  <2>2. kind \notin {0, 2, 3, 4} => c.form \in DOMAIN ArrayForm \union JsonForm
    BY <1>1 DEF Classified
  <2>3. kind \in {0, 4} => c.form \in OpaqueForm \union TextForm
    BY <1>1 DEF Classified
  <2> QED BY <1>2, <1>4, <1>11, <2>1, <2>2, <2>3, Reads DEF Answer, Right
<1>12. CASE celltype = "checksum"
  <2>1. A = Perhaps(kind \in {4, 8} /\ c.length = 1)
    BY <1>3, <1>12 DEF TestedAnswer, Kind, Length
  <2>2. c.form \in DigestForm => kind \in {4, 8}
    BY <1>1 DEF Classified, DigestForm, TextForm, NumberForm
  <2> QED BY <1>2, <1>4, <1>12, <2>1, <2>2, Reads DEF Perhaps, Right
<1> QED BY <1>2, <1>4, <1>5, <1>6, <1>7, <1>8, <1>9, <1>10, <1>11, <1>12
        DEF Celltype, TextSubtype, Code, Numeric

\* The answers of a word that tests less.
LEMMA UntestedRight ==
    ASSUME NEW c \in Contents, ~IsNull(c), NEW celltype \in Celltype \ {"bytes", "bool"},
           NEW kind \in {9, 10, 11}, kind = 10 => IsText(c), kind = 11 => c.form \in JsonForm
    PROVE  LET t == Unpack(PlainWord(kind, c, 0)) IN
           IsUntested(t) /\ Right(UntestedAnswer(t, celltype, c), Readable(c, celltype))
<1>1. Says(PlainWord(kind, c, 0), kind, c.length, 0, 0, 0)
  BY UntestedSays
<1>2. PICK t : t = Unpack(PlainWord(kind, c, 0))
  OBVIOUS
<1>3. t.kind = kind /\ t.length = c.length
  BY <1>1, <1>2 DEF Says
<1>4. /\ IsUntested(t)
      /\ IsUtf8(t) => IsText(c)
      /\ IsJson(t) => c.form \in JsonForm
      /\ kind \in {10, 11} => c.form \notin DOMAIN ArrayForm
  BY <1>3, FormsApart DEF IsJson, IsUtf8, IsUntested, Kind, IsText
<1> DEFINE A == UntestedAnswer(t, celltype, c)
<1>5. CASE celltype = "text"
  <2>1. A = Surely(IsUtf8(t))
    BY <1>5 DEF UntestedAnswer
  <2> QED BY <1>2, <1>4, <1>5, <2>1, Reads DEF Surely, Right
<1>6. CASE celltype \in TextSubtype
  <2>1. A = "None"
    BY <1>6 DEF UntestedAnswer, TextSubtype, Code
  <2> QED BY <1>2, <1>4, <1>6, <2>1 DEF Right
<1>7. CASE celltype \in {"plain", "mixed"}
  <2>1. A = Surely(IsJson(t))
    BY <1>7 DEF UntestedAnswer
  <2> QED BY <1>2, <1>4, <1>7, <2>1, Reads DEF Surely, Right
<1>8. CASE celltype = "str"
  <2>1. A = Surely(IsBool(c))
    BY <1>8 DEF UntestedAnswer
  <2> QED BY <1>2, <1>4, <1>8, <2>1, Reads DEF Surely, Right, IsBool
<1>9. CASE celltype \in Numeric
  <2>1. A = Perhaps(c.length # 3)
    BY <1>3, <1>9 DEF UntestedAnswer, Numeric, Length
  <2> QED BY <1>2, <1>4, <1>9, <2>1, Reads DEF Perhaps, Right
<1>10. CASE celltype = "binary"
  <2>1. A = Perhaps(kind = 9)
    BY <1>3, <1>10 DEF UntestedAnswer, Kind
  <2> QED BY <1>2, <1>4, <1>10, <2>1, Reads DEF Perhaps, Right
<1>11. CASE celltype = "checksum"
  <2>1. A = Perhaps(c.length = 1)
    BY <1>3, <1>11 DEF UntestedAnswer, Length
  <2> QED BY <1>2, <1>4, <1>11, <2>1, Reads DEF Perhaps, Right
<1> QED BY <1>2, <1>4, <1>5, <1>6, <1>7, <1>8, <1>9, <1>10, <1>11
        DEF Celltype, TextSubtype, Code, Numeric

LEMMA WordRight ==
    ASSUME NEW c \in Contents, NEW w \in TrueWords(c), NEW celltype \in Celltype
    PROVE  Right(DeserializableAs(w, celltype, c), Readable(c, celltype))
<1>1. CASE IsNull(c)
  <2>1. DeserializableAs(w, celltype, c) = "True"
    BY <1>1 DEF DeserializableAs
  <2>2. Readable(c, celltype)
    BY <1>1, VirtualFacts DEF Readable
  <2> QED BY <2>1, <2>2 DEF Right
<1>2. CASE ~IsNull(c) /\ celltype = "bytes"
  BY <1>2, Reads DEF DeserializableAs, Right
<1>3. CASE ~IsNull(c) /\ celltype = "bool"
  BY <1>3, Reads DEF DeserializableAs, Right, Answer
<1>4. CASE ~IsNull(c) /\ celltype \notin {"bytes", "bool"}
  <2>1. PICK t : t = Unpack(w)
    OBVIOUS
  <2>2. DeserializableAs(w, celltype, c) =
          IF IsUntested(t) THEN UntestedAnswer(t, celltype, c) ELSE TestedAnswer(t, celltype, c)
    BY <1>4, <2>1 DEF DeserializableAs
  <2>3. CASE w = FromBuffer(c)
    BY <1>4, <2>1, <2>2, <2>3, TestedRight
  <2>4. ASSUME NEW kind \in {9, 10, 11}, w = PlainWord(kind, c, 0),
               kind = 10 => IsText(c), kind = 11 => c.form \in JsonForm
        PROVE  Right(DeserializableAs(w, celltype, c), Readable(c, celltype))
    BY <1>4, <2>1, <2>2, <2>4, UntestedRight
  <2> QED BY <2>3, <2>4, TrueCases
<1> QED BY <1>1, <1>2, <1>3, <1>4

\* deserializable_as never lies: what it calls proven can be read, and what it
\* calls disproved cannot, whatever is known of the buffer.
THEOREM AnswersTrue == Spec => []AnswersSound
<1>1. ASSUME TypesInv
      PROVE  AnswersSound
  <2> SUFFICES ASSUME known # Unknown, NEW celltype \in Celltype
               PROVE  Right(DeserializableAs(known, celltype, content),
                            Readable(content, celltype))
    BY DEF AnswersSound, Right
  <2>1. content \in Contents /\ known \in TrueWords(content)
    BY <1>1 DEF TypesInv, WordsTrue, Word
  <2> QED BY <2>1, WordRight
<1> QED BY <1>1, SpecTypesInv, PTL

\* Whether a buffer can be read decides whether it is parsed, unless it is text
\* that a deserializer would box and of which too little is known.
LEMMA ReadDecides ==
    ASSUME NEW c \in Contents, NEW w \in TrueWords(c), NEW celltype \in Celltype,
           VirtualValue(c, celltype) = NotVirtual
    PROVE  /\ Readable(c, celltype) =>
                ~RuledOut(w, celltype, c) /\ Parsed(c, celltype) # Failed
           /\ ~RuledOut(w, celltype, c) /\ Parsed(c, celltype) # Failed
                /\ (w = FromBuffer(c) \/ c.form \notin TextForm) => Readable(c, celltype)
<1>1. Right(DeserializableAs(w, celltype, c), Readable(c, celltype))
  BY WordRight
<1>2. Readable(c, celltype) <=>
        Parsed(c, celltype) # Failed /\ (celltype \in {"binary", "mixed"} => c.form \notin TextForm)
  BY ValuesApart DEF Readable
<1>3. Readable(c, celltype) => ~RuledOut(w, celltype, c)
  BY <1>1 DEF Right, RuledOut
<1>4. ASSUME w = FromBuffer(c), c.form \in TextForm, celltype \in {"binary", "mixed"}
      PROVE  RuledOut(w, celltype, c)
  <2>1. ~IsNull(c)
    BY <1>4 DEF IsNull, TextForm
  <2>2. PICK kind, dtype, rank, flags :
          /\ Classified(c, kind, dtype, rank, flags)
          /\ Says(FromBuffer(c), kind, c.length, dtype, rank, flags)
    BY TestedSays
  <2>3. PICK t : t = Unpack(w)
    OBVIOUS
  <2>4. t.kind = 4
    BY <1>4, <2>2, <2>3 DEF Classified, Says
  <2>5. DeserializableAs(w, celltype, c) = TestedAnswer(t, celltype, c)
    BY <1>4, <2>1, <2>3, <2>4 DEF DeserializableAs, IsUntested, Kind
  <2>6. TestedAnswer(t, celltype, c) = "False"
    BY <1>4, <2>4 DEF TestedAnswer, Kind, Answer
  <2>7. w # Unknown
    BY Order
  <2> QED BY <2>5, <2>6, <2>7 DEF RuledOut
<1> QED BY <1>2, <1>3, <1>4

\* A tighter word keeps the answers of a looser one.
LEMMA TighterTested ==
    ASSUME NEW c \in Contents, ~IsNull(c), NEW celltype \in Celltype \ {"bytes", "bool"},
           NEW kind \in {9, 10, 11}, kind = 10 => IsText(c), kind = 11 => c.form \in JsonForm
    PROVE  LET answer == UntestedAnswer(Unpack(PlainWord(kind, c, 0)), celltype, c)
               better == TestedAnswer(Unpack(FromBuffer(c)), celltype, c) IN
           answer # "None" => better = answer
<1>1. Says(PlainWord(kind, c, 0), kind, c.length, 0, 0, 0)
  BY UntestedSays
<1>2. PICK t : t = Unpack(PlainWord(kind, c, 0))
  OBVIOUS
<1>3. t.kind = kind /\ t.length = c.length
  BY <1>1, <1>2 DEF Says
<1>4. PICK kind2, dtype, rank, flags :
        /\ Classified(c, kind2, dtype, rank, flags)
        /\ Says(FromBuffer(c), kind2, c.length, dtype, rank, flags)
  BY TestedSays
<1>5. PICK s : s = Unpack(FromBuffer(c))
  OBVIOUS
<1>6. s.kind = kind2 /\ s.length = c.length
  BY <1>4, <1>5 DEF Says
<1>7. /\ IsUtf8(t) => IsText(c)
      /\ IsJson(t) => c.form \in JsonForm
      /\ IsUtf8(s) <=> IsText(c)
      /\ IsJson(s) <=> c.form \in JsonForm
  <2>1. /\ IsUtf8(t) <=> kind \in {10, 11}
        /\ IsJson(t) <=> kind = 11
    BY <1>3 DEF IsJson, IsUtf8, Kind
  <2>2. /\ IsUtf8(s) <=> kind2 \in {4, 5, 6, 7, 8, 12}
        /\ IsJson(s) <=> kind2 \in {5, 6, 7, 8, 12}
    BY <1>4, <1>6 DEF IsJson, IsUtf8, Kind, Classified
  <2> QED BY <1>4, <2>1, <2>2 DEF Classified, IsText
<1> DEFINE A == UntestedAnswer(t, celltype, c)
           B == TestedAnswer(s, celltype, c)
<1>8. CASE celltype = "text"
  <2>1. A = Surely(IsUtf8(t)) /\ B = Answer(IsUtf8(s))
    BY <1>8 DEF UntestedAnswer, TestedAnswer
  <2> QED BY <1>2, <1>5, <1>7, <2>1 DEF Surely, Answer
<1>9. CASE celltype \in TextSubtype
  <2>1. A = "None"
    BY <1>9 DEF UntestedAnswer, TextSubtype, Code
  <2> QED BY <1>2, <2>1
<1>10. CASE celltype = "plain"
  <2>1. A = Surely(IsJson(t)) /\ B = Answer(IsJson(s))
    BY <1>10 DEF UntestedAnswer, TestedAnswer
  <2> QED BY <1>2, <1>5, <1>7, <2>1 DEF Surely, Answer
<1>11. CASE celltype = "mixed"
  <2>1. A = Surely(IsJson(t))
    BY <1>11 DEF UntestedAnswer
  <2>2. B = IF kind2 \in {2, 3} THEN "None" ELSE Answer(kind2 \notin {0, 4})
    BY <1>6, <1>11 DEF TestedAnswer, Kind
  <2>3. IsJson(t) => kind2 \in {5, 6, 7, 8, 12}
    BY <1>4, <1>7 DEF Classified
  <2> QED BY <1>2, <1>5, <2>1, <2>2, <2>3 DEF Surely, Answer
<1>12. CASE celltype = "str"
  <2>1. A = Surely(IsBool(c)) /\ B = Answer(kind2 \in {7, 8})
    BY <1>6, <1>12 DEF UntestedAnswer, TestedAnswer, Kind
  <2>2. IsBool(c) => kind2 = 7
    BY <1>4 DEF Classified, IsBool
  <2> QED BY <1>2, <1>5, <2>1, <2>2 DEF Surely, Answer
<1>13. CASE celltype \in Numeric
  <2>1. /\ A = Perhaps(c.length # 3)
        /\ B = Answer(c.length # 3 /\ HasFlag(s, 1))
    BY <1>3, <1>6, <1>13 DEF UntestedAnswer, TestedAnswer, Numeric, Length, Flag
  <2> QED BY <1>2, <1>5, <2>1 DEF Perhaps, Answer
<1>14. CASE celltype = "binary"
  <2>1. A = Perhaps(kind = 9) /\ B = Answer(kind2 = 1)
    BY <1>3, <1>6, <1>14 DEF UntestedAnswer, TestedAnswer, Kind
  <2>2. kind # 9 => IsText(c)
    BY DEF IsText
  <2>3. IsText(c) => kind2 # 1
    BY <1>4, FormsApart DEF Classified, IsText
  <2> QED BY <1>2, <1>5, <2>1, <2>2, <2>3 DEF Perhaps, Answer
<1>15. CASE celltype = "checksum"
  <2>1. A = Perhaps(c.length = 1) /\ B = Perhaps(kind2 \in {4, 8} /\ c.length = 1)
    BY <1>3, <1>6, <1>15 DEF UntestedAnswer, TestedAnswer, Length, Kind
  <2> QED BY <1>2, <1>5, <2>1 DEF Perhaps
<1> QED BY <1>8, <1>9, <1>10, <1>11, <1>12, <1>13, <1>14, <1>15
        DEF Celltype, TextSubtype, Code, Numeric

LEMMA TighterUntested ==
    ASSUME NEW c \in Contents, NEW celltype \in Celltype \ {"bytes", "bool"},
           NEW j \in {9, 10, 11}, NEW k \in {9, 10, 11}, j >= k
    PROVE  LET answer == UntestedAnswer(Unpack(PlainWord(k, c, 0)), celltype, c)
               better == UntestedAnswer(Unpack(PlainWord(j, c, 0)), celltype, c) IN
           answer # "None" => better = answer
<1>1. /\ Says(PlainWord(j, c, 0), j, c.length, 0, 0, 0)
      /\ Says(PlainWord(k, c, 0), k, c.length, 0, 0, 0)
  BY UntestedSays
<1>2. PICK s, t : s = Unpack(PlainWord(j, c, 0)) /\ t = Unpack(PlainWord(k, c, 0))
  OBVIOUS
<1>3. s.kind = j /\ t.kind = k /\ s.length = c.length /\ t.length = c.length
  BY <1>1, <1>2 DEF Says
<1>4. /\ IsUtf8(s) <=> j \in {10, 11}
      /\ IsUtf8(t) <=> k \in {10, 11}
      /\ IsJson(s) <=> j = 11
      /\ IsJson(t) <=> k = 11
  BY <1>3 DEF IsJson, IsUtf8, Kind
<1> DEFINE A == UntestedAnswer(t, celltype, c)
           B == UntestedAnswer(s, celltype, c)
<1>5. CASE celltype = "text"
  <2>1. A = Surely(IsUtf8(t)) /\ B = Surely(IsUtf8(s))
    BY <1>5 DEF UntestedAnswer
  <2> QED BY <1>2, <1>4, <2>1 DEF Surely
<1>6. CASE celltype \in TextSubtype
  <2>1. A = "None"
    BY <1>6 DEF UntestedAnswer, TextSubtype, Code
  <2> QED BY <1>2, <2>1
<1>7. CASE celltype \in {"plain", "mixed"}
  <2>1. A = Surely(IsJson(t)) /\ B = Surely(IsJson(s))
    BY <1>7 DEF UntestedAnswer
  <2> QED BY <1>2, <1>4, <2>1 DEF Surely
<1>8. CASE celltype = "str"
  <2>1. A = Surely(IsBool(c)) /\ B = Surely(IsBool(c))
    BY <1>8 DEF UntestedAnswer
  <2> QED BY <1>2, <2>1
<1>9. CASE celltype \in Numeric
  <2>1. A = Perhaps(c.length # 3) /\ B = Perhaps(c.length # 3)
    BY <1>3, <1>9 DEF UntestedAnswer, Numeric, Length
  <2> QED BY <1>2, <2>1
<1>10. CASE celltype = "binary"
  <2>1. A = Perhaps(k = 9) /\ B = Perhaps(j = 9)
    BY <1>3, <1>10 DEF UntestedAnswer, Kind
  <2> QED BY <1>2, <2>1 DEF Perhaps
<1>11. CASE celltype = "checksum"
  <2>1. A = Perhaps(c.length = 1) /\ B = Perhaps(c.length = 1)
    BY <1>3, <1>11 DEF UntestedAnswer, Length
  <2> QED BY <1>2, <2>1
<1> QED BY <1>5, <1>6, <1>7, <1>8, <1>9, <1>10, <1>11
        DEF Celltype, TextSubtype, Code, Numeric

LEMMA Tightens ==
    ASSUME NEW c \in Contents, NEW v \in TrueWords(c), NEW w \in TrueWords(c),
           Implies(v, w), NEW celltype \in Celltype
    PROVE  DeserializableAs(w, celltype, c) # "None" =>
             DeserializableAs(v, celltype, c) = DeserializableAs(w, celltype, c)
<1>1. CASE IsNull(c) \/ celltype \in {"bytes", "bool"}
  BY <1>1 DEF DeserializableAs
<1>2. CASE ~IsNull(c) /\ celltype \notin {"bytes", "bool"}
  <2>1. PICK j : TrueWord(c, v, j)
    BY TrueWordFacts
  <2>2. PICK k : TrueWord(c, w, k)
    BY TrueWordFacts
  <2>3. Looseness(j) <= Looseness(k)
    BY <2>1, <2>2, ImpliesOrders
  <2>4. j \in 0 .. 12 /\ k \in 0 .. 12
    BY <2>1, <2>2 DEF TrueWord
  <2>5. CASE k \notin {9, 10, 11}
    <3>1. j \notin {9, 10, 11}
      BY <2>3, <2>4, <2>5 DEF Looseness
    <3> QED BY <2>1, <2>2, <2>5, <3>1 DEF TrueWord
  <2>6. ASSUME NEW u \in TrueWords(c), NEW i \in {9, 10, 11}, TrueWord(c, u, i)
        PROVE  /\ u = PlainWord(i, c, 0)
               /\ DeserializableAs(u, celltype, c)
                    = UntestedAnswer(Unpack(PlainWord(i, c, 0)), celltype, c)
    <3>1. PICK t : t = Unpack(u)
      OBVIOUS
    <3>2. t.kind = i
      BY <2>6, <3>1 DEF TrueWord
    <3>3. DeserializableAs(u, celltype, c) = UntestedAnswer(t, celltype, c)
      BY <1>2, <3>1, <3>2 DEF DeserializableAs, IsUntested, Kind
    <3>4. /\ Says(PlainWord(9, c, 0), 9, c.length, 0, 0, 0)
          /\ Says(PlainWord(10, c, 0), 10, c.length, 0, 0, 0)
          /\ Says(PlainWord(11, c, 0), 11, c.length, 0, 0, 0)
      BY UntestedSays
    <3>5. u = PlainWord(i, c, 0)
      <4>1. PICK kind, dtype, rank, flags :
              /\ Classified(c, kind, dtype, rank, flags)
              /\ Says(FromBuffer(c), kind, c.length, dtype, rank, flags)
        BY TestedSays
      <4>2. u # FromBuffer(c)
        BY <3>1, <3>2, <4>1 DEF Says, Classified
      <4>3. /\ Unpack(PlainWord(9, c, 0)).kind = 9
            /\ Unpack(PlainWord(10, c, 0)).kind = 10
            /\ Unpack(PlainWord(11, c, 0)).kind = 11
        BY <3>4 DEF Says
      <4> QED BY <3>1, <3>2, <4>2, <4>3, TrueCases
    <3> QED BY <3>1, <3>3, <3>5
  <2>7. CASE k \in {9, 10, 11} /\ j \in {9, 10, 11}
    <3>1. j >= k
      BY <2>3, <2>7 DEF Looseness
    <3>2. DeserializableAs(v, celltype, c)
            = UntestedAnswer(Unpack(PlainWord(j, c, 0)), celltype, c)
      BY <2>1, <2>6, <2>7
    <3>3. DeserializableAs(w, celltype, c)
            = UntestedAnswer(Unpack(PlainWord(k, c, 0)), celltype, c)
      BY <2>2, <2>6, <2>7
    <3> QED BY <1>2, <2>7, <3>1, <3>2, <3>3, TighterUntested
  <2>8. CASE k \in {9, 10, 11} /\ j \notin {9, 10, 11}
    <3>1. v = FromBuffer(c)
      BY <2>1, <2>8 DEF TrueWord
    <3>2. DeserializableAs(v, celltype, c) = TestedAnswer(Unpack(FromBuffer(c)), celltype, c)
      <4>1. PICK t : t = Unpack(v)
        OBVIOUS
      <4>2. t.kind = j
        BY <2>1, <4>1 DEF TrueWord
      <4>3. DeserializableAs(v, celltype, c) = TestedAnswer(t, celltype, c)
        BY <1>2, <2>8, <4>1, <4>2 DEF DeserializableAs, IsUntested, Kind
      <4> QED BY <3>1, <4>1, <4>3
    <3>3. DeserializableAs(w, celltype, c)
            = UntestedAnswer(Unpack(PlainWord(k, c, 0)), celltype, c)
      BY <2>2, <2>6, <2>8
    <3>4. (k = 10 => IsText(c)) /\ (k = 11 => c.form \in JsonForm)
      BY <2>2 DEF TrueWord
    <3> QED BY <1>2, <2>8, <3>2, <3>3, <3>4, TighterTested
  <2> QED BY <2>5, <2>7, <2>8
<1> QED BY <1>1, <1>2

-----------------------------------------------------------------------------
(* Two conversions of one buffer, of which one knows more *)

\* v is known of the buffer c where w is known, which says no more.
Tighter(c, v, w) ==
    /\ c \in Contents /\ v \in TrueWords(c)
    /\ \/ w = Unknown
       \/ w \in TrueWords(c) /\ Implies(v, w)

Alike(s, r) == s.at = r.at /\ (s.new <=> r.new) /\ (s.new => s.word = r.word)

\* The conversion s knew v where r knew w.  While neither has failed they are
\* at the same buffer; s fails only where r does, if r knew nothing; s fetched
\* the source only if r did; and before r fetches it, r fails only where s does
\* and both know of the source what they knew.
Paired(c, v, w, s, r) ==
    /\ Learns(s, c, v, s) /\ Learns(r, c, w, r)
    /\ s.ok /\ r.ok => Alike(s, r)
    /\ w = Unknown /\ ~s.ok => ~r.ok
    /\ s.fetched => r.fetched
    /\ s.ok /\ ~r.fetched => r.ok /\ (~s.new => s.word = v /\ r.word = w)

LEMMA StartPaired ==
    ASSUME NEW c, NEW v, NEW w
    PROVE  Paired(c, v, w, Start(c, v), Start(c, w))
<1>1. PICK s, r : s = Start(c, v) /\ r = Start(c, w)
  OBVIOUS
<1>2. /\ s.ok /\ s.at = c /\ s.word = v /\ ~s.new /\ ~s.fetched
      /\ r.ok /\ r.at = c /\ r.word = w /\ ~r.new /\ ~r.fetched
  BY <1>1 DEF Start
<1>3. Learns(s, c, v, s) /\ Learns(r, c, w, r)
  BY <1>1, <1>2, StartLearns DEF Learns
<1>4. Paired(c, v, w, s, r)
  BY <1>2, <1>3 DEF Paired, Alike
<1> QED BY <1>1, <1>4

\* What a parse does.
LEMMA ParseIs ==
    ASSUME NEW s, NEW c, NEW w, NEW before, Learns(s, c, w, before), s.ok, NEW celltype,
           NEW x, x = Parse(s, celltype), NEW word,
           word = IF s.word = Unknown THEN FromBuffer(s.at) ELSE s.word
    PROVE  /\ x.at = s.at /\ x.new = s.new /\ x.word = word
           /\ x.fetched <=> (s.fetched \/ ~s.new)
           /\ x.ok <=> ~RuledOut(word, celltype, s.at) /\ Parsed(s.at, celltype) # Failed
           /\ x.ok => x.value = Parsed(s.at, celltype)
<1>1. PICK f : f = Fetch(s)
  OBVIOUS
<1>2. /\ DOMAIN f = DOMAIN s
      /\ f.at = s.at /\ f.new = s.new /\ f.ok = s.ok
      /\ f.fetched <=> (s.fetched \/ ~s.new)
  BY <1>1 DEF Fetch, Learns
<1>3. PICK q : q = Classify(f, word)
  OBVIOUS
<1>4. /\ DOMAIN q = DOMAIN s
      /\ q.at = s.at /\ q.new = s.new /\ q.ok = s.ok /\ q.word = word
      /\ q.fetched = f.fetched
  BY <1>2, <1>3 DEF Classify, Learns
<1>5. x = Read(q, celltype)
  BY <1>1, <1>3 DEF Parse
<1>6. CASE RuledOut(word, celltype, s.at)
  <2>1. x = Fail(q)
    BY <1>4, <1>5, <1>6 DEF Read
  <2>2. x.at = q.at /\ x.new = q.new /\ x.word = q.word /\ x.fetched = q.fetched /\ x.ok = FALSE
    BY <1>4, <2>1 DEF Fail, Learns
  <2> QED BY <1>2, <1>4, <1>6, <2>2
<1>7. CASE ~RuledOut(word, celltype, s.at)
  <2>1. PICK value : value = Parsed(s.at, celltype)
    OBVIOUS
  <2>2. x = With(q, value)
    BY <1>4, <1>5, <1>7, <2>1 DEF Read
  <2>3. /\ x.at = q.at /\ x.new = q.new /\ x.word = q.word /\ x.fetched = q.fetched
        /\ x.ok <=> value # Failed
        /\ x.value = value
    BY <1>4, <2>2 DEF With, Learns
  <2> QED BY <1>2, <1>4, <1>7, <2>1, <2>3
<1> QED BY <1>6, <1>7

\* Reading a value.
LEMMA WithIs ==
    ASSUME NEW s, NEW c, NEW w, NEW before, Learns(s, c, w, before), NEW value
    PROVE  /\ With(s, value).at = s.at /\ With(s, value).new = s.new
           /\ With(s, value).word = s.word /\ With(s, value).fetched = s.fetched
           /\ With(s, value).ok <=> value # Failed
           /\ With(s, value).value = value
BY DEF With, Learns

LEMMA FailIs ==
    ASSUME NEW s, NEW c, NEW w, NEW before, Learns(s, c, w, before)
    PROVE  /\ Fail(s).at = s.at /\ Fail(s).new = s.new
           /\ Fail(s).word = s.word /\ Fail(s).fetched = s.fetched
           /\ ~Fail(s).ok
BY DEF Fail, Learns

\* Reading the source, when its value is not known by heart.
LEMMA ReadAtSource ==
    ASSUME NEW c \in Contents, NEW w, w = Unknown \/ w \in TrueWords(c), NEW s, NEW before,
           Learns(s, c, w, before), s.ok, ~s.new, NEW celltype \in Celltype,
           VirtualValue(c, celltype) = NotVirtual, NEW x, x = ValueOf(s, celltype)
    PROVE  /\ x.at = c /\ ~x.new
           /\ Readable(c, celltype) => x.ok
           /\ x.ok /\ (w = Unknown \/ c.form \notin TextForm) => Readable(c, celltype)
           /\ x.ok => x.value = Parsed(c, celltype)
           /\ RuledOut(s.word, celltype, c) => ~x.ok /\ x.fetched = s.fetched
           /\ ~RuledOut(s.word, celltype, c) => x.fetched
<1>1. s.at = c /\ (s.word = Unknown \/ s.word \in TrueWords(c))
      /\ s.word \in {w, FromBuffer(c)}
  BY DEF Learns, TrueWords
<1>2. FromBuffer(c) \in TrueWords(c)
  BY DEF TrueWords
<1>3. PICK word : word = IF s.word = Unknown THEN FromBuffer(s.at) ELSE s.word
  OBVIOUS
<1>4. word \in TrueWords(c) /\ (w = Unknown => word = FromBuffer(c))
  BY <1>1, <1>2, <1>3
<1>5. /\ Readable(c, celltype) =>
           ~RuledOut(word, celltype, c) /\ Parsed(c, celltype) # Failed
      /\ ~RuledOut(word, celltype, c) /\ Parsed(c, celltype) # Failed
           /\ (word = FromBuffer(c) \/ c.form \notin TextForm) => Readable(c, celltype)
  BY <1>4, ReadDecides
<1>6. CASE RuledOut(s.word, celltype, c)
  <2>1. x = Fail(s)
    BY <1>1, <1>6 DEF ValueOf, ValueOr
  <2>2. word = s.word
    BY <1>3, <1>6 DEF RuledOut
  <2>3. x.at = s.at /\ x.new = s.new /\ x.fetched = s.fetched /\ ~x.ok
    BY <2>1, FailIs
  <2> QED BY <1>1, <1>5, <1>6, <2>2, <2>3
<1>7. CASE ~RuledOut(s.word, celltype, c)
  <2>1. x = Parse(s, celltype)
    BY <1>1, <1>7 DEF ValueOf, ValueOr
  <2>2. /\ x.at = s.at /\ x.new = s.new
        /\ x.fetched <=> (s.fetched \/ ~s.new)
        /\ x.ok <=> ~RuledOut(word, celltype, s.at) /\ Parsed(s.at, celltype) # Failed
        /\ x.ok => x.value = Parsed(s.at, celltype)
    BY <1>3, <2>1, ParseIs
  <2> QED BY <1>1, <1>4, <1>5, <1>7, <2>2
<1> QED BY <1>6, <1>7

LEMMA ValuePaired ==
    ASSUME NEW c, NEW v, NEW w, Tighter(c, v, w), NEW s, NEW r, Paired(c, v, w, s, r),
           s.ok, r.ok, NEW celltype \in Celltype,
           NEW x, x = ValueOf(s, celltype), NEW y, y = ValueOf(r, celltype)
    PROVE  /\ Paired(c, v, w, x, y) /\ Alike(x, y) /\ x.at = s.at /\ (x.new <=> s.new)
           /\ x.ok /\ y.ok => x.value = y.value
           /\ s.new \/ s.at.form \notin TextForm => (x.ok <=> y.ok)
<1>1. Learns(s, c, v, s) /\ Learns(r, c, w, r) /\ Alike(s, r)
  BY DEF Paired
<1>2. Learns(x, c, v, x) /\ Learns(y, c, w, y)
      /\ (s.fetched => x.fetched) /\ (r.fetched => y.fetched)
  <2>1. Learns(x, c, v, s) /\ Learns(y, c, w, r)
    BY <1>1, ValueLearns
  <2> QED BY <2>1 DEF Learns
<1>3. PICK virtual : virtual = VirtualValue(s.at, celltype)
  OBVIOUS
<1>4. CASE virtual # NotVirtual
  <2>1. x = With(s, virtual) /\ y = With(r, virtual)
    BY <1>1, <1>3, <1>4 DEF ValueOf, ValueOr, Alike
  <2>2. /\ x.at = s.at /\ x.new = s.new /\ x.word = s.word /\ x.fetched = s.fetched
        /\ x.ok <=> virtual # Failed
        /\ x.value = virtual
    BY <1>1, <2>1, WithIs
  <2>3. /\ y.at = r.at /\ y.new = r.new /\ y.word = r.word /\ y.fetched = r.fetched
        /\ y.ok <=> virtual # Failed
        /\ y.value = virtual
    BY <1>1, <2>1, WithIs
  <2> QED BY <1>1, <1>2, <2>2, <2>3 DEF Paired, Alike
<1>5. CASE virtual = NotVirtual /\ s.new
  <2>1. s.at = r.at /\ r.new /\ s.word = r.word
    BY <1>1, <1>5 DEF Alike
  <2>2. CASE RuledOut(s.word, celltype, s.at)
    <3>1. x = Fail(s) /\ y = Fail(r)
      BY <1>3, <1>5, <2>1, <2>2 DEF ValueOf, ValueOr
    <3>2. /\ x.at = s.at /\ x.new = s.new /\ x.word = s.word /\ x.fetched = s.fetched
          /\ ~x.ok
      BY <1>1, <3>1, FailIs
    <3>3. /\ y.at = r.at /\ y.new = r.new /\ y.word = r.word /\ y.fetched = r.fetched
          /\ ~y.ok
      BY <1>1, <3>1, FailIs
    <3> QED BY <1>1, <1>2, <3>2, <3>3 DEF Paired, Alike
  <2>3. CASE ~RuledOut(s.word, celltype, s.at)
    <3>1. x = Parse(s, celltype) /\ y = Parse(r, celltype)
      BY <1>3, <1>5, <2>1, <2>3 DEF ValueOf, ValueOr
    <3>2. PICK word : word = IF s.word = Unknown THEN FromBuffer(s.at) ELSE s.word
      OBVIOUS
    <3>3. /\ x.at = s.at /\ x.new = s.new /\ x.word = word
          /\ x.fetched <=> (s.fetched \/ ~s.new)
          /\ x.ok <=> ~RuledOut(word, celltype, s.at) /\ Parsed(s.at, celltype) # Failed
          /\ x.ok => x.value = Parsed(s.at, celltype)
      BY <1>1, <3>1, <3>2, ParseIs
    <3>4. /\ y.at = r.at /\ y.new = r.new /\ y.word = word
          /\ y.fetched <=> (r.fetched \/ ~r.new)
          /\ y.ok <=> ~RuledOut(word, celltype, r.at) /\ Parsed(r.at, celltype) # Failed
          /\ y.ok => y.value = Parsed(r.at, celltype)
      <4>1. word = IF r.word = Unknown THEN FromBuffer(r.at) ELSE r.word
        BY <2>1, <3>2
      <4> QED BY <1>1, <3>1, <4>1, ParseIs
    <3> QED BY <1>1, <1>2, <1>5, <2>1, <3>3, <3>4 DEF Paired, Alike
  <2> QED BY <2>2, <2>3
<1>6. CASE virtual = NotVirtual /\ ~s.new
  <2>1. s.at = c /\ ~r.new
    BY <1>1, <1>6 DEF Learns, Alike
  <2>2. /\ c \in Contents /\ v \in TrueWords(c) /\ (w = Unknown \/ w \in TrueWords(c))
        /\ w # Unknown => Implies(v, w)
    BY DEF Tighter
  <2>3. v # Unknown /\ VirtualValue(c, celltype) = NotVirtual
    BY <1>3, <1>6, <2>1, <2>2, Order
  <2>4. /\ x.at = c /\ ~x.new
        /\ Readable(c, celltype) => x.ok
        /\ x.ok /\ c.form \notin TextForm => Readable(c, celltype)
        /\ x.ok => x.value = Parsed(c, celltype)
        /\ RuledOut(s.word, celltype, c) => ~x.ok /\ x.fetched = s.fetched
        /\ ~RuledOut(s.word, celltype, c) => x.fetched
    BY <1>1, <1>6, <2>1, <2>2, <2>3, ReadAtSource
  <2>5. /\ y.at = c /\ ~y.new
        /\ Readable(c, celltype) => y.ok
        /\ y.ok /\ (w = Unknown \/ c.form \notin TextForm) => Readable(c, celltype)
        /\ y.ok => y.value = Parsed(c, celltype)
        /\ RuledOut(r.word, celltype, c) => ~y.ok /\ y.fetched = r.fetched
        /\ ~RuledOut(r.word, celltype, c) => y.fetched
    BY <1>1, <1>6, <2>1, <2>2, <2>3, ReadAtSource
  <2>6. ASSUME ~y.fetched
        PROVE  ~x.ok /\ ~x.fetched
    <3>1. RuledOut(r.word, celltype, c) /\ ~r.fetched
      BY <1>2, <2>5, <2>6
    <3>2. s.word = v /\ r.word = w /\ ~s.fetched
      BY <1>6, <3>1 DEF Paired
    <3>3. w # Unknown /\ DeserializableAs(w, celltype, c) = "False"
      BY <3>1, <3>2 DEF RuledOut
    <3>4. DeserializableAs(v, celltype, c) = "False"
      BY <2>2, <3>3, Tightens
    <3> QED BY <2>3, <2>4, <3>2, <3>4 DEF RuledOut
  <2> QED BY <1>2, <1>6, <2>1, <2>4, <2>5, <2>6 DEF Paired, Alike
<1> QED BY <1>4, <1>5, <1>6

LEMMA ReinterpretIs ==
    ASSUME NEW s, NEW target, NEW virtual, virtual = VirtualValue(s.at, target)
    PROVE  Reinterpret(s, virtual, target) =
             IF virtual = NotVirtual /\ s.word # Unknown
                  /\ DeserializableAs(s.word, target, s.at) = "True"
             THEN s ELSE ValueOf(s, target)
BY DEF Reinterpret, ValueOf, ValueOr, RuledOut, Keep

LEMMA ReinterpretPaired ==
    ASSUME NEW c, NEW v, NEW w, Tighter(c, v, w), NEW s, NEW r, Paired(c, v, w, s, r),
           s.ok, r.ok, NEW target \in Celltype,
           NEW x, x = Reinterpret(s, VirtualValue(s.at, target), target),
           NEW y, y = Reinterpret(r, VirtualValue(r.at, target), target)
    PROVE  Paired(c, v, w, x, y)
<1>1. Learns(s, c, v, s) /\ Learns(r, c, w, r) /\ Alike(s, r)
  BY DEF Paired
<1> DEFINE Proven(q) == q.word # Unknown /\ DeserializableAs(q.word, target, q.at) = "True"
<1>2. PICK virtual : virtual = VirtualValue(s.at, target) /\ virtual = VirtualValue(r.at, target)
  BY <1>1 DEF Alike
<1>3. /\ x = IF virtual = NotVirtual /\ Proven(s) THEN s ELSE ValueOf(s, target)
      /\ y = IF virtual = NotVirtual /\ Proven(r) THEN r ELSE ValueOf(r, target)
  BY <1>2, ReinterpretIs
<1>4. CASE x = ValueOf(s, target) /\ y = ValueOf(r, target)
  BY <1>4, ValuePaired
<1>5. CASE x = s /\ y = r
  BY <1>5
<1>6. Proven(s) = Proven(r) \/ (virtual = NotVirtual /\ ~s.new)
      \/ (x = ValueOf(s, target) /\ y = ValueOf(r, target))
  BY <1>1, <1>3 DEF Alike
<1>7. CASE virtual = NotVirtual /\ ~s.new
  <2>1. s.at = c /\ r.at = c /\ ~r.new
    BY <1>1, <1>7 DEF Learns, Alike
  <2>2. /\ c \in Contents /\ v \in TrueWords(c) /\ (w = Unknown \/ w \in TrueWords(c))
        /\ w # Unknown => Implies(v, w)
    BY DEF Tighter
  <2>3. v # Unknown /\ VirtualValue(c, target) = NotVirtual
    BY <1>2, <1>7, <2>1, <2>2, Order
  <2>4. CASE Proven(s) /\ ~Proven(r)
    <3>1. x = s /\ y = ValueOf(r, target)
      BY <1>3, <1>7, <2>4
    <3>2. Learns(y, c, w, y) /\ (r.fetched => y.fetched)
      <4>1. Learns(y, c, w, r)
        BY <1>1, <3>1, ValueLearns
      <4> QED BY <4>1 DEF Learns
    <3>3. /\ y.at = c /\ ~y.new
          /\ ~RuledOut(r.word, target, c) => y.fetched
      BY <1>1, <1>7, <2>1, <2>2, <2>3, <3>1, ReadAtSource
    <3>4. y.fetched
      <4> SUFFICES ASSUME ~y.fetched PROVE FALSE
        OBVIOUS
      <4>1. RuledOut(r.word, target, c) /\ ~r.fetched
        BY <3>2, <3>3
      <4>2. s.word = v /\ r.word = w
        BY <1>7, <4>1 DEF Paired
      <4>3. DeserializableAs(v, target, c) = "False"
        BY <2>2, <4>1, <4>2, Tightens DEF RuledOut
      <4> QED BY <2>1, <2>4, <4>2, <4>3
    <3> QED BY <1>1, <1>7, <2>1, <3>1, <3>2, <3>3, <3>4 DEF Paired, Alike
  <2>5. CASE ~Proven(s) /\ Proven(r)
    <3>1. x = ValueOf(s, target) /\ y = r
      BY <1>3, <1>7, <2>5
    <3>2. Learns(x, c, v, x)
      <4>1. Learns(x, c, v, s)
        BY <1>1, <3>1, ValueLearns
      <4> QED BY <4>1 DEF Learns
    <3>3. r.word \in TrueWords(c) /\ Readable(c, target)
      <4>1. r.word \in TrueWords(c)
        BY <1>1, <2>1, <2>2, <2>5 DEF Learns, TrueWords
      <4> QED BY <2>1, <2>2, <2>5, <4>1, WordRight DEF Right
    <3>4. /\ x.at = c /\ ~x.new
          /\ Readable(c, target) => x.ok
      BY <1>1, <1>7, <2>1, <2>2, <2>3, <3>1, ReadAtSource
    <3>5. r.fetched
      <4> SUFFICES ASSUME ~r.fetched PROVE FALSE
        OBVIOUS
      <4>1. s.word = v /\ r.word = w
        BY <1>7 DEF Paired
      <4>2. DeserializableAs(v, target, c) = "True"
        BY <2>1, <2>2, <2>5, <4>1, Tightens
      <4> QED BY <2>1, <2>3, <2>5, <4>1, <4>2
    <3> QED BY <1>1, <1>7, <2>1, <3>1, <3>2, <3>3, <3>4, <3>5 DEF Paired, Alike
  <2> QED BY <1>3, <1>4, <1>5, <1>7, <2>4, <2>5
<1> QED BY <1>3, <1>4, <1>5, <1>6, <1>7

LEMMA NewIs ==
    ASSUME NEW s, NEW c, NEW w, NEW before, Learns(s, c, w, before), NEW at
    PROVE  /\ New(s, at).at = at /\ New(s, at).new
           /\ New(s, at).word = FromBuffer(at)
           /\ New(s, at).ok = s.ok /\ New(s, at).fetched = s.fetched
BY DEF New, Learns

LEMMA FetchIs ==
    ASSUME NEW s, NEW c, NEW w, NEW before, Learns(s, c, w, before)
    PROVE  /\ Fetch(s).at = s.at /\ Fetch(s).new = s.new /\ Fetch(s).word = s.word
           /\ Fetch(s).ok = s.ok /\ Fetch(s).value = s.value
           /\ Fetch(s).fetched <=> (s.fetched \/ ~s.new)
BY DEF Fetch, Learns

\* A pair goes on from where both have come without failing.
LEMMA Onward ==
    ASSUME NEW c, NEW v, NEW w, NEW x, NEW y, Paired(c, v, w, x, y),
           NEW p, NEW q, Learns(p, c, v, x), Learns(q, c, w, y),
           ~x.ok => p = x, ~y.ok => q = y,
           x.ok /\ y.ok => Paired(c, v, w, p, q)
    PROVE  Paired(c, v, w, p, q)
<1>1. /\ Learns(p, c, v, p) /\ (x.fetched => p.fetched)
      /\ Learns(q, c, w, q) /\ (y.fetched => q.fetched)
  BY DEF Learns
<1>2. CASE x.ok /\ y.ok
  BY <1>2
<1>3. CASE ~x.ok
  BY <1>1, <1>3 DEF Paired
<1>4. CASE x.ok /\ ~y.ok
  BY <1>1, <1>4 DEF Paired
<1> QED BY <1>2, <1>3, <1>4

LEMMA StepsPaired ==
    ASSUME NEW c, NEW v, NEW w, NEW s, NEW r, Paired(c, v, w, s, r), s.ok, r.ok
    PROVE  /\ Paired(c, v, w, Keep(s), Keep(r)) /\ Paired(c, v, w, Fail(s), Fail(r))
           /\ \A at : Paired(c, v, w, New(s, at), New(r, at))
           /\ \A failed, at : Paired(c, v, w, NewUnless(failed, s, at), NewUnless(failed, r, at))
           /\ \A value : Paired(c, v, w, NewValue(s, value), NewValue(r, value))
<1>1. Learns(s, c, v, s) /\ Learns(r, c, w, r) /\ Alike(s, r)
  BY DEF Paired
<1>2. Paired(c, v, w, Keep(s), Keep(r))
  BY DEF Keep
<1>3. Paired(c, v, w, Fail(s), Fail(r))
  <2>1. PICK x, y : x = Fail(s) /\ y = Fail(r)
    OBVIOUS
  <2>2. Learns(x, c, v, s) /\ Learns(y, c, w, r)
    BY <1>1, <2>1, StepsLearn
  <2>3. Learns(x, c, v, x) /\ Learns(y, c, w, y)
    BY <2>2 DEF Learns
  <2>4. ~x.ok /\ ~y.ok /\ x.fetched = s.fetched /\ y.fetched = r.fetched
    BY <1>1, <2>1, FailIs
  <2>5. Paired(c, v, w, x, y)
    BY <2>3, <2>4 DEF Paired
  <2> QED BY <2>1, <2>5
<1>4. ASSUME NEW at
      PROVE  Paired(c, v, w, New(s, at), New(r, at))
  <2>1. PICK x, y : x = New(s, at) /\ y = New(r, at)
    OBVIOUS
  <2>2. Learns(x, c, v, s) /\ Learns(y, c, w, r)
    BY <1>1, <2>1, StepsLearn
  <2>3. Learns(x, c, v, x) /\ Learns(y, c, w, y)
    BY <2>2 DEF Learns
  <2>4. /\ x.at = at /\ x.new /\ x.word = FromBuffer(at) /\ x.ok = s.ok /\ x.fetched = s.fetched
        /\ y.at = at /\ y.new /\ y.word = FromBuffer(at) /\ y.ok = r.ok /\ y.fetched = r.fetched
    BY <1>1, <2>1, NewIs
  <2>5. Paired(c, v, w, x, y)
    BY <2>3, <2>4 DEF Paired, Alike
  <2> QED BY <2>1, <2>5
<1>5. ASSUME NEW failed, NEW at
      PROVE  Paired(c, v, w, NewUnless(failed, s, at), NewUnless(failed, r, at))
  BY <1>3, <1>4 DEF NewUnless
<1>6. ASSUME NEW value
      PROVE  Paired(c, v, w, NewValue(s, value), NewValue(r, value))
  <2>1. Paired(c, v, w, New(s, AsPlain(value)), New(r, AsPlain(value)))
    BY <1>4
  <2> QED BY <1>3, <2>1 DEF NewValue
<1> QED BY <1>2, <1>3, <1>4, <1>5, <1>6

LEMMA FetchPaired ==
    ASSUME NEW c, NEW v, NEW w, NEW s, NEW r, Paired(c, v, w, s, r), s.new <=> r.new
    PROVE  Paired(c, v, w, Fetch(s), Fetch(r))
<1>1. Learns(s, c, v, s) /\ Learns(r, c, w, r)
  BY DEF Paired
<1>2. PICK x, y : x = Fetch(s) /\ y = Fetch(r)
  OBVIOUS
<1>3. Learns(x, c, v, x) /\ Learns(y, c, w, y)
  <2>1. Learns(x, c, v, s) /\ Learns(y, c, w, r)
    BY <1>1, <1>2, StepsLearn
  <2> QED BY <2>1 DEF Learns
<1>4. /\ x.at = s.at /\ x.new = s.new /\ x.word = s.word /\ x.ok = s.ok
      /\ x.fetched <=> (s.fetched \/ ~s.new)
  BY <1>1, <1>2, FetchIs
<1>5. /\ y.at = r.at /\ y.new = r.new /\ y.word = r.word /\ y.ok = r.ok
      /\ y.fetched <=> (r.fetched \/ ~r.new)
  BY <1>1, <1>2, FetchIs
<1>6. Paired(c, v, w, x, y)
  BY <1>3, <1>4, <1>5 DEF Paired, Alike
<1> QED BY <1>2, <1>6

LEMMA KeepOrPaired ==
    ASSUME NEW c, NEW v, NEW w, NEW s, NEW r, Paired(c, v, w, s, r), s.ok <=> r.ok, NEW at
    PROVE  Paired(c, v, w, KeepOr(s, at), KeepOr(r, at))
<1>1. Learns(s, c, v, s) /\ Learns(r, c, w, r)
  BY DEF Paired
<1>2. CASE s.ok
  BY <1>2, StepsPaired DEF KeepOr
<1>3. CASE ~s.ok
  <2>1. PICK p, q : p = [s EXCEPT !.ok = TRUE] /\ q = [r EXCEPT !.ok = TRUE]
    OBVIOUS
  <2>2. Learns(p, c, v, s) /\ Learns(q, c, w, r)
    BY <1>1, <2>1, StepsLearn
  <2>3. p.ok /\ p.fetched = s.fetched /\ q.ok /\ q.fetched = r.fetched
    BY <1>1, <2>1 DEF Learns
  <2>4. PICK x, y : x = New(p, at) /\ y = New(q, at)
    OBVIOUS
  <2>5. Learns(x, c, v, x) /\ Learns(y, c, w, y)
    <3>1. Learns(x, c, v, s) /\ Learns(y, c, w, r)
      BY <2>2, <2>4, StepsLearn
    <3> QED BY <3>1 DEF Learns
  <2>6. /\ x.at = at /\ x.new /\ x.word = FromBuffer(at) /\ x.ok = p.ok /\ x.fetched = p.fetched
        /\ y.at = at /\ y.new /\ y.word = FromBuffer(at) /\ y.ok = q.ok /\ y.fetched = q.fetched
    BY <2>2, <2>4, NewIs
  <2>7. Paired(c, v, w, x, y)
    BY <2>3, <2>5, <2>6 DEF Paired, Alike
  <2>8. KeepOr(s, at) = x /\ KeepOr(r, at) = y
    BY <1>3, <2>1, <2>4 DEF KeepOr
  <2> QED BY <2>7, <2>8
<1> QED BY <1>2, <1>3

LEMMA KeepIfSamePaired ==
    ASSUME NEW c, NEW v, NEW w, NEW s, NEW r, Paired(c, v, w, s, r), NEW at
    PROVE  Paired(c, v, w, KeepIfSame(s, at), KeepIfSame(r, at))
<1>1. Learns(s, c, v, s) /\ Learns(r, c, w, r)
  BY DEF Paired
<1>2. PICK p, q : p = KeepIfSame(s, at) /\ q = KeepIfSame(r, at)
  OBVIOUS
<1>3. Learns(p, c, v, s) /\ Learns(q, c, w, r)
  BY <1>1, <1>2, KeepOrLearns
<1>4. (~s.ok => p = s) /\ (~r.ok => q = r)
  BY <1>2 DEF KeepIfSame, Keep
<1>5. ASSUME s.ok, r.ok
      PROVE  Paired(c, v, w, p, q)
  <2>1. s.at = r.at
    BY <1>5 DEF Paired, Alike
  <2> QED BY <1>2, <1>5, <2>1, StepsPaired DEF KeepIfSame
<1>6. Paired(c, v, w, p, q)
  BY <1>3, <1>4, <1>5, Onward
<1> QED BY <1>2, <1>6

LEMMA BinaryToBytesPaired ==
    ASSUME NEW c, NEW v, NEW w, NEW s, NEW r, Paired(c, v, w, s, r),
           s.ok /\ r.ok => s.value = r.value
    PROVE  Paired(c, v, w, BinaryToBytes(s), BinaryToBytes(r))
<1>1. Learns(s, c, v, s) /\ Learns(r, c, w, r)
  BY DEF Paired
<1>2. PICK p, q : p = BinaryToBytes(s) /\ q = BinaryToBytes(r)
  OBVIOUS
<1>3. Learns(p, c, v, s) /\ Learns(q, c, w, r)
  BY <1>1, <1>2, BinaryToBytesLearns
<1>4. (~s.ok => p = s) /\ (~r.ok => q = r)
  BY <1>2 DEF BinaryToBytes, Keep
<1>5. ASSUME s.ok, r.ok
      PROVE  Paired(c, v, w, p, q)
  <2>1. PICK value : value = s.value /\ value = r.value
    BY <1>5
  <2>2. PICK at : at = IF value.of.of.form = "empty" THEN Plainly("null", TRUE) ELSE value.of.of
    OBVIOUS
  <2>3. CASE value.type # "array" \/ value.of.form \notin {"bytes0", "bytes1"}
    <3>1. p = Keep(s) /\ q = Keep(r)
      BY <1>2, <2>1, <2>3 DEF BinaryToBytes
    <3> QED BY <1>5, <3>1, StepsPaired
  <2>4. CASE ~(value.type # "array" \/ value.of.form \notin {"bytes0", "bytes1"})
    <3>1. p = New(s, at) /\ q = New(r, at)
      BY <1>2, <1>5, <2>1, <2>2, <2>4 DEF BinaryToBytes
    <3> QED BY <1>5, <3>1, StepsPaired
  <2> QED BY <2>3, <2>4
<1>6. Paired(c, v, w, p, q)
  BY <1>3, <1>4, <1>5, Onward
<1> QED BY <1>2, <1>6

LEMMA ReformatValuePaired ==
    ASSUME NEW c, NEW v, NEW w, NEW s, NEW r, Paired(c, v, w, s, r), s.ok, r.ok,
           s.value = r.value,
           NEW conv \in {<<"plain", "text">>, <<"text", "str">>, <<"str", "text">>,
                         <<"yaml", "plain">>, <<"ipython", "python">>}
    PROVE  Paired(c, v, w, ReformatValue(s, conv), ReformatValue(r, conv))
<1>1. PICK value, at : value = s.value /\ value = r.value /\ at = s.at /\ at = r.at
  BY DEF Paired, Alike
<1>2. CASE conv = <<"plain", "text">>
  <2>1. /\ ReformatValue(s, conv) = IF value.type = "str" THEN New(s, AsText(value)) ELSE Keep(s)
        /\ ReformatValue(r, conv) = IF value.type = "str" THEN New(r, AsText(value)) ELSE Keep(r)
    BY <1>1, <1>2 DEF ReformatValue
  <2> QED BY <2>1, StepsPaired
<1>3. CASE conv = <<"text", "str">>
  <2>1. ReformatValue(s, conv) = New(s, AsStr(value)) /\ ReformatValue(r, conv) = New(r, AsStr(value))
    BY <1>1, <1>3 DEF ReformatValue
  <2> QED BY <2>1, StepsPaired
<1>4. CASE conv = <<"str", "text">>
  <2>1. ReformatValue(s, conv) = New(s, AsText(value)) /\ ReformatValue(r, conv) = New(r, AsText(value))
    BY <1>1, <1>4 DEF ReformatValue
  <2> QED BY <2>1, StepsPaired
<1>5. CASE conv = <<"yaml", "plain">>
  <2>1. /\ ReformatValue(s, conv) = IF IsNull(at) THEN Fail(s) ELSE NewValue(s, YamlValue(at))
        /\ ReformatValue(r, conv) = IF IsNull(at) THEN Fail(r) ELSE NewValue(r, YamlValue(at))
    BY <1>1, <1>5 DEF ReformatValue
  <2> QED BY <2>1, StepsPaired
<1>6. CASE conv = <<"ipython", "python">>
  <2>1. PICK new : new = IF at.form = "magic" THEN Plainly("code", TRUE) ELSE Line(at)
    OBVIOUS
  <2>2. /\ ReformatValue(s, conv) = NewUnless(IsNull(at), s, new)
        /\ ReformatValue(r, conv) = NewUnless(IsNull(at), r, new)
    BY <1>1, <1>6, <2>1 DEF ReformatValue
  <2> QED BY <2>2, StepsPaired
<1> QED BY <1>2, <1>3, <1>4, <1>5, <1>6

LEMMA ConvertPossiblePaired ==
    ASSUME NEW c, NEW v, NEW w, NEW s, NEW r, Paired(c, v, w, s, r), s.ok, r.ok,
           s.value = r.value, NEW conv
    PROVE  Paired(c, v, w, ConvertPossible(s, conv), ConvertPossible(r, conv))
<1>1. PICK value : value = Built(s.value, s.value.of.form, conv[2])
  OBVIOUS
<1>2. ConvertPossible(s, conv) = NewValue(s, value) /\ ConvertPossible(r, conv) = NewValue(r, value)
  BY <1>1 DEF ConvertPossible
<1> QED BY <1>2, StepsPaired

LEMMA ConvertValuePaired ==
    ASSUME NEW c, NEW v, NEW w, NEW s, NEW r, Paired(c, v, w, s, r), s.ok, r.ok,
           s.value = r.value, NEW conv \in ByValue, conv[2] # "checksum"
    PROVE  Paired(c, v, w, ConvertValue(s, conv), ConvertValue(r, conv))
<1>1. \/ conv \in {"checksum"} \X (Celltype \ {"checksum"})
      \/ conv \in {<<"binary", "plain">>, <<"plain", "binary">>}
      \/ conv \in {"bool"} \X Numeric
      \/ conv \in Numeric \X {"bool"}
  BY DEF ByValue
<1>2. PICK value, at : value = s.value /\ value = r.value /\ at = s.at /\ at = r.at
  BY DEF Paired, Alike
<1>3. PICK form : form = value.of.form
  OBVIOUS
<1>4. PICK plain, array, scalar, boxed :
        /\ plain = Plainly(IF form = "null" THEN "null"
                           ELSE IF form = "number0" THEN "number" ELSE "array", TRUE)
        /\ array = Plainly(IF form = "array" THEN "number1" ELSE "number0", FALSE)
        /\ scalar = (form \notin {"null", "number0", "number1", "number2", "number3"})
        /\ boxed = (form \notin {"number", "true", "array"} \/ value.type = "str")
  OBVIOUS
<1>5. CASE conv \in {"checksum"} \X (Celltype \ {"checksum"})
  <2>1. /\ ConvertValue(s, conv) = NewUnless(IsNull(at), s, Referenced)
        /\ ConvertValue(r, conv) = NewUnless(IsNull(at), r, Referenced)
    <3>1. /\ conv[1] = "checksum" /\ conv \notin Numeric \X {"bool"}
          /\ conv \notin {"bool"} \X Numeric
          /\ conv # <<"binary", "plain">> /\ conv # <<"plain", "binary">>
      BY <1>5 DEF Numeric
    <3>2. \A q : ConvertValue(q, conv) = NewUnless(IsNull(q.at), q, Referenced)
      BY <3>1 DEF ConvertValue
    <3> QED BY <1>2, <3>2
  <2> QED BY <2>1, StepsPaired
<1>6. CASE conv = <<"binary", "plain">>
  <2>1. /\ ConvertValue(s, conv) = NewUnless(scalar, s, plain)
        /\ ConvertValue(r, conv) = NewUnless(scalar, r, plain)
    BY <1>2, <1>3, <1>4, <1>6 DEF ConvertValue, Numeric
  <2> QED BY <2>1, StepsPaired
<1>7. CASE conv = <<"plain", "binary">>
  <2>1. /\ ConvertValue(s, conv) = NewUnless(boxed, s, array)
        /\ ConvertValue(r, conv) = NewUnless(boxed, r, array)
    BY <1>2, <1>3, <1>4, <1>7 DEF ConvertValue, Numeric
  <2> QED BY <2>1, StepsPaired
<1>8. CASE conv \in {"bool"} \X Numeric
  <2>1. /\ ConvertValue(s, conv) = NewUnless(IsNull(at), s, Plainly("number", TRUE))
        /\ ConvertValue(r, conv) = NewUnless(IsNull(at), r, Plainly("number", TRUE))
    <3>1. conv[1] = "bool" /\ conv \notin Numeric \X {"bool"}
      BY <1>8 DEF Numeric
    <3> QED BY <1>2, <1>8, <3>1 DEF ConvertValue
  <2> QED BY <2>1, StepsPaired
<1>9. CASE conv \in Numeric \X {"bool"}
  <2>1. /\ ConvertValue(s, conv) = New(s, Plainly("true", TRUE))
        /\ ConvertValue(r, conv) = New(r, Plainly("true", TRUE))
    <3>1. conv[1] \in Numeric
      BY <1>9
    <3>2. conv \notin {"bool"} \X Numeric /\ conv[1] # "checksum"
           /\ conv \notin {<<"binary", "plain">>, <<"plain", "binary">>}
      BY <1>9 DEF Numeric
    <3>3. \A q : ConvertValue(q, conv) = New(q, Plainly("true", TRUE))
      BY <1>9, <3>2 DEF ConvertValue
    <3> QED BY <3>3
  <2> QED BY <2>1, StepsPaired
<1> QED BY <1>1, <1>5, <1>6, <1>7, <1>8, <1>9

LEMMA BytesToBinaryPaired ==
    ASSUME NEW c, NEW v, NEW w, Tighter(c, v, w), NEW s, NEW r, Paired(c, v, w, s, r), s.ok, r.ok
    PROVE  Paired(c, v, w, BytesToBinary(s), BytesToBinary(r))
<1>1. s.at = r.at /\ (s.new <=> r.new)
  BY DEF Paired, Alike
<1>2. CASE IsNpy(s.at)
  <2>1. s.at.form \notin TextForm
    BY <1>2, FormsApart DEF IsNpy, TextForm
  <2>2. "binary" \in Celltype
    BY DEF Celltype
  <2>3. PICK x, y : x = ValueOf(s, "binary") /\ y = ValueOf(r, "binary")
    OBVIOUS
  <2>4. Paired(c, v, w, x, y) /\ Alike(x, y) /\ (x.ok <=> y.ok)
    BY <2>1, <2>2, <2>3, ValuePaired
  <2>5. PICK f, g : f = Fetch(x) /\ g = Fetch(y)
    OBVIOUS
  <2>6. Paired(c, v, w, f, g)
    BY <2>4, <2>5, FetchPaired DEF Alike
  <2>7. f.ok = x.ok /\ g.ok = y.ok
    BY <2>4, <2>5, FetchIs DEF Paired
  <2>8. Paired(c, v, w, KeepOr(f, Boxed(s.at)), KeepOr(g, Boxed(s.at)))
    BY <2>4, <2>6, <2>7, KeepOrPaired
  <2> QED BY <1>1, <1>2, <2>3, <2>5, <2>8 DEF BytesToBinary
<1>3. CASE ~IsNpy(s.at)
  <2>1. PICK f, g : f = Fetch(s) /\ g = Fetch(r)
    OBVIOUS
  <2>2. Paired(c, v, w, f, g)
    BY <1>1, <2>1, FetchPaired
  <2>3. f.ok = s.ok /\ g.ok = r.ok
    BY <2>1, FetchIs DEF Paired
  <2>4. Paired(c, v, w, New(f, Boxed(s.at)), New(g, Boxed(s.at)))
    BY <2>2, <2>3, StepsPaired
  <2> QED BY <1>1, <1>3, <2>1, <2>4 DEF BytesToBinary
<1> QED BY <1>2, <1>3

\* What a text would be boxed for, its classifier rules out.
LEMMA TextNotMixed ==
    ASSUME NEW c \in Contents, c.form \in TextForm
    PROVE  DeserializableAs(FromBuffer(c), "mixed", c) = "False"
<1>1. FromBuffer(c) \in TrueWords(c)
  BY DEF TrueWords
<1>2. ~IsNull(c)
  BY DEF IsNull, TextForm
<1>3. PICK kind, dtype, rank, flags :
        /\ Classified(c, kind, dtype, rank, flags)
        /\ Says(FromBuffer(c), kind, c.length, dtype, rank, flags)
  BY TestedSays
<1>4. PICK t : t = Unpack(FromBuffer(c))
  OBVIOUS
<1>5. t.kind = 4
  BY <1>3, <1>4 DEF Classified, Says
<1>6. DeserializableAs(FromBuffer(c), "mixed", c) = TestedAnswer(t, "mixed", c)
  BY <1>2, <1>4, <1>5 DEF DeserializableAs, IsUntested, Kind
<1> QED BY <1>5, <1>6 DEF TestedAnswer, Kind, Answer

LEMMA BytesToMixedPaired ==
    ASSUME NEW c, NEW v, NEW w, Tighter(c, v, w), NEW s, NEW r, Paired(c, v, w, s, r),
           s.ok, r.ok, NEW wrapped
    PROVE  Paired(c, v, w, BytesToMixed(s, wrapped), BytesToMixed(r, wrapped))
<1>1. Learns(s, c, v, s) /\ Learns(r, c, w, r) /\ Alike(s, r)
  BY DEF Paired
<1>2. PICK virtual : virtual = VirtualValue(s.at, "mixed") /\ virtual = VirtualValue(r.at, "mixed")
  BY <1>1 DEF Alike
<1>3. PICK x, y : x = ValueOf(s, "mixed") /\ y = ValueOf(r, "mixed")
  OBVIOUS
<1>4. PICK f, g : f = Fetch(x) /\ g = Fetch(y)
  OBVIOUS
<1> DEFINE Proven(q) == q.word # Unknown /\ DeserializableAs(q.word, "mixed", q.at) = "True"
           Likely == DeserializableAs(FromBuffer(s.at), "mixed", s.at) # "False"
<1>5. "mixed" \in Celltype
  BY DEF Celltype
<1>6. /\ Paired(c, v, w, x, y) /\ Alike(x, y) /\ x.at = s.at /\ (x.new <=> s.new)
      /\ s.new \/ s.at.form \notin TextForm => (x.ok <=> y.ok)
  BY <1>3, <1>5, ValuePaired
<1>7. /\ f.at = x.at /\ f.new = x.new /\ f.ok = x.ok
      /\ f.fetched <=> (x.fetched \/ ~x.new)
      /\ g.at = y.at /\ g.new = y.new /\ g.ok = y.ok
      /\ g.fetched <=> (y.fetched \/ ~y.new)
  BY <1>4, <1>6, FetchIs DEF Paired
<1>8. Paired(c, v, w, f, g)
  BY <1>4, <1>6, FetchPaired DEF Alike
<1>9. /\ BytesToMixed(s, wrapped) =
           IF virtual # NotVirtual \/ Proven(s) THEN s
           ELSE IF Likely THEN KeepOr(f, wrapped) ELSE New(Fetch(s), wrapped)
      /\ BytesToMixed(r, wrapped) =
           IF virtual # NotVirtual \/ Proven(r) THEN r
           ELSE IF Likely THEN KeepOr(g, wrapped) ELSE New(Fetch(r), wrapped)
  <2>1. s.at = r.at
    BY <1>1 DEF Alike
  <2> QED BY <1>2, <1>3, <1>4, <2>1 DEF BytesToMixed, Keep
<1>10. ASSUME x.ok <=> y.ok
       PROVE  Paired(c, v, w, KeepOr(f, wrapped), KeepOr(g, wrapped))
  BY <1>7, <1>8, <1>10, KeepOrPaired
<1>11. Paired(c, v, w, New(Fetch(s), wrapped), New(Fetch(r), wrapped))
  <2>1. PICK p, q : p = Fetch(s) /\ q = Fetch(r)
    OBVIOUS
  <2>2. Paired(c, v, w, p, q)
    BY <1>1, <2>1, FetchPaired DEF Alike
  <2>3. p.ok = s.ok /\ q.ok = r.ok
    BY <1>1, <2>1, FetchIs
  <2>4. Paired(c, v, w, New(p, wrapped), New(q, wrapped))
    BY <2>2, <2>3, StepsPaired
  <2> QED BY <2>1, <2>4
<1>12. CASE virtual # NotVirtual
  BY <1>9, <1>12
<1>13. CASE virtual = NotVirtual /\ s.new
  <2>1. Proven(s) <=> Proven(r)
    BY <1>1, <1>13 DEF Alike
  <2> HIDE DEF Proven, Likely
  <2> QED BY <1>6, <1>9, <1>10, <1>11, <1>13, <2>1
<1>14. CASE virtual = NotVirtual /\ ~s.new
  <2>1. s.at = c /\ r.at = c /\ ~r.new
    BY <1>1, <1>14 DEF Learns, Alike
  <2>2. /\ c \in Contents /\ v \in TrueWords(c) /\ (w = Unknown \/ w \in TrueWords(c))
        /\ w # Unknown => Implies(v, w)
        /\ FromBuffer(c) \in TrueWords(c)
    BY DEF Tighter, TrueWords
  <2>3. v # Unknown /\ VirtualValue(c, "mixed") = NotVirtual
    BY <1>2, <1>14, <2>1, <2>2, Order
  <2>4. Proven(s) \/ Proven(r) => Readable(c, "mixed")
    <3>1. (s.word = Unknown \/ s.word \in TrueWords(c)) /\ (r.word = Unknown \/ r.word \in TrueWords(c))
      BY <1>1, <1>14, <2>1, <2>2 DEF Learns
    <3> QED BY <1>5, <2>1, <2>2, <3>1, WordRight DEF Right
  <2>5. Readable(c, "mixed") => Likely
    BY <1>5, <2>1, <2>2, WordRight DEF Right
  <2>6. Readable(c, "mixed") => x.ok /\ y.ok
    BY <1>1, <1>3, <1>5, <1>14, <2>1, <2>2, <2>3, ReadAtSource
  <2>7. Likely => c.form \notin TextForm
    BY <2>1, <2>2, TextNotMixed
  <2>8. CASE Proven(s) /\ Proven(r)
    BY <1>9, <1>14, <2>8
  <2>9. CASE ~Proven(s) /\ ~Proven(r)
    <3> HIDE DEF Proven, Likely
    <3> QED BY <1>6, <1>9, <1>10, <1>11, <1>14, <2>1, <2>7, <2>9
  <2>10. CASE Proven(s) /\ ~Proven(r)
    <3>1. BytesToMixed(s, wrapped) = s /\ BytesToMixed(r, wrapped) = KeepOr(g, wrapped)
      BY <1>9, <1>14, <2>4, <2>5, <2>10
    <3>2. KeepOr(g, wrapped) = g
      BY <1>7, <2>4, <2>6, <2>10 DEF KeepOr, Keep
    <3>3. /\ g.ok /\ g.fetched /\ g.at = c /\ ~g.new
          /\ Learns(g, c, w, g)
      BY <1>6, <1>7, <1>8, <1>14, <2>1, <2>4, <2>6, <2>10 DEF Paired, Alike
    <3>4. Paired(c, v, w, s, g)
      BY <1>1, <1>14, <2>1, <3>3 DEF Paired, Alike
    <3> QED BY <3>1, <3>2, <3>4
  <2>11. CASE ~Proven(s) /\ Proven(r)
    <3>1. BytesToMixed(s, wrapped) = KeepOr(f, wrapped) /\ BytesToMixed(r, wrapped) = r
      BY <1>9, <1>14, <2>4, <2>5, <2>11
    <3>2. KeepOr(f, wrapped) = f
      BY <1>7, <2>4, <2>6, <2>11 DEF KeepOr, Keep
    <3>3. /\ f.ok /\ f.at = c /\ ~f.new
          /\ Learns(f, c, v, f)
      BY <1>6, <1>7, <1>8, <1>14, <2>1, <2>4, <2>6, <2>11 DEF Paired, Alike
    <3>4. r.fetched
      <4> SUFFICES ASSUME ~r.fetched PROVE FALSE
        OBVIOUS
      <4>1. s.word = v /\ r.word = w
        BY <1>14 DEF Paired
      <4>2. DeserializableAs(v, "mixed", c) = "True"
        BY <1>5, <2>1, <2>2, <2>11, <4>1, Tightens
      <4> QED BY <2>1, <2>3, <2>11, <4>1, <4>2
    <3>5. Paired(c, v, w, f, r)
      BY <1>1, <1>14, <2>1, <3>3, <3>4 DEF Paired, Alike
    <3> QED BY <3>1, <3>2, <3>5
  <2> QED BY <2>8, <2>9, <2>10, <2>11
<1> QED BY <1>12, <1>13, <1>14

LEMMA ReformatPaired ==
    ASSUME NEW c, NEW v, NEW w, Tighter(c, v, w), NEW s, NEW r, Paired(c, v, w, s, r), s.ok, r.ok,
           NEW conv \in Reformatted
    PROVE  Paired(c, v, w, Reformat(s, conv), Reformat(r, conv))
<1>1. PICK at : at = s.at /\ at = r.at
  BY DEF Paired, Alike
<1>2. {"binary", "mixed", "text", "plain", "str", "yaml", "ipython"} \subseteq Celltype
  BY DEF Celltype
<1>3. CASE conv = <<"bytes", "binary">>
  <2>1. Reformat(s, conv) = BytesToBinary(s) /\ Reformat(r, conv) = BytesToBinary(r)
    BY <1>3 DEF Reformat
  <2> QED BY <2>1, BytesToBinaryPaired
<1>4. CASE conv = <<"bytes", "mixed">>
  <2>1. PICK wrapped : wrapped = IF IsText(at) THEN Quoted(at) ELSE Boxed(at)
    OBVIOUS
  <2>2. /\ Reformat(s, conv) = BytesToMixed(s, wrapped)
        /\ Reformat(r, conv) = BytesToMixed(r, wrapped)
    BY <1>1, <1>4, <2>1 DEF Reformat
  <2> QED BY <2>2, BytesToMixedPaired
<1>5. CASE conv = <<"binary", "bytes">>
  <2>1. PICK x, y : x = ValueOf(s, "binary") /\ y = ValueOf(r, "binary")
    OBVIOUS
  <2>2. Paired(c, v, w, x, y) /\ (x.ok /\ y.ok => x.value = y.value)
    BY <1>2, <2>1, ValuePaired
  <2>3. Reformat(s, conv) = BinaryToBytes(x) /\ Reformat(r, conv) = BinaryToBytes(y)
    BY <1>5, <2>1 DEF Reformat
  <2> QED BY <2>2, <2>3, BinaryToBytesPaired
<1>6. CASE conv = <<"mixed", "bytes">>
  <2>1. PICK f, g : f = Fetch(s) /\ g = Fetch(r)
    OBVIOUS
  <2>2. f.at = at /\ g.at = at /\ f.ok /\ g.ok
    <3>1. f.at = s.at /\ g.at = r.at /\ f.ok = s.ok /\ g.ok = r.ok
      BY <2>1, FetchIs DEF Paired
    <3> QED BY <1>1, <3>1
  <2>3. Paired(c, v, w, f, g)
    <3>1. s.new <=> r.new
      BY DEF Paired, Alike
    <3> QED BY <2>1, <3>1, FetchPaired
  <2>4. Reformat(s, conv) = MixedToBytes(f) /\ Reformat(r, conv) = MixedToBytes(g)
    BY <1>6, <2>1 DEF Reformat
  <2>5. CASE IsNpy(at)
    <3>1. PICK x, y : x = ValueOf(f, "binary") /\ y = ValueOf(g, "binary")
      OBVIOUS
    <3>2. Paired(c, v, w, x, y) /\ (x.ok /\ y.ok => x.value = y.value)
      BY <1>2, <2>2, <2>3, <3>1, ValuePaired
    <3>3. MixedToBytes(f) = BinaryToBytes(x) /\ MixedToBytes(g) = BinaryToBytes(y)
      BY <2>2, <2>5, <3>1 DEF MixedToBytes
    <3> QED BY <2>4, <3>2, <3>3, BinaryToBytesPaired
  <2>6. CASE ~IsNpy(at)
    <3>1. PICK x, y : x = ValueOf(f, "mixed") /\ y = ValueOf(g, "mixed")
      OBVIOUS
    <3>2. Paired(c, v, w, x, y)
      BY <1>2, <2>2, <2>3, <3>1, ValuePaired
    <3>3. MixedToBytes(f) = x /\ MixedToBytes(g) = y
      BY <2>2, <2>6, <3>1 DEF MixedToBytes, Keep
    <3> QED BY <2>4, <3>2, <3>3
  <2> QED BY <2>5, <2>6
<1>7. CASE conv = <<"text", "plain">>
  <2>1. PICK virtual, json : virtual = VirtualValue(at, "plain") /\ json = PlainValue(at)
    OBVIOUS
  <2>2. PICK new : new = AsPlain(IF json # Failed THEN json ELSE Str(at))
    OBVIOUS
  <2>3. PICK x, y : x = ValueOf(s, "text") /\ y = ValueOf(r, "text")
    OBVIOUS
  <2>4. Paired(c, v, w, x, y)
    BY <1>2, <2>3, ValuePaired
  <2>5. Reformat(s, conv) = TextToPlain(s, virtual, json)
        /\ Reformat(r, conv) = TextToPlain(r, virtual, json)
    BY <1>1, <1>7, <2>1 DEF Reformat
  <2>6. CASE virtual # NotVirtual
    <3>1. /\ TextToPlain(s, virtual, json) = KeepIfSame(s, AsPlain(virtual))
          /\ TextToPlain(r, virtual, json) = KeepIfSame(r, AsPlain(virtual))
      BY <2>6 DEF TextToPlain
    <3> QED BY <2>5, <3>1, KeepIfSamePaired
  <2>7. CASE virtual = NotVirtual
    <3>1. /\ TextToPlain(s, virtual, json) = KeepIfSame(x, new)
          /\ TextToPlain(r, virtual, json) = KeepIfSame(y, new)
      BY <1>1, <2>2, <2>3, <2>7 DEF TextToPlain
    <3> QED BY <2>4, <2>5, <3>1, KeepIfSamePaired
  <2> QED BY <2>6, <2>7
<1>8. CASE conv \in {<<"plain", "text">>, <<"text", "str">>, <<"str", "text">>,
                     <<"yaml", "plain">>, <<"ipython", "python">>}
  <2>1. PICK x, y : x = ValueOf(s, conv[1]) /\ y = ValueOf(r, conv[1])
    OBVIOUS
  <2>2. conv[1] \in Celltype
    BY <1>2, <1>8
  <2>3. Paired(c, v, w, x, y) /\ (x.ok /\ y.ok => x.value = y.value)
    BY <2>1, <2>2, ValuePaired
  <2>4. PICK p, q : /\ p = IF x.ok THEN ReformatValue(x, conv) ELSE x
                    /\ q = IF y.ok THEN ReformatValue(y, conv) ELSE y
    OBVIOUS
  <2>5. Reformat(s, conv) = p /\ Reformat(r, conv) = q
    BY <1>8, <2>1, <2>4 DEF Reformat, IfRead
  <2>6. Learns(x, c, v, x) /\ Learns(y, c, w, y)
    BY <2>3 DEF Paired
  <2>7. Learns(p, c, v, x) /\ Learns(q, c, w, y)
    BY <1>8, <2>4, <2>6, ReformatValueLearns
  <2>8. ASSUME x.ok, y.ok PROVE Paired(c, v, w, p, q)
    BY <1>8, <2>3, <2>4, <2>8, ReformatValuePaired
  <2>9. Paired(c, v, w, p, q)
    BY <2>3, <2>4, <2>7, <2>8, Onward
  <2> QED BY <2>5, <2>9
<1> QED BY <1>3, <1>4, <1>5, <1>6, <1>7, <1>8 DEF Reformatted

LEMMA TablesTyped ==
    ASSUME NEW conv \in Tables
    PROVE  conv[1] \in Celltype /\ conv[2] \in Celltype
<1>1. conv \in Trivial => conv[1] \in Celltype /\ conv[2] \in Celltype
  BY DEF Trivial, Scalar, Celltype
<1>2. \A pair \in Trivial : pair[1] \in Celltype /\ pair[2] \in Celltype
  BY DEF Trivial, Scalar, Celltype
<1>3. conv \in Reinterpreted => conv[1] \in Celltype /\ conv[2] \in Celltype
  BY <1>2 DEF Reinterpreted
<1>4. conv \in Reformatted => conv[1] \in Celltype /\ conv[2] \in Celltype
  BY DEF Reformatted, Celltype
<1>5. conv \in Possible => conv[1] \in Celltype /\ conv[2] \in Celltype
  BY DEF Possible, Scalar, Celltype
<1>6. conv \in ByValue => conv[1] \in Celltype /\ conv[2] \in Celltype
  BY DEF ByValue, Numeric, Celltype
<1>7. conv \in Forbidden => conv[1] \in Celltype /\ conv[2] \in Celltype
  BY DEF Forbidden, Code, Celltype
<1> QED BY <1>1, <1>3, <1>4, <1>5, <1>6, <1>7 DEF Tables

LEMMA LegPaired ==
    ASSUME NEW c, NEW v, NEW w, Tighter(c, v, w), NEW s, NEW r, Paired(c, v, w, s, r),
           NEW conv \in Tables
    PROVE  Paired(c, v, w, Leg(s, conv), Leg(r, conv))
<1>1. PICK p, q : p = Leg(s, conv) /\ q = Leg(r, conv)
  OBVIOUS
<1>2. Learns(s, c, v, s) /\ Learns(r, c, w, r)
  BY DEF Paired
<1>3. Learns(p, c, v, s) /\ Learns(q, c, w, r)
  BY <1>1, <1>2, LegLearns
<1>4. (~s.ok => p = s) /\ (~r.ok => q = r)
  BY <1>1 DEF Leg, Keep
<1>5. ASSUME s.ok, r.ok
      PROVE  Paired(c, v, w, p, q)
  <2>1. conv[1] \in Celltype /\ conv[2] \in Celltype
    BY TablesTyped
  <2>2. CASE conv \in Trivial
    BY <1>1, <2>2, StepsPaired DEF Leg, Keep
  <2>3. CASE conv \notin Trivial /\ conv \in Forbidden
    <3>1. p = Fail(s) /\ q = Fail(r)
      BY <1>1, <1>5, <2>3 DEF Leg
    <3> QED BY <1>5, <3>1, StepsPaired
  <2>4. CASE conv \notin Trivial \union Forbidden /\ conv \in Reinterpreted
    <3>1. /\ p = Reinterpret(s, VirtualValue(s.at, conv[2]), conv[2])
          /\ q = Reinterpret(r, VirtualValue(r.at, conv[2]), conv[2])
      BY <1>1, <1>5, <2>4 DEF Leg
    <3> QED BY <1>5, <2>1, <3>1, ReinterpretPaired
  <2>5. CASE conv \notin Trivial \union Forbidden \union Reinterpreted /\ conv \in Reformatted
    <3>1. p = Reformat(s, conv) /\ q = Reformat(r, conv)
      BY <1>1, <1>5, <2>5 DEF Leg
    <3> QED BY <1>5, <2>5, <3>1, ReformatPaired
  <2>6. PICK x, y : x = ValueOf(s, conv[1]) /\ y = ValueOf(r, conv[1])
    OBVIOUS
  <2>7. Paired(c, v, w, x, y) /\ (x.ok /\ y.ok => x.value = y.value)
    BY <1>5, <2>1, <2>6, ValuePaired
  <2>8. Learns(x, c, v, x) /\ Learns(y, c, w, y)
    BY <2>7 DEF Paired
  <2>9. CASE conv \notin Trivial \union Forbidden \union Reinterpreted \union Reformatted
             /\ conv \in Possible
    <3>1. /\ p = IF x.ok THEN ConvertPossible(x, conv) ELSE x
          /\ q = IF y.ok THEN ConvertPossible(y, conv) ELSE y
      BY <1>1, <1>5, <2>6, <2>9 DEF Leg, IfRead
    <3>2. Learns(p, c, v, x) /\ Learns(q, c, w, y)
      BY <2>8, <3>1, NewLearns DEF ConvertPossible
    <3>3. ASSUME x.ok, y.ok PROVE Paired(c, v, w, p, q)
      BY <2>7, <3>1, <3>3, ConvertPossiblePaired
    <3> QED BY <2>7, <3>1, <3>2, <3>3, Onward
  <2>10. CASE conv \notin Trivial \union Forbidden \union Reinterpreted \union Reformatted
                \union Possible
              /\ conv[2] = "checksum"
    <3>1. p = New(s, Plainly("digest", FALSE)) /\ q = New(r, Plainly("digest", FALSE))
      BY <1>1, <1>5, <2>10 DEF Leg
    <3> QED BY <1>5, <3>1, StepsPaired
  <2>11. CASE conv \notin Trivial \union Forbidden \union Reinterpreted \union Reformatted
                \union Possible
              /\ conv[2] # "checksum"
    <3>1. conv \in ByValue
      BY <2>11 DEF Tables
    <3>2. /\ p = IF x.ok THEN ConvertValue(x, conv) ELSE x
          /\ q = IF y.ok THEN ConvertValue(y, conv) ELSE y
      BY <1>1, <1>5, <2>6, <2>11 DEF Leg, IfRead
    <3>3. Learns(ConvertValue(x, conv), c, v, x) /\ Learns(ConvertValue(y, conv), c, w, y)
      BY <2>8, <2>11, <3>1, ConvertValueLearns
    <3>4. Learns(p, c, v, x) /\ Learns(q, c, w, y)
      BY <2>8, <3>2, <3>3
    <3>5. ASSUME x.ok, y.ok PROVE Paired(c, v, w, p, q)
      BY <2>7, <2>11, <3>1, <3>2, <3>5, ConvertValuePaired
    <3> QED BY <2>7, <3>2, <3>4, <3>5, Onward
  <2> QED BY <2>2, <2>3, <2>4, <2>5, <2>9, <2>10, <2>11
<1>6. Paired(c, v, w, p, q)
  BY <1>3, <1>4, <1>5, Onward
<1> QED BY <1>1, <1>6

\* Along a whole route, from wherever both are.
LEMMA RoutePaired ==
    ASSUME NEW c, NEW v, NEW w, Tighter(c, v, w), NEW s, NEW r, Paired(c, v, w, s, r),
           NEW route, Len(route) \in 1 .. 3, \A i \in 1 .. Len(route) : route[i] \in Tables
    PROVE  Paired(c, v, w, Legs(route, s)[Len(route)], Legs(route, r)[Len(route)])
<1> DEFINE p == Legs(route, s)
           q == Legs(route, r)
<1>1. ASSUME NEW n \in 1 .. Len(route), Paired(c, v, w, p[n - 1], q[n - 1])
      PROVE  Paired(c, v, w, p[n], q[n])
  <2>1. Paired(c, v, w, Leg(p[n - 1], route[n]), Leg(q[n - 1], route[n]))
    BY <1>1, LegPaired
  <2> QED BY <2>1, LegsByLeg
<1>2. Paired(c, v, w, p[0], q[0])
  BY LegsByLeg
<1> HIDE DEF p, q
<1>3. Paired(c, v, w, p[1], q[1])
  <2>1. 1 \in 1 .. Len(route) /\ 1 - 1 = 0
    OBVIOUS
  <2> QED BY <1>1, <1>2, <2>1
<1>4. 2 <= Len(route) => Paired(c, v, w, p[2], q[2])
  <2>1. 2 <= Len(route) => 2 \in 1 .. Len(route) /\ 2 - 1 = 1
    OBVIOUS
  <2> QED BY <1>1, <1>3, <2>1
<1>5. 3 <= Len(route) => Paired(c, v, w, p[3], q[3])
  <2>1. 3 <= Len(route) => 3 \in 1 .. Len(route) /\ 3 - 1 = 2 /\ 2 <= Len(route)
    OBVIOUS
  <2> QED BY <1>1, <1>4, <2>1
<1>6. Paired(c, v, w, p[Len(route)], q[Len(route)])
  <2>1. Len(route) \in {1, 2, 3}
    OBVIOUS
  <2>2. CASE Len(route) = 1
    BY <1>3, <2>2
  <2>3. CASE Len(route) = 2
    BY <1>4, <2>3
  <2>4. CASE Len(route) = 3
    BY <1>5, <2>4
  <2> QED BY <2>1, <2>2, <2>3, <2>4
<1> QED BY <1>6 DEF p, q

LEMMA ConvertPaired ==
    ASSUME NEW conv \in Conversion, NEW c, NEW v, NEW w, Tighter(c, v, w)
    PROVE  Paired(c, v, w, ConvertChecksum(conv, c, v), ConvertChecksum(conv, c, w))
<1>1. PICK route : route = Route[conv]
  OBVIOUS
<1>2. /\ Len(route) \in 1 .. 3
      /\ \A i \in 1 .. Len(route) : route[i] \in Tables
  BY <1>1, CheckConversions DEF Tables, MaxLegs
<1>3. Paired(c, v, w, Legs(route, Start(c, v))[Len(route)], Legs(route, Start(c, w))[Len(route)])
  BY <1>2, StartPaired, RoutePaired
<1> QED BY <1>1, <1>3 DEF ConvertChecksum

\* What is known of a buffer only gets tighter.
LEMMA KnownTightens ==
    ASSUME TypesInv, TypesInv', Next, known' # known
    PROVE  Tighter(content, known', known)
<1>1. content' = content
  BY DEF Next, TypesNext, RegisterHashTypeForBuffer, SetHashTypeRemote, UploadWritten,
         UploadGivenUp, OtherProcessWrites, EnsureHashTypeAsync, DatabaseAnswers, EnsureResumes,
         EvaluateExpression
<1>2. /\ content \in Contents
      /\ known \in TrueWords(content) \union {Unknown}
      /\ known' \in TrueWords(content) \union {Unknown}
  BY <1>1 DEF TypesInv, WordsTrue, Word
<1>3. ASSUME NEW word, NEW upload, SetHashType(word, upload)
      PROVE  known' = word /\ (known = Unknown \/ Implies(word, known))
  BY <1>3 DEF SetHashType
<1>4. ASSUME NEW word \in TrueWords(content), NEW upload, SetHashType(word, upload)
      PROVE  Tighter(content, known', known)
  <2>1. known' = word /\ (known = Unknown \/ Implies(word, known))
    BY <1>3, <1>4
  <2> QED BY <1>2, <2>1 DEF Tighter
<1>5. ASSUME NEW inLoop \in BOOLEAN, EvaluateExpression(inLoop)
      PROVE  Tighter(content, known', known)
  BY <1>2, <1>5 DEF Tighter, EvaluateExpression
<1>6. FromBuffer(content) \in TrueWords(content)
  BY DEF TrueWords
<1>7. ASSUME NEW p \in Caller, EnsureResumes(p)
      PROVE  Tighter(content, known', known)
  <2>1. PICK word : word = lookup[p].word
    OBVIOUS
  <2>2. /\ lookup[p].at = "answered"
        /\ \/ word # Unknown /\ SetHashType(word, FALSE)
           \/ SetHashType(FromBuffer(content), TRUE)
    BY <1>7, <2>1 DEF EnsureResumes
  <2>3. word \in TrueWords(content) \union {Unknown}
    BY <2>1, <2>2 DEF TypesInv, WordsTrue, Word, Idle
  <2> QED BY <1>4, <1>6, <2>2, <2>3
<1>8. CASE RegisterHashTypeForBuffer \/ SetHashTypeRemote
  BY <1>4, <1>6, <1>8 DEF RegisterHashTypeForBuffer, SetHashTypeRemote
<1> QED BY <1>5, <1>7, <1>8
        DEF Next, TypesNext, UploadWritten, UploadGivenUp, OtherProcessWrites,
            EnsureHashTypeAsync, DatabaseAnswers

\* Where an expression runs is decided on the word known at that moment; a
\* conversion that needed no buffer then needs none with the word known later.
THEOREM ConversionsStayLocal == Spec => LocalStaysLocal
<1>1. ASSUME TypesInv, TypesInv', [Next]_typeVars
      PROVE  [known' # known => \A conv \in Legal :
                NeedsBuffer(conv, content, known') => NeedsBuffer(conv, content, known)]_typeVars
  <2> SUFFICES ASSUME Next, known' # known, NEW conv \in Legal,
                      NeedsBuffer(conv, content, known')
               PROVE  NeedsBuffer(conv, content, known)
    BY <1>1 DEF typeVars
  <2>1. Tighter(content, known', known)
    BY <1>1, KnownTightens
  <2>2. PICK c, v, w : c = content /\ v = known' /\ w = known
    OBVIOUS
  <2>3. Paired(c, v, w, ConvertChecksum(conv, c, v), ConvertChecksum(conv, c, w))
    BY <2>1, <2>2, ConvertPaired DEF Legal
  <2> QED BY <2>2, <2>3 DEF Paired, NeedsBuffer
<1>2. TypesInv /\ TypesInv' /\ [Next]_typeVars =>
        [known' # known => \A conv \in Legal :
           NeedsBuffer(conv, content, known') => NeedsBuffer(conv, content, known)]_typeVars
  BY <1>1
<1> QED BY <1>2, SpecTypesInv, PTL DEF Spec, LocalStaysLocal

-----------------------------------------------------------------------------
(* Routes *)

\* The tables, pair by pair.
Three == {"int", "float", "bool"}

LEMMA PairsOf ==
    ASSUME NEW conv \in Conversion
    PROVE  \E a \in Celltype, b \in Celltype : conv = <<a, b>> /\ a # b
<1>1. conv \in Celltype \X Celltype /\ conv[1] # conv[2]
  BY DEF Conversion
<1>2. PICK a \in Celltype, b \in Celltype : conv = <<a, b>>
  BY <1>1
<1> QED BY <1>1, <1>2

LEMMA PairIs ==
    ASSUME NEW a \in Celltype, NEW b \in Celltype, a # b
    PROVE  <<a, b>> \in Conversion
BY DEF Conversion

LEMMA EquivalentOf ==
    ASSUME NEW a, NEW b
    PROVE  Equivalent(<<a, b>>) =
             IF \/ a \in TextSubtype /\ b \in {"str", "mixed"}
                \/ a \in Code /\ b = "plain"
                \/ a = "text" /\ b = "mixed" THEN <<"text", "str">>
             ELSE IF a = "str" /\ b \in TextSubtype THEN <<"str", "text">>
             ELSE IF a \in Code /\ b = "bytes" THEN <<a, "text">>
             ELSE IF a \in Scalar /\ b = "mixed" THEN <<a, "plain">>
             ELSE IF a \in Scalar /\ b \in {"binary", "bytes"} THEN <<"plain", b>>
             ELSE IF a \in Code /\ b = "binary" THEN <<"text", "binary">>
             ELSE IF a = "yaml" /\ b = "bytes" THEN <<"text", "bytes">>
             ELSE IF a \in Three /\ b = "text" THEN <<"plain", "text">>
             ELSE <<a, b>>
BY DEF Equivalent, Three, Scalar, Code, TextSubtype

LEMMA EquivalentCases ==
    ASSUME NEW a, NEW b, NEW e, e = Equivalent(<<a, b>>)
    PROVE  /\ a \in TextSubtype /\ b \in {"str", "mixed"} => e = <<"text", "str">>
           /\ a \in Code /\ b = "plain" => e = <<"text", "str">>
           /\ a = "text" /\ b = "mixed" => e = <<"text", "str">>
           /\ a = "str" /\ b \in TextSubtype => e = <<"str", "text">>
           /\ a \in Code /\ b = "bytes" => e = <<a, "text">>
           /\ a \in Scalar /\ b = "mixed" => e = <<a, "plain">>
           /\ a \in Scalar /\ b \in {"binary", "bytes"} => e = <<"plain", b>>
           /\ a \in Code /\ b = "binary" => e = <<"text", "binary">>
           /\ a = "yaml" /\ b = "bytes" => e = <<"text", "bytes">>
           /\ a \in Three /\ b = "text" => e = <<"plain", "text">>
<1>1. PICK str, text, code, scalar, plain, array, yaml, three, self :
        /\ str = <<"text", "str">> /\ text = <<"str", "text">> /\ code = <<a, "text">>
        /\ scalar = <<a, "plain">> /\ plain = <<"plain", b>> /\ array = <<"text", "binary">>
        /\ yaml = <<"text", "bytes">> /\ three = <<"plain", "text">> /\ self = <<a, b>>
  OBVIOUS
<1>2. e = IF \/ a \in TextSubtype /\ b \in {"str", "mixed"}
             \/ a \in Code /\ b = "plain"
             \/ a = "text" /\ b = "mixed" THEN str
          ELSE IF a = "str" /\ b \in TextSubtype THEN text
          ELSE IF a \in Code /\ b = "bytes" THEN code
          ELSE IF a \in Scalar /\ b = "mixed" THEN scalar
          ELSE IF a \in Scalar /\ b \in {"binary", "bytes"} THEN plain
          ELSE IF a \in Code /\ b = "binary" THEN array
          ELSE IF a = "yaml" /\ b = "bytes" THEN yaml
          ELSE IF a \in Three /\ b = "text" THEN three
          ELSE self
  BY <1>1, EquivalentOf
<1>3. /\ a \in TextSubtype /\ b \in {"str", "mixed"} => e = str
      /\ a \in Code /\ b = "plain" => e = str
      /\ a = "text" /\ b = "mixed" => e = str
      /\ a = "str" /\ b \in TextSubtype => e = text
      /\ a \in Code /\ b = "bytes" => e = code
      /\ a \in Scalar /\ b = "mixed" => e = scalar
      /\ a \in Scalar /\ b \in {"binary", "bytes"} => e = plain
      /\ a \in Code /\ b = "binary" => e = array
      /\ a = "yaml" /\ b = "bytes" => e = yaml
      /\ a \in Three /\ b = "text" => e = three
  BY <1>2 DEF TextSubtype, Code, Scalar, Three
<1> QED BY <1>1, <1>3

LEMMA ViaOf ==
    ASSUME NEW a, NEW b
    PROVE  Via(<<a, b>>) =
             IF a \in {"mixed", "binary"} /\ b = "text" THEN "plain"
             ELSE IF a \in {"mixed", "binary", "bytes"} /\ b \in TextSubtype THEN "text"
             ELSE IF a = "bytes" /\ b \in Scalar THEN "plain"
             ELSE IF a = "binary" /\ b = "str" THEN "bytes"
             ELSE IF a = "plain" /\ b \in Code THEN "text"
             ELSE IF a = "text" /\ b = "binary" THEN "mixed"
             ELSE IF a = "text" /\ b \in Three THEN "plain"
             ELSE IF a = "yaml" /\ b \in {"binary"} \union Three THEN "plain"
             ELSE IF a \in Three /\ b = "yaml" THEN "plain"
             ELSE "none"
BY DEF Via, Three, Scalar, Code, TextSubtype

\* The conversions that are not made of others.
Basic(a, b) == Equivalent(<<a, b>>) = <<a, b>> /\ Via(<<a, b>>) = "none"

LEMMA BasicIs ==
    ASSUME NEW a, NEW b,
           \/ a = "text" /\ b \in {"str", "bytes", "plain"} \union TextSubtype
           \/ a = "plain" /\ b \in {"text", "binary", "bytes", "yaml"} \union Scalar
           \/ a = "mixed" /\ b \in {"plain", "binary"}
           \/ a = "binary" /\ b \in {"plain", "bytes"}
           \/ a = "bytes" /\ b \in {"text", "plain"}
           \/ a = "yaml" /\ b = "plain"
           \/ a = "str" /\ b = "text"
           \/ a \in TextSubtype /\ b = "text"
           \/ a \in Scalar /\ b = "plain"
    PROVE  Basic(a, b)
<1>1. /\ ~(a \in TextSubtype /\ b \in {"str", "mixed"})
      /\ ~(a \in Code /\ b \in {"plain", "bytes", "binary"})
      /\ ~(a = "text" /\ b = "mixed") /\ ~(a = "str" /\ b \in TextSubtype)
      /\ ~(a \in Scalar /\ b \in {"mixed", "binary", "bytes"})
      /\ ~(a = "yaml" /\ b = "bytes") /\ ~(a \in Three /\ b = "text")
  BY DEF Code, TextSubtype, Scalar, Three
<1>3. Equivalent(<<a, b>>) = <<a, b>>
  BY <1>1, EquivalentOf
<1>2. Via(<<a, b>>) = "none"
  BY ViaOf DEF Code, TextSubtype, Scalar, Three
<1> QED BY <1>2, <1>3 DEF Basic

\* A conversion is made of basic ones, of these four, or of text to binary,
\* which is made of the former.
Simple(a, b) ==
    \/ a \in {"mixed", "binary"} /\ b = "text"
    \/ a = "bytes" /\ b = "str"
    \/ a = "text" /\ b = "mixed"

LEMMA SimpleIs ==
    ASSUME NEW a, NEW b, Simple(a, b)
    PROVE  \/ a = "text" /\ Equivalent(<<a, b>>) = <<"text", "str">>
           \/ /\ a # "text" /\ Equivalent(<<a, b>>) = <<a, b>> /\ Via(<<a, b>>) = "plain"
              /\ Basic(a, "plain") /\ Basic("plain", b)
<1>1. CASE a = "text"
  BY <1>1, EquivalentOf DEF Code, TextSubtype, Simple
<1>2. CASE a # "text"
  <2>3. /\ a \notin TextSubtype /\ a \notin Scalar /\ a \notin Code /\ a \notin Three
        /\ a \notin {"yaml", "str", "text"}
    BY <1>2 DEF Code, TextSubtype, Scalar, Three, Simple
  <2>4. Equivalent(<<a, b>>) = <<a, b>>
    BY <1>2, <2>3, EquivalentOf
  <2>5. Via(<<a, b>>) = "plain"
    <3>1. CASE a = "bytes" /\ b = "str"
      BY <3>1, ViaOf DEF Code, TextSubtype, Scalar
    <3>2. CASE a \in {"mixed", "binary"} /\ b = "text"
      BY <3>2, ViaOf
    <3> QED BY <1>2, <3>1, <3>2 DEF Simple
  <2>1. Equivalent(<<a, b>>) = <<a, b>> /\ Via(<<a, b>>) = "plain"
    BY <2>4, <2>5
  <2>2. Basic(a, "plain") /\ Basic("plain", b)
    BY <1>2, BasicIs DEF Simple, Scalar
  <2> QED BY <1>2, <2>1, <2>2
<1> QED BY <1>1, <1>2

\* What a conversion stands for, and what it is made of.
LEMMA EquivalentBasic ==
    ASSUME NEW a \in Celltype, NEW b \in Celltype, a # b, Equivalent(<<a, b>>) # <<a, b>>
    PROVE  \E x \in Celltype, y \in Celltype :
              /\ x # y /\ Equivalent(<<a, b>>) = <<x, y>>
              /\ Basic(x, y) \/ (a \in Code /\ b = "binary" /\ x = "text" /\ y = "binary")
<1> DEFINE Goal(x, y) == 
              /\ x # y /\ Equivalent(<<a, b>>) = <<x, y>>
              /\ Basic(x, y) \/ (a \in Code /\ b = "binary" /\ x = "text" /\ y = "binary")
<1>1. {"text", "str", "plain", "bytes", "binary"} \union Code \union Scalar \subseteq Celltype
  BY DEF Celltype, Code, Scalar
<1>2. CASE a \in Code /\ b = "binary"
  <2>1. Equivalent(<<a, b>>) = <<"text", "binary">>
    BY <1>2, EquivalentCases
  <2> QED BY <1>1, <1>2, <2>1
<1>3. CASE \/ a \in TextSubtype /\ b \in {"str", "mixed"}
           \/ a \in Code /\ b = "plain"
           \/ a = "text" /\ b = "mixed"
  <2>1. Equivalent(<<a, b>>) = <<"text", "str">>
    BY <1>3, EquivalentCases
  <2>2. Basic("text", "str")
    BY BasicIs
  <2> QED BY <1>1, <2>1, <2>2
<1>4. CASE a = "str" /\ b \in TextSubtype
  <2>1. Equivalent(<<a, b>>) = <<"str", "text">>
    BY <1>4, EquivalentCases
  <2>2. Basic("str", "text")
    BY BasicIs
  <2> QED BY <1>1, <2>1, <2>2
<1>5. CASE a \in Code /\ b = "bytes"
  <2>1. Equivalent(<<a, b>>) = <<a, "text">>
    BY <1>5, EquivalentCases
  <2>2. Basic(a, "text") /\ a # "text"
    BY <1>5, BasicIs DEF TextSubtype, Code
  <2> QED BY <1>1, <2>1, <2>2
<1>6. CASE a \in Scalar /\ b = "mixed"
  <2>1. Equivalent(<<a, b>>) = <<a, "plain">>
    BY <1>6, EquivalentCases
  <2>2. Basic(a, "plain") /\ a # "plain"
    BY <1>6, BasicIs DEF Scalar
  <2> QED BY <1>1, <2>1, <2>2
<1>7. CASE a \in Scalar /\ b \in {"binary", "bytes"}
  <2>1. Equivalent(<<a, b>>) = <<"plain", b>>
    BY <1>7, EquivalentCases
  <2>2. Basic("plain", b) /\ b # "plain"
    BY <1>7, BasicIs
  <2> QED BY <1>1, <2>1, <2>2
<1>8. CASE a = "yaml" /\ b = "bytes"
  <2>1. Equivalent(<<a, b>>) = <<"text", "bytes">>
    BY <1>8, EquivalentCases
  <2>2. Basic("text", "bytes")
    BY BasicIs
  <2> QED BY <1>1, <2>1, <2>2
<1>9. CASE a \in Three /\ b = "text"
  <2>1. Equivalent(<<a, b>>) = <<"plain", "text">>
    BY <1>9, EquivalentCases
  <2>2. Basic("plain", "text")
    BY BasicIs
  <2> QED BY <1>1, <2>1, <2>2
<1> QED BY <1>2, <1>3, <1>4, <1>5, <1>6, <1>7, <1>8, <1>9, EquivalentOf

LEMMA ViaBasic ==
    ASSUME NEW a \in Celltype, NEW b \in Celltype, a # b,
           Equivalent(<<a, b>>) = <<a, b>>, NEW mid, mid = Via(<<a, b>>), mid # "none"
    PROVE  /\ mid \in Celltype /\ a # mid /\ mid # b
           /\ Basic(a, mid) \/ (~Simple(a, b) /\ Simple(a, mid))
           /\ Basic(mid, b) \/ (~Simple(a, b) /\ Simple(mid, b))
<1>1. mid \in {"plain", "text", "bytes", "mixed"} /\ mid \in Celltype
  BY ViaOf DEF Celltype
<1>2. CASE a \in {"mixed", "binary"} /\ b = "text"
  <2>1. mid = "plain"
    BY <1>2, ViaOf
  <2>2. Basic(a, mid) /\ Basic(mid, b)
    BY <1>2, <2>1, BasicIs
  <2> QED BY <1>1, <1>2, <2>1, <2>2
<1>3. CASE a \in {"mixed", "binary", "bytes"} /\ b \in TextSubtype
  <2>1. mid = "text" /\ b # "text"
    BY <1>3, ViaOf DEF TextSubtype, Code
  <2>2. Basic(mid, b)
    BY <1>3, <2>1, BasicIs
  <2>3. Basic(a, mid) \/ (~Simple(a, b) /\ Simple(a, mid))
    BY <1>3, <2>1, BasicIs DEF Simple, TextSubtype, Code
  <2> QED BY <1>1, <1>3, <2>1, <2>2, <2>3
<1>4. CASE a = "bytes" /\ b \in Scalar
  <2>1. mid = "plain" /\ b # "plain"
    BY <1>4, ViaOf DEF TextSubtype, Code, Scalar
  <2>2. Basic(a, mid) /\ Basic(mid, b)
    BY <1>4, <2>1, BasicIs
  <2> QED BY <1>1, <1>4, <2>1, <2>2
<1>5. CASE a = "binary" /\ b = "str"
  <2>1. mid = "bytes"
    BY <1>5, ViaOf DEF TextSubtype, Code, Scalar
  <2>2. Basic(a, mid) /\ Simple(mid, b) /\ ~Simple(a, b)
    BY <1>5, <2>1, BasicIs DEF Simple
  <2> QED BY <1>1, <1>5, <2>1, <2>2
<1>6. CASE a = "plain" /\ b \in Code
  <2>1. mid = "text" /\ b # "text"
    BY <1>6, ViaOf DEF TextSubtype, Code, Scalar
  <2>2. Basic(a, mid) /\ Basic(mid, b)
    BY <1>6, <2>1, BasicIs DEF TextSubtype
  <2> QED BY <1>1, <1>6, <2>1, <2>2
<1>7. CASE a = "text" /\ b = "binary"
  <2>1. mid = "mixed"
    BY <1>7, ViaOf DEF TextSubtype, Code, Scalar
  <2>2. Simple(a, mid) /\ Basic(mid, b) /\ ~Simple(a, b)
    BY <1>7, <2>1, BasicIs DEF Simple
  <2> QED BY <1>1, <1>7, <2>1, <2>2
<1>8. CASE a \in {"text"} \union TextSubtype /\ b \in {"binary"} \union Three /\ ~(a = "text" /\ b = "binary")
  <2>1. mid = "plain" /\ a \in {"text", "yaml"}
    BY <1>8, ViaOf DEF TextSubtype, Code, Scalar, Three
  <2>2. Basic(a, mid) /\ Basic(mid, b) /\ b # "plain"
    BY <1>8, <2>1, BasicIs DEF Three, Scalar
  <2> QED BY <1>1, <1>8, <2>1, <2>2
<1>9. CASE a \in Three /\ b = "yaml"
  <2>1. mid = "plain" /\ a # "plain"
    BY <1>9, ViaOf DEF TextSubtype, Code, Scalar, Three
  <2>2. Basic(a, mid) /\ Basic(mid, b)
    BY <1>9, <2>1, BasicIs DEF Three, Scalar
  <2> QED BY <1>1, <1>9, <2>1, <2>2
<1> QED BY <1>2, <1>3, <1>4, <1>5, <1>6, <1>7, <1>8, <1>9, ViaOf DEF TextSubtype

\* One step of the recursion of Route.
RouteOf(f, conv) ==
    IF Equivalent(conv) # conv THEN f[Equivalent(conv)]
    ELSE IF Via(conv) # "none" THEN f[<<conv[1], Via(conv)>>] \o f[<<Via(conv), conv[2]>>]
    ELSE <<conv>>

Routed(f) == [conv \in Conversion |-> RouteOf(f, conv)]

\* Two functions agree on the basic conversions, on the simple ones as well,
\* and on text to binary as well.
AgreeBasic(f, g) ==
    \A x, y \in Celltype : x # y /\ Basic(x, y) => f[<<x, y>>] = g[<<x, y>>]
AgreeSimple(f, g) ==
    \A x, y \in Celltype : x # y /\ Simple(x, y) => f[<<x, y>>] = g[<<x, y>>]
AgreeText(f, g) == f[<<"text", "binary">>] = g[<<"text", "binary">>]

LEMMA RoutedAt ==
    ASSUME NEW f, NEW a \in Celltype, NEW b \in Celltype, a # b
    PROVE  Routed(f)[<<a, b>>] = RouteOf(f, <<a, b>>)
BY PairIs DEF Routed

LEMMA RoutedAgree ==
    ASSUME NEW f, NEW g
    PROVE  /\ AgreeBasic(Routed(f), Routed(g))
           /\ AgreeBasic(f, g) => AgreeSimple(Routed(f), Routed(g))
           /\ AgreeBasic(f, g) /\ AgreeSimple(f, g) => AgreeText(Routed(f), Routed(g))
           /\ AgreeBasic(f, g) /\ AgreeSimple(f, g) /\ AgreeText(f, g) => Routed(f) = Routed(g)
<1>1. ASSUME NEW a \in Celltype, NEW b \in Celltype, a # b
      PROVE  /\ Basic(a, b) => RouteOf(f, <<a, b>>) = RouteOf(g, <<a, b>>)
             /\ AgreeBasic(f, g) /\ Simple(a, b) => RouteOf(f, <<a, b>>) = RouteOf(g, <<a, b>>)
             /\ AgreeBasic(f, g) /\ AgreeSimple(f, g) /\ a = "text" /\ b = "binary" =>
                  RouteOf(f, <<a, b>>) = RouteOf(g, <<a, b>>)
             /\ AgreeBasic(f, g) /\ AgreeSimple(f, g) /\ AgreeText(f, g) =>
                  RouteOf(f, <<a, b>>) = RouteOf(g, <<a, b>>)
  <2>1. CASE Equivalent(<<a, b>>) # <<a, b>>
    <3>1. PICK x \in Celltype, y \in Celltype :
              /\ x # y /\ Equivalent(<<a, b>>) = <<x, y>>
              /\ Basic(x, y) \/ (a \in Code /\ b = "binary" /\ x = "text" /\ y = "binary")
      BY <1>1, <2>1, EquivalentBasic
    <3>2. RouteOf(f, <<a, b>>) = f[<<x, y>>] /\ RouteOf(g, <<a, b>>) = g[<<x, y>>]
      BY <2>1, <3>1 DEF RouteOf
    <3>3. AgreeBasic(f, g) /\ Basic(x, y) => f[<<x, y>>] = g[<<x, y>>]
      BY <3>1 DEF AgreeBasic
    <3>4. AgreeText(f, g) /\ x = "text" /\ y = "binary" => f[<<x, y>>] = g[<<x, y>>]
      BY DEF AgreeText
    <3>5. a = "text" /\ b = "binary" => Equivalent(<<a, b>>) = <<a, b>>
      BY EquivalentOf DEF Code, TextSubtype, Scalar, Three
    <3>6. ~Basic(a, b)
      BY <2>1 DEF Basic
    <3>7. a \in Code /\ b = "binary" => ~Simple(a, b) /\ a # "text"
      BY DEF Simple, Code
    <3> QED BY <2>1, <3>1, <3>2, <3>3, <3>4, <3>5, <3>6, <3>7
  <2>2. CASE Equivalent(<<a, b>>) = <<a, b>> /\ Via(<<a, b>>) # "none"
    <3>1. PICK mid : mid = Via(<<a, b>>)
      OBVIOUS
    <3>2. /\ mid \in Celltype /\ a # mid /\ mid # b
          /\ Basic(a, mid) \/ (~Simple(a, b) /\ Simple(a, mid))
          /\ Basic(mid, b) \/ (~Simple(a, b) /\ Simple(mid, b))
      BY <1>1, <2>2, <3>1, ViaBasic
    <3>3. /\ RouteOf(f, <<a, b>>) = f[<<a, mid>>] \o f[<<mid, b>>]
          /\ RouteOf(g, <<a, b>>) = g[<<a, mid>>] \o g[<<mid, b>>]
      BY <2>2, <3>1 DEF RouteOf
    <3>4. AgreeBasic(f, g) =>
             /\ Basic(a, mid) => f[<<a, mid>>] = g[<<a, mid>>]
             /\ Basic(mid, b) => f[<<mid, b>>] = g[<<mid, b>>]
      BY <3>2 DEF AgreeBasic
    <3>5. AgreeSimple(f, g) =>
             /\ Simple(a, mid) => f[<<a, mid>>] = g[<<a, mid>>]
             /\ Simple(mid, b) => f[<<mid, b>>] = g[<<mid, b>>]
      BY <3>2 DEF AgreeSimple
    <3>6. ~Basic(a, b)
      BY <2>2 DEF Basic
    <3> QED BY <3>2, <3>3, <3>4, <3>5, <3>6
  <2>3. CASE Equivalent(<<a, b>>) = <<a, b>> /\ Via(<<a, b>>) = "none"
    BY <2>3 DEF RouteOf
  <2> QED BY <2>1, <2>2, <2>3
<1>2. AgreeBasic(Routed(f), Routed(g))
  <2>1. ASSUME NEW a \in Celltype, NEW b \in Celltype, a # b, Basic(a, b)
        PROVE  Routed(f)[<<a, b>>] = Routed(g)[<<a, b>>]
    <3>1. RouteOf(f, <<a, b>>) = RouteOf(g, <<a, b>>)
      BY <1>1, <2>1
    <3> QED BY <2>1, <3>1, RoutedAt
  <2> QED BY <2>1 DEF AgreeBasic
<1>3. ASSUME AgreeBasic(f, g) PROVE AgreeSimple(Routed(f), Routed(g))
  <2>1. ASSUME NEW a \in Celltype, NEW b \in Celltype, a # b, Simple(a, b)
        PROVE  Routed(f)[<<a, b>>] = Routed(g)[<<a, b>>]
    <3>1. RouteOf(f, <<a, b>>) = RouteOf(g, <<a, b>>)
      BY <1>1, <1>3, <2>1
    <3> QED BY <2>1, <3>1, RoutedAt
  <2> QED BY <2>1 DEF AgreeSimple
<1>4. ASSUME AgreeBasic(f, g), AgreeSimple(f, g) PROVE AgreeText(Routed(f), Routed(g))
  <2>1. "text" \in Celltype /\ "binary" \in Celltype
    BY DEF Celltype
  <2>2. \A a, b \in Celltype : a = "text" /\ b = "binary" =>
           Routed(f)[<<a, b>>] = Routed(g)[<<a, b>>]
    BY <1>1, <1>4, RoutedAt
  <2> QED BY <2>1, <2>2 DEF AgreeText
<1>5. ASSUME AgreeBasic(f, g), AgreeSimple(f, g), AgreeText(f, g) PROVE Routed(f) = Routed(g)
  <2>1. ASSUME NEW conv \in Conversion PROVE RouteOf(f, conv) = RouteOf(g, conv)
    <3>1. PICK a \in Celltype, b \in Celltype : conv = <<a, b>> /\ a # b
      BY PairsOf
    <3> QED BY <1>1, <1>5, <3>1
  <2> QED BY <2>1 DEF Routed
<1> QED BY <1>2, <1>3, <1>4, <1>5

LEMMA RouteIs ==
    ASSUME NEW conv \in Conversion
    PROVE  Route[conv] = RouteOf(Route, conv)
<1>1. Route = CHOOSE f : f = Routed(f)
  BY DEF Route, Routed, RouteOf
<1>2. \E f : f = Routed(f)
  <2>1. PICK f0, f1, f2, f3, f4 :
          f1 = Routed(f0) /\ f2 = Routed(f1) /\ f3 = Routed(f2) /\ f4 = Routed(f3)
    OBVIOUS
  <2>2. AgreeBasic(f1, f2) /\ AgreeBasic(f2, f3) /\ AgreeBasic(f3, f4)
    BY <2>1, RoutedAgree
  <2>3. AgreeSimple(f2, f3) /\ AgreeSimple(f3, f4)
    BY <2>1, <2>2, RoutedAgree
  <2>4. AgreeText(f3, f4)
    BY <2>1, <2>2, <2>3, RoutedAgree
  <2>5. Routed(f3) = Routed(f4)
    BY <2>2, <2>3, <2>4, RoutedAgree
  <2> QED BY <2>1, <2>5
<1>3. Route = Routed(Route)
  BY <1>1, <1>2
<1> QED BY <1>3 DEF Routed

\* The routes of which feasibility is decided before the conversion runs.
LEMMA RouteBasic ==
    ASSUME NEW a \in Celltype, NEW b \in Celltype, a # b, Basic(a, b)
    PROVE  Route[<<a, b>>] = <<<<a, b>>>>
BY PairIs, RouteIs DEF RouteOf, Basic

LEMMA RouteVia ==
    ASSUME NEW a \in Celltype, NEW b \in Celltype, a # b,
           Equivalent(<<a, b>>) = <<a, b>>, NEW mid, mid = Via(<<a, b>>), mid # "none"
    PROVE  Route[<<a, b>>] = Route[<<a, mid>>] \o Route[<<mid, b>>]
BY PairIs, RouteIs DEF RouteOf

-----------------------------------------------------------------------------
(* Feasibility *)

\* One step of the recursion of ConversionFeasible, given what it is for the
\* two halves of a chain.
FeasibleOf(word, c, pair, first, second) ==
    IF Equivalent(pair) \in Forbidden THEN "False"
    ELSE IF IsNull(c) THEN "True"
    ELSE IF DeserializableAs(word, pair[1], c) = "False" THEN "False"
    ELSE IF pair[2] = "checksum" THEN "True"
    ELSE IF Via(Equivalent(pair)) # "none"
         THEN ChainFeasible(first, second, Equivalent(<<pair[1], Via(Equivalent(pair))>>),
                            Equivalent(<<Via(Equivalent(pair)), pair[2]>>))
    ELSE IF Equivalent(pair) \in Trivial \union Reformatted THEN "True"
    ELSE IF Equivalent(pair) \in Reinterpreted THEN DeserializableAs(word, pair[2], c)
    ELSE IF IsUntested(Unpack(word)) THEN "None"
    ELSE IF Equivalent(pair) \in Possible THEN PossibleFeasible(Unpack(word), pair)
    ELSE ValueFeasible(Unpack(word), pair)

Feasibles(f, word, c) ==
    [pair \in Conversion |->
        FeasibleOf(word, c, pair, f[<<pair[1], Via(Equivalent(pair))>>],
                   f[<<Via(Equivalent(pair)), pair[2]>>])]

\* Conversions that are no chain, and the chains that are half of another one.
Direct(a, b) == Via(Equivalent(<<a, b>>)) = "none"
Half(a, b) == (a \in {"mixed", "binary"} /\ b = "text") \/ (a = "bytes" /\ b = "str")

LEMMA ChainHalves ==
    ASSUME NEW a \in Celltype, NEW b \in Celltype, a # b,
           NEW mid, mid = Via(Equivalent(<<a, b>>)), mid # "none"
    PROVE  /\ mid \in Celltype /\ a # mid /\ mid # b
           /\ Direct(a, mid) \/ (~Half(a, b) /\ Half(a, mid))
           /\ Direct(mid, b) \/ (~Half(a, b) /\ Half(mid, b))
<1>1. ASSUME NEW x, NEW y, Basic(x, y)
      PROVE  Direct(x, y)
  BY <1>1 DEF Basic, Direct
<1>2. ASSUME NEW x \in TextSubtype \union {"text"}
      PROVE  Direct(x, "mixed")
  <2>1. Equivalent(<<x, "mixed">>) = <<"text", "str">>
    BY <1>2, EquivalentOf
  <2>2. Basic("text", "str")
    BY BasicIs
  <2> QED BY <2>1, <2>2 DEF Basic, Direct
<1>3. CASE Equivalent(<<a, b>>) = <<a, b>>
  <2>1. /\ mid \in Celltype /\ a # mid /\ mid # b
        /\ Basic(a, mid) \/ (~Simple(a, b) /\ Simple(a, mid))
        /\ Basic(mid, b) \/ (~Simple(a, b) /\ Simple(mid, b))
    BY <1>3, ViaBasic
  <2>2. \A x, y : Simple(x, y) => Half(x, y) \/ Direct(x, y)
    BY <1>2 DEF Simple, Half
  <2>3. ~Simple(a, b) => ~Half(a, b)
    BY DEF Simple, Half
  <2> QED BY <1>1, <2>1, <2>2, <2>3
<1>4. CASE Equivalent(<<a, b>>) # <<a, b>>
  <2>1. PICK x \in Celltype, y \in Celltype :
            /\ Equivalent(<<a, b>>) = <<x, y>>
            /\ Basic(x, y) \/ (a \in Code /\ b = "binary" /\ x = "text" /\ y = "binary")
    BY <1>4, EquivalentBasic
  <2>2. x = "text" /\ y = "binary"
    BY <2>1 DEF Basic
  <2>3. Equivalent(<<a, b>>) = <<"text", "binary">>
    BY <2>1, <2>2
  <2>4. a \in Code /\ b = "binary"
    BY <2>1 DEF Basic
  <2>5. mid = "mixed"
    BY <2>3, ViaOf DEF Code, TextSubtype, Scalar
  <2>6. Direct(a, mid)
    BY <1>2, <2>4, <2>5 DEF TextSubtype
  <2>7. Direct(mid, b)
    BY <1>1, <2>4, <2>5, BasicIs
  <2> QED BY <2>4, <2>5, <2>6, <2>7 DEF Code, Celltype
<1> QED BY <1>3, <1>4

AgreeDirect(f, g) ==
    \A x, y \in Celltype : x # y /\ Direct(x, y) => f[<<x, y>>] = g[<<x, y>>]
AgreeHalf(f, g) ==
    \A x, y \in Celltype : x # y /\ Half(x, y) => f[<<x, y>>] = g[<<x, y>>]

LEMMA FeasiblesAgree ==
    ASSUME NEW f, NEW g, NEW word, NEW c
    PROVE  /\ AgreeDirect(Feasibles(f, word, c), Feasibles(g, word, c))
           /\ AgreeDirect(f, g) => AgreeHalf(Feasibles(f, word, c), Feasibles(g, word, c))
           /\ AgreeDirect(f, g) /\ AgreeHalf(f, g) => Feasibles(f, word, c) = Feasibles(g, word, c)
<1> DEFINE Step(h, a, b) ==
        FeasibleOf(word, c, <<a, b>>, h[<<a, Via(Equivalent(<<a, b>>))>>],
                   h[<<Via(Equivalent(<<a, b>>)), b>>])
<1>1. ASSUME NEW a \in Celltype, NEW b \in Celltype, a # b
      PROVE  /\ Direct(a, b) => Step(f, a, b) = Step(g, a, b)
             /\ AgreeDirect(f, g) /\ Half(a, b) => Step(f, a, b) = Step(g, a, b)
             /\ AgreeDirect(f, g) /\ AgreeHalf(f, g) => Step(f, a, b) = Step(g, a, b)
  <2>1. CASE Direct(a, b)
    <3>1. ASSUME NEW p, NEW q, NEW r, NEW s
          PROVE  FeasibleOf(word, c, <<a, b>>, p, q) = FeasibleOf(word, c, <<a, b>>, r, s)
      BY <2>1 DEF FeasibleOf, Direct
    <3> QED BY <3>1
  <2>2. CASE ~Direct(a, b)
    <3>1. PICK mid : mid = Via(Equivalent(<<a, b>>))
      OBVIOUS
    <3>2. /\ mid \in Celltype /\ a # mid /\ mid # b
          /\ Direct(a, mid) \/ (~Half(a, b) /\ Half(a, mid))
          /\ Direct(mid, b) \/ (~Half(a, b) /\ Half(mid, b))
      BY <1>1, <2>2, <3>1, ChainHalves DEF Direct
    <3>3. AgreeDirect(f, g) =>
             /\ Direct(a, mid) => f[<<a, mid>>] = g[<<a, mid>>]
             /\ Direct(mid, b) => f[<<mid, b>>] = g[<<mid, b>>]
      BY <3>2 DEF AgreeDirect
    <3>4. AgreeHalf(f, g) =>
             /\ Half(a, mid) => f[<<a, mid>>] = g[<<a, mid>>]
             /\ Half(mid, b) => f[<<mid, b>>] = g[<<mid, b>>]
      BY <3>2 DEF AgreeHalf
    <3>5. f[<<a, mid>>] = g[<<a, mid>>] /\ f[<<mid, b>>] = g[<<mid, b>>] =>
             Step(f, a, b) = Step(g, a, b)
      BY <3>1
    <3> HIDE DEF Step
    <3> QED BY <2>2, <3>2, <3>3, <3>4, <3>5
  <2> QED BY <2>1, <2>2
<1>2. ASSUME NEW h, NEW a \in Celltype, NEW b \in Celltype, a # b
      PROVE  Feasibles(h, word, c)[<<a, b>>] = Step(h, a, b)
  BY <1>2, PairIs DEF Feasibles
<1> HIDE DEF Step
<1>3. AgreeDirect(Feasibles(f, word, c), Feasibles(g, word, c))
  <2>1. ASSUME NEW a \in Celltype, NEW b \in Celltype, a # b, Direct(a, b)
        PROVE  Feasibles(f, word, c)[<<a, b>>] = Feasibles(g, word, c)[<<a, b>>]
    <3>1. Step(f, a, b) = Step(g, a, b)
      BY <1>1, <2>1
    <3> QED BY <1>2, <2>1, <3>1
  <2> QED BY <2>1 DEF AgreeDirect
<1>4. ASSUME AgreeDirect(f, g) PROVE AgreeHalf(Feasibles(f, word, c), Feasibles(g, word, c))
  <2>1. ASSUME NEW a \in Celltype, NEW b \in Celltype, a # b, Half(a, b)
        PROVE  Feasibles(f, word, c)[<<a, b>>] = Feasibles(g, word, c)[<<a, b>>]
    <3>1. Step(f, a, b) = Step(g, a, b)
      BY <1>1, <1>4, <2>1
    <3> QED BY <1>2, <2>1, <3>1
  <2> QED BY <2>1 DEF AgreeHalf
<1>5. ASSUME AgreeDirect(f, g), AgreeHalf(f, g)
      PROVE  Feasibles(f, word, c) = Feasibles(g, word, c)
  <2>1. ASSUME NEW conv \in Conversion
        PROVE  Feasibles(f, word, c)[conv] = Feasibles(g, word, c)[conv]
    <3>1. PICK a \in Celltype, b \in Celltype : conv = <<a, b>> /\ a # b
      BY PairsOf
    <3>2. Step(f, a, b) = Step(g, a, b)
      BY <1>1, <1>5, <3>1
    <3> QED BY <1>2, <3>1, <3>2
  <2>2. ASSUME NEW h PROVE Feasibles(h, word, c) = [conv \in Conversion |-> Feasibles(h, word, c)[conv]]
    BY DEF Feasibles
  <2>3. /\ Feasibles(f, word, c) = [conv \in Conversion |-> Feasibles(f, word, c)[conv]]
        /\ Feasibles(g, word, c) = [conv \in Conversion |-> Feasibles(g, word, c)[conv]]
    BY <2>2
  <2> QED BY <2>1, <2>3
<1> QED BY <1>3, <1>4, <1>5

LEMMA FeasibleIs ==
    ASSUME NEW word, NEW c, NEW a \in Celltype, NEW b \in Celltype, a # b,
           NEW mid, mid = Via(Equivalent(<<a, b>>))
    PROVE  ConversionFeasible(word, <<a, b>>, c) =
             FeasibleOf(word, c, <<a, b>>, ConversionFeasible(word, <<a, mid>>, c),
                        ConversionFeasible(word, <<mid, b>>, c))
<1> DEFINE F == CHOOSE f : f = Feasibles(f, word, c)
<1>1. ASSUME NEW conv PROVE ConversionFeasible(word, conv, c) = F[conv]
  BY DEF ConversionFeasible, Feasibles, FeasibleOf
<1>2. \E f : f = Feasibles(f, word, c)
  <2>1. PICK f0, f1, f2, f3 :
          /\ f1 = Feasibles(f0, word, c) /\ f2 = Feasibles(f1, word, c)
          /\ f3 = Feasibles(f2, word, c)
    OBVIOUS
  <2>2. AgreeDirect(f1, f2) /\ AgreeDirect(f2, f3)
    BY <2>1, FeasiblesAgree
  <2>3. AgreeHalf(f2, f3)
    BY <2>1, <2>2, FeasiblesAgree
  <2>4. Feasibles(f2, word, c) = Feasibles(f3, word, c)
    BY <2>2, <2>3, FeasiblesAgree
  <2> QED BY <2>1, <2>4
<1>3. F = Feasibles(F, word, c)
  BY <1>2
<1> HIDE DEF F
<1>4. F[<<a, b>>] = FeasibleOf(word, c, <<a, b>>, F[<<a, mid>>], F[<<mid, b>>])
  BY <1>3, PairIs DEF Feasibles
<1> QED BY <1>1, <1>4

\* The tables that feasibility is decided by.
LEMMA TrivialIs ==
    ASSUME NEW a, NEW b
    PROVE  <<a, b>> \in Trivial <=>
             \/ a = "text" /\ b = "bytes"
             \/ a \in Code /\ b = "text"
             \/ a = "python" /\ b = "ipython"
             \/ a = "yaml" /\ b = "text"
             \/ a = "plain" /\ b \in {"yaml", "bytes", "mixed"}
             \/ a = "binary" /\ b = "mixed"
             \/ a = "int" /\ b = "float"
             \/ a = "float" /\ b = "int"
             \/ a \in Scalar /\ b = "plain"
             \/ a \in Three /\ b = "str"
BY DEF Trivial, Code, Three

LEMMA ReinterpretedIs ==
    ASSUME NEW a, NEW b
    PROVE  <<a, b>> \in Reinterpreted <=>
             /\ <<b, a>> \in Trivial /\ <<a, b>> \notin Trivial
             /\ ~(a = "ipython" /\ b = "python") /\ ~(a = "yaml" /\ b = "plain")
<1>1. <<a, b>> \in {<<conv[2], conv[1]>> : conv \in Trivial} <=> <<b, a>> \in Trivial
  <2>1. <<b, a>> \in Trivial => <<a, b>> \in {<<conv[2], conv[1]>> : conv \in Trivial}
    OBVIOUS
  <2>2. ASSUME NEW conv \in Trivial, <<a, b>> = <<conv[2], conv[1]>>
        PROVE  <<b, a>> \in Trivial
    <3>1. \E x, y : conv = <<x, y>>
      BY <2>2 DEF Trivial, Scalar
    <3>2. conv = <<b, a>>
      BY <2>2, <3>1
    <3> QED BY <2>2, <3>2
  <2> QED BY <2>1, <2>2
<1> QED BY <1>1 DEF Reinterpreted

\* A conversion that is always feasible.
Kept(p) == p \in Trivial \union Reformatted /\ p \notin Forbidden /\ Via(p) = "none"

\* What a conversion stands for.
LEMMA EquivalentSafe ==
    ASSUME NEW a, NEW b, NEW e, e = Equivalent(<<a, b>>), e # <<a, b>>
    PROVE  \/ Kept(e)
           \/ e = <<"plain", "binary">> /\ a \in Scalar /\ b = "binary"
           \/ e = <<"text", "binary">> /\ a \in Code /\ b = "binary"
<1>1. ASSUME NEW x, NEW y,
             \/ x = "text" /\ y \in {"str", "bytes"}
             \/ x = "str" /\ y = "text"
             \/ x \in Code /\ y = "text"
             \/ x \in Scalar /\ y = "plain"
             \/ x = "plain" /\ y \in {"text", "bytes"}
      PROVE  Kept(<<x, y>>)
  <2>1. <<x, y>> \in Trivial \union Reformatted
    BY <1>1, TrivialIs DEF Reformatted
  <2>2. <<x, y>> \notin Forbidden
    BY <1>1 DEF Forbidden, Code, Scalar
  <2>3. Basic(x, y)
    BY <1>1, BasicIs DEF TextSubtype
  <2> QED BY <2>1, <2>2, <2>3 DEF Basic, Kept
<1>2. CASE a \in Code /\ b = "binary"
  <2>1. e = <<"text", "binary">>
    BY <1>2, EquivalentCases
  <2> QED BY <1>2, <2>1
<1>3. CASE \/ a \in TextSubtype /\ b \in {"str", "mixed"}
           \/ a \in Code /\ b = "plain"
           \/ a = "text" /\ b = "mixed"
  <2>1. e = <<"text", "str">>
    BY <1>3, EquivalentCases
  <2>2. Kept(<<"text", "str">>)
    BY <1>1
  <2> QED BY <2>1, <2>2
<1>4. CASE a = "str" /\ b \in TextSubtype
  <2>1. e = <<"str", "text">>
    BY <1>4, EquivalentCases
  <2>2. Kept(<<"str", "text">>)
    BY <1>1
  <2> QED BY <2>1, <2>2
<1>5. CASE a \in Code /\ b = "bytes"
  <2>1. e = <<a, "text">>
    BY <1>5, EquivalentCases
  <2>2. Kept(<<a, "text">>)
    BY <1>5, <1>1
  <2> QED BY <2>1, <2>2
<1>6. CASE a \in Scalar /\ b = "mixed"
  <2>1. e = <<a, "plain">>
    BY <1>6, EquivalentCases
  <2>2. Kept(<<a, "plain">>)
    BY <1>6, <1>1
  <2> QED BY <2>1, <2>2
<1>7. CASE a \in Scalar /\ b \in {"binary", "bytes"}
  <2>1. e = <<"plain", b>>
    BY <1>7, EquivalentCases
  <2>2. b = "bytes" => Kept(<<"plain", b>>)
    BY <1>1
  <2> QED BY <1>7, <2>1, <2>2
<1>8. CASE a = "yaml" /\ b = "bytes"
  <2>1. e = <<"text", "bytes">>
    BY <1>8, EquivalentCases
  <2>2. Kept(<<"text", "bytes">>)
    BY <1>1
  <2> QED BY <2>1, <2>2
<1>9. CASE a \in Three /\ b = "text"
  <2>1. e = <<"plain", "text">>
    BY <1>9, EquivalentCases
  <2>2. Kept(<<"plain", "text">>)
    BY <1>1
  <2> QED BY <2>1, <2>2
<1> QED BY <1>2, <1>3, <1>4, <1>5, <1>6, <1>7, <1>8, <1>9, EquivalentOf

\* A basic conversion that is infeasible.
LEMMA BasicInfeasible ==
    ASSUME NEW word, NEW c, ~IsNull(c), NEW a \in Celltype, NEW b \in Celltype, a # b,
           Basic(a, b), <<a, b>> \notin Forbidden,
           ConversionFeasible(word, <<a, b>>, c) = "False"
    PROVE  \/ DeserializableAs(word, a, c) = "False"
           \/ <<a, b>> \in Reinterpreted /\ DeserializableAs(word, b, c) = "False"
           \/ <<a, b>> \notin Trivial \union Reformatted \union Reinterpreted
                /\ ~IsUntested(Unpack(word)) /\ <<a, b>> \in Possible
                /\ PossibleFeasible(Unpack(word), <<a, b>>) = "False"
           \/ <<a, b>> \notin Trivial \union Reformatted \union Reinterpreted
                /\ ~IsUntested(Unpack(word))
                /\ a = "plain" /\ b = "binary" /\ Unpack(word).kind = Kind.JSON_OBJECT
<1>0. PICK mid : mid = Via(Equivalent(<<a, b>>))
  OBVIOUS
<1>1. PICK first, second :
          ConversionFeasible(word, <<a, b>>, c) = FeasibleOf(word, c, <<a, b>>, first, second)
  <2>1. ConversionFeasible(word, <<a, b>>, c) =
             FeasibleOf(word, c, <<a, b>>, ConversionFeasible(word, <<a, mid>>, c),
                        ConversionFeasible(word, <<mid, b>>, c))
    BY <1>0, FeasibleIs
  <2> QED BY <2>1
<1>2. PICK t : t = Unpack(word)
  OBVIOUS
<1>3. \/ DeserializableAs(word, a, c) = "False"
      \/ <<a, b>> \in Reinterpreted /\ DeserializableAs(word, b, c) = "False"
      \/ <<a, b>> \notin Trivial \union Reformatted \union Reinterpreted
           /\ ~IsUntested(t) /\ <<a, b>> \in Possible /\ PossibleFeasible(t, <<a, b>>) = "False"
      \/ <<a, b>> \notin Trivial \union Reformatted \union Reinterpreted
           /\ ~IsUntested(t) /\ ValueFeasible(t, <<a, b>>) = "False"
  BY <1>1, <1>2 DEF FeasibleOf, Basic
<1>4. ValueFeasible(t, <<a, b>>) = "False" =>
         a = "plain" /\ b = "binary" /\ t.kind = Kind.JSON_OBJECT
  BY DEF ValueFeasible, Perhaps, Surely
<1> QED BY <1>2, <1>3, <1>4

\* A conversion that stands for another one is infeasible only if its source
\* is, unless it is a chain.
LEMMA EquivalentInfeasible ==
    ASSUME NEW word, NEW c, ~IsNull(c), NEW a \in Celltype, NEW b \in Celltype, a # b,
           Equivalent(<<a, b>>) # <<a, b>>, ~(a \in Code /\ b = "binary"),
           ConversionFeasible(word, <<a, b>>, c) = "False"
    PROVE  DeserializableAs(word, a, c) = "False"
<1>0. PICK mid : mid = Via(Equivalent(<<a, b>>))
  OBVIOUS
<1>1. PICK first, second :
          ConversionFeasible(word, <<a, b>>, c) = FeasibleOf(word, c, <<a, b>>, first, second)
  <2>1. ConversionFeasible(word, <<a, b>>, c) =
             FeasibleOf(word, c, <<a, b>>, ConversionFeasible(word, <<a, mid>>, c),
                        ConversionFeasible(word, <<mid, b>>, c))
    BY <1>0, FeasibleIs
  <2> QED BY <2>1
<1>2. PICK e : e = Equivalent(<<a, b>>)
  OBVIOUS
<1>3. CASE Kept(e)
  BY <1>1, <1>2, <1>3 DEF FeasibleOf, Kept
<1>4. CASE e = <<"plain", "binary">> /\ a \in Scalar /\ b = "binary"
  <2>1. Basic("plain", "binary")
    BY BasicIs
  <2>2. e \notin Forbidden \union Trivial \union Reformatted \union Reinterpreted \union Possible
    <3>0. ASSUME NEW x, NEW y, x = "plain", y = "binary"
          PROVE  <<x, y>> \notin Trivial /\ <<x, y>> \notin Reinterpreted
      <4>1. <<x, y>> \notin Trivial /\ <<y, x>> \notin Trivial
        BY <3>0, TrivialIs DEF Code, Three, Scalar
      <4> QED BY <4>1, ReinterpretedIs
    <3>1. <<"plain", "binary">> \notin Trivial /\ <<"plain", "binary">> \notin Reinterpreted
      BY <3>0
    <3>2. <<"plain", "binary">> \notin Forbidden \union Reformatted \union Possible
      BY DEF Forbidden, Reformatted, Possible, Code
    <3> QED BY <1>4, <3>1, <3>2
  <2>3. ValueFeasible(Unpack(word), <<a, b>>) = "None"
    BY <1>4 DEF ValueFeasible, Scalar
  <2> QED BY <1>1, <1>2, <1>4, <2>1, <2>2, <2>3 DEF FeasibleOf, Basic
<1> QED BY <1>2, <1>3, <1>4, EquivalentSafe

\* What a word rules out: a celltype, and a conversion.
Bad(word, c, celltype) == DeserializableAs(word, celltype, c) = "False"
Blocked(word, c, a, b) == ConversionFeasible(word, <<a, b>>, c) = "False"

LEMMA ForbiddenIs ==
    ASSUME NEW a, NEW b
    PROVE  <<a, b>> \in Forbidden =>
             \/ a \in Code /\ b \in {"yaml"} \union Three
             \/ b \in Code /\ a \in {"yaml"} \union Three
BY DEF Forbidden, Three

LEMMA HalfBlocked ==
    ASSUME NEW word, NEW c, ~IsNull(c), NEW a \in Celltype, NEW b \in Celltype, a # b,
           Basic(a, b), <<a, b>> \notin Forbidden, <<a, b>> \notin Possible,
           ~(a = "plain" /\ b = "binary"), Blocked(word, c, a, b)
    PROVE  Bad(word, c, a) \/ (<<a, b>> \in Reinterpreted /\ Bad(word, c, b))
BY BasicInfeasible DEF Bad, Blocked

\* A chain is infeasible for its first half, or because the first half keeps
\* the buffer and the second half is infeasible.
LEMMA ChainBlocked ==
    ASSUME NEW word, NEW c, ~IsNull(c), NEW a \in Celltype, NEW b \in Celltype, a # b,
           NEW mid, mid = Via(Equivalent(<<a, b>>)), mid # "none",
           Equivalent(<<a, b>>) \notin Forbidden, Blocked(word, c, a, b)
    PROVE  \/ Bad(word, c, a) \/ Blocked(word, c, a, mid)
           \/ /\ Equivalent(<<a, mid>>) \in Trivial \union Reinterpreted
              /\ Blocked(word, c, mid, b)
<1>1. PICK first, second :
          /\ first = ConversionFeasible(word, <<a, mid>>, c)
          /\ second = ConversionFeasible(word, <<mid, b>>, c)
  OBVIOUS
<1>2. ConversionFeasible(word, <<a, b>>, c) = FeasibleOf(word, c, <<a, b>>, first, second)
  BY <1>1, FeasibleIs
<1>3. PICK leg1, leg2 : leg1 = Equivalent(<<a, mid>>) /\ leg2 = Equivalent(<<mid, b>>)
  OBVIOUS
<1>4. FeasibleOf(word, c, <<a, b>>, first, second) = "False" =>
         Bad(word, c, a) \/ ChainFeasible(first, second, leg1, leg2) = "False"
  BY <1>3 DEF FeasibleOf, Bad
<1>5. ChainFeasible(first, second, leg1, leg2) = "False" =>
         first = "False" \/ (leg1 \in Trivial \union Reinterpreted /\ second = "False")
  BY DEF ChainFeasible
<1> QED BY <1>1, <1>2, <1>3, <1>4, <1>5 DEF Blocked

\* The reasons for which a conversion is infeasible while its source is not.
Reasons(word, c, a, b) ==
    \/ Basic(a, b) /\ <<a, b>> \in Reinterpreted /\ Bad(word, c, b)
    \/ a = "mixed" /\ b \in {"text"} \union TextSubtype /\ Bad(word, c, "plain")
    \/ a \in Three /\ b = "yaml" /\ Bad(word, c, "plain")
    \/ a = "bytes" /\ b \in TextSubtype /\ (Bad(word, c, "text") \/ Bad(word, c, b))
    \/ a = "bytes" /\ b \in Scalar /\ (Bad(word, c, "plain") \/ Bad(word, c, b))
    \/ /\ Basic(a, b) /\ <<a, b>> \notin Trivial \union Reformatted \union Reinterpreted
       /\ ~IsUntested(Unpack(word)) /\ <<a, b>> \in Possible
       /\ PossibleFeasible(Unpack(word), <<a, b>>) = "False"
    \/ /\ Basic(a, b) /\ <<a, b>> \notin Trivial \union Reformatted \union Reinterpreted
       /\ ~IsUntested(Unpack(word)) /\ a = "plain" /\ b = "binary"
       /\ Unpack(word).kind = Kind.JSON_OBJECT

LEMMA EquivalentSelf ==
    ASSUME NEW a, NEW b,
           ~(a \in TextSubtype /\ b \in {"str", "mixed"}),
           ~(a \in Code /\ b \in {"plain", "bytes", "binary"}),
           ~(a = "text" /\ b = "mixed"), ~(a = "str" /\ b \in TextSubtype),
           ~(a \in Scalar /\ b \in {"mixed", "binary", "bytes"}),
           ~(a = "yaml" /\ b = "bytes"), ~(a \in Three /\ b = "text")
    PROVE  Equivalent(<<a, b>>) = <<a, b>>
BY EquivalentOf

\* Chains, by what they pass through.
LEMMA ThroughPlain ==
    ASSUME NEW word, NEW c, ~IsNull(c), NEW a \in Celltype, NEW b \in Celltype, a # b,
           NEW mid, mid = "plain",
           \/ a \in {"mixed", "binary"} /\ b = "text"
           \/ a = "bytes" /\ b \in Scalar
           \/ a = "text" /\ b \in Three
           \/ a = "yaml" /\ b \in {"binary"} \union Three
           \/ a \in Three /\ b = "yaml",
           Blocked(word, c, a, b), ~Bad(word, c, a)
    PROVE  /\ a # "binary" /\ Reasons(word, c, a, b)
           /\ a = "mixed" => Bad(word, c, mid)
<1>1. mid \in Celltype /\ a # mid /\ mid # b /\ a \notin Code /\ b \notin Code
      /\ mid \notin Code
  BY DEF Celltype, Scalar, Three, Code
<1>2. Equivalent(<<a, b>>) = <<a, b>> /\ mid = Via(Equivalent(<<a, b>>)) /\ mid # "none"
  <2>1. Equivalent(<<a, b>>) = <<a, b>>
    <3>1. /\ ~(a \in TextSubtype /\ b \in {"str", "mixed"})
          /\ ~(a \in Code /\ b \in {"plain", "bytes", "binary"})
          /\ ~(a = "text" /\ b = "mixed") /\ ~(a = "str" /\ b \in TextSubtype)
          /\ ~(a \in Scalar /\ b \in {"mixed", "binary", "bytes"})
          /\ ~(a = "yaml" /\ b = "bytes") /\ ~(a \in Three /\ b = "text")
      BY DEF Code, TextSubtype, Scalar, Three
    <3> QED BY <3>1, EquivalentSelf
  <2>2. Via(<<a, b>>) = "plain"
    <3>1. CASE a \in {"mixed", "binary"} /\ b = "text"
      BY <3>1, ViaOf
    <3>2. CASE a = "bytes" /\ b \in Scalar
      BY <3>2, ViaOf DEF TextSubtype, Code, Scalar
    <3>3. CASE a = "text" /\ b \in Three
      BY <3>3, ViaOf DEF TextSubtype, Code, Scalar, Three
    <3>4. CASE a = "yaml" /\ b \in {"binary"} \union Three
      BY <3>4, ViaOf DEF TextSubtype, Code, Scalar, Three
    <3>5. CASE a \in Three /\ b = "yaml"
      BY <3>5, ViaOf DEF TextSubtype, Code, Scalar, Three
    <3> QED BY <3>1, <3>2, <3>3, <3>4, <3>5
  <2> QED BY <2>1, <2>2
<1>3. <<a, b>> \notin Forbidden /\ <<a, mid>> \notin Forbidden /\ <<mid, b>> \notin Forbidden
  BY <1>1, ForbiddenIs DEF Three
<1>4. \/ Blocked(word, c, a, mid)
      \/ <<a, mid>> \in Trivial \union Reinterpreted /\ Blocked(word, c, mid, b)
  <2>1. Basic(a, mid)
    BY BasicIs DEF Three, Scalar
  <2> QED BY <1>2, <1>3, <2>1, ChainBlocked DEF Basic
<1>5. Basic(a, mid) /\ Basic(mid, b)
  BY BasicIs DEF Three, Scalar
<1>6. <<a, mid>> \notin Possible /\ <<mid, b>> \notin Possible
  BY DEF Possible, Scalar
<1>7. Blocked(word, c, a, mid) => <<a, mid>> \in Reinterpreted /\ Bad(word, c, mid)
  BY <1>1, <1>3, <1>5, <1>6, HalfBlocked
<1>8. /\ <<a, mid>> \in Trivial <=> a \in Three
      /\ <<a, mid>> \in Reinterpreted <=> a \in {"mixed", "bytes"}
  <2>1. <<a, mid>> \in Trivial <=> a \in Three
    BY TrivialIs DEF Three, Scalar, Code
  <2>2. <<mid, a>> \in Trivial <=> a \in {"mixed", "bytes", "yaml"}
    BY TrivialIs DEF Three, Scalar, Code
  <2> QED BY <2>1, <2>2, ReinterpretedIs DEF Three
<1>9. b # "binary" => (Blocked(word, c, mid, b) =>
         Bad(word, c, mid) \/ (<<mid, b>> \in Reinterpreted /\ Bad(word, c, b)))
  BY <1>1, <1>3, <1>5, <1>6, HalfBlocked
<1>10. b \in {"text", "yaml"} => <<mid, b>> \notin Reinterpreted
  <2>1. b = "text" => <<b, mid>> \notin Trivial
    BY TrivialIs DEF Three, Scalar, Code
  <2>2. b = "yaml" => <<mid, b>> \in Trivial
    BY TrivialIs
  <2> QED BY <2>1, <2>2, ReinterpretedIs
<1>12. CASE a \in {"mixed", "binary"} /\ b = "text"
  <2>1. a = "mixed" /\ Bad(word, c, mid)
    BY <1>4, <1>7, <1>8, <1>9, <1>10, <1>12 DEF Three
  <2> QED BY <1>12, <2>1 DEF Reasons
<1>13. CASE a = "bytes" /\ b \in Scalar
  <2>1. Bad(word, c, mid) \/ Bad(word, c, b)
    BY <1>4, <1>7, <1>9, <1>13 DEF Scalar
  <2> QED BY <1>13, <2>1 DEF Reasons
<1>14. CASE a \in {"text", "yaml"}
  BY <1>4, <1>7, <1>8, <1>14 DEF Three
<1>15. CASE a \in Three /\ b = "yaml"
  <2>1. Bad(word, c, mid)
    BY <1>4, <1>7, <1>9, <1>10, <1>15
  <2> QED BY <1>15, <2>1 DEF Reasons, Three
<1> QED BY <1>12, <1>13, <1>14, <1>15

LEMMA ThroughText ==
    ASSUME NEW word, NEW c, ~IsNull(c), NEW a \in Celltype, NEW b \in Celltype, a # b,
           NEW mid, mid = "text",
           \/ a \in {"mixed", "binary", "bytes"} /\ b \in TextSubtype
           \/ a = "plain" /\ b \in Code,
           Blocked(word, c, a, b), ~Bad(word, c, a)
    PROVE  Reasons(word, c, a, b)
<1>1. /\ mid \in Celltype /\ a # mid /\ mid # b /\ a \notin Code /\ b \in TextSubtype
      /\ b \notin Three /\ a \notin Three /\ a # "yaml" /\ b # "binary"
  BY DEF Celltype, TextSubtype, Three, Code
<1>2. Equivalent(<<a, b>>) = <<a, b>> /\ mid = Via(Equivalent(<<a, b>>)) /\ mid # "none"
  <2>1. Equivalent(<<a, b>>) = <<a, b>>
    <3>1. /\ ~(a \in TextSubtype /\ b \in {"str", "mixed"})
          /\ ~(a \in Code /\ b \in {"plain", "bytes", "binary"})
          /\ ~(a = "text" /\ b = "mixed") /\ ~(a = "str" /\ b \in TextSubtype)
          /\ ~(a \in Scalar /\ b \in {"mixed", "binary", "bytes"})
          /\ ~(a = "yaml" /\ b = "bytes") /\ ~(a \in Three /\ b = "text")
      BY DEF Code, TextSubtype, Scalar, Three
    <3> QED BY <3>1, EquivalentSelf
  <2>2. Via(<<a, b>>) = "text"
    <3>1. CASE a \in {"mixed", "binary", "bytes"} /\ b \in TextSubtype
      BY <3>1, ViaOf DEF TextSubtype, Code
    <3>2. CASE a = "plain" /\ b \in Code
      BY <3>2, ViaOf DEF TextSubtype, Code, Scalar
    <3> QED BY <3>1, <3>2
  <2> QED BY <2>1, <2>2
<1>3. <<a, b>> \notin Forbidden /\ <<a, mid>> \notin Forbidden /\ <<mid, b>> \notin Forbidden
  BY <1>1, ForbiddenIs DEF Three, Code
<1>4. Equivalent(<<a, mid>>) = <<a, mid>>
  <2>1. /\ ~(a \in TextSubtype /\ mid \in {"str", "mixed"})
        /\ ~(a \in Code /\ mid \in {"plain", "bytes", "binary"})
        /\ ~(a = "text" /\ mid = "mixed") /\ ~(a = "str" /\ mid \in TextSubtype)
        /\ ~(a \in Scalar /\ mid \in {"mixed", "binary", "bytes"})
        /\ ~(a = "yaml" /\ mid = "bytes") /\ ~(a \in Three /\ mid = "text")
    BY <1>1 DEF Code, TextSubtype, Scalar, Three
  <2> QED BY <2>1, EquivalentSelf
<1>5. \/ Blocked(word, c, a, mid)
      \/ <<a, mid>> \in Trivial \union Reinterpreted /\ Blocked(word, c, mid, b)
  BY <1>2, <1>3, <1>4, ChainBlocked
<1>6. /\ <<a, mid>> \notin Trivial
      /\ <<a, mid>> \in Reinterpreted <=> a = "bytes"
  <2>1. <<a, mid>> \notin Trivial
    BY <1>1, TrivialIs DEF Three, Scalar, Code
  <2>2. <<mid, a>> \in Trivial <=> a = "bytes"
    BY <1>1, TrivialIs DEF Three, Scalar, Code
  <2> QED BY <1>1, <2>1, <2>2, ReinterpretedIs
<1>7. <<a, mid>> \notin Possible /\ <<mid, b>> \notin Possible
  BY DEF Possible, Scalar
<1>8. CASE a \in {"mixed", "binary"} /\ b \in TextSubtype
  <2>1. Blocked(word, c, a, mid)
    BY <1>5, <1>6, <1>8
  <2>2. PICK plain : plain = "plain"
    OBVIOUS
  <2>3. a # "binary" /\ (a = "mixed" => Bad(word, c, plain))
    BY <1>1, <1>8, <2>1, <2>2, ThroughPlain
  <2> QED BY <1>8, <2>2, <2>3 DEF Reasons
<1>9. CASE a = "bytes" /\ b \in TextSubtype
  <2>1. Basic(a, mid) /\ Basic(mid, b)
    BY <1>9, BasicIs
  <2>2. Blocked(word, c, a, mid) => Bad(word, c, mid)
    BY <1>1, <1>3, <1>7, <1>9, <2>1, HalfBlocked
  <2>3. Blocked(word, c, mid, b) => Bad(word, c, mid) \/ Bad(word, c, b)
    BY <1>1, <1>3, <1>7, <1>9, <2>1, HalfBlocked
  <2>4. Bad(word, c, "text") \/ Bad(word, c, b)
    BY <1>5, <2>2, <2>3
  <2> QED BY <1>9, <2>4 DEF Reasons
<1>10. CASE a = "plain" /\ b \in Code
  <2>1. Basic(a, mid)
    BY <1>10, BasicIs
  <2>2. ~Blocked(word, c, a, mid)
    BY <1>1, <1>3, <1>6, <1>7, <1>10, <2>1, HalfBlocked
  <2> QED BY <1>5, <1>6, <1>10, <2>2
<1> QED BY <1>8, <1>9, <1>10

LEMMA ThroughMixed ==
    ASSUME NEW word, NEW c, ~IsNull(c), NEW a \in Celltype, NEW b \in Celltype, a # b,
           a \in {"text"} \union Code /\ b = "binary", Blocked(word, c, a, b)
    PROVE  Bad(word, c, a)
<1>1. PICK mid : mid = "mixed"
  OBVIOUS
<1>2. mid \in Celltype /\ a # mid /\ mid # "binary" /\ mid # "none"
  BY <1>1 DEF Celltype, Code
<1>3. Equivalent(<<a, b>>) = <<"text", "binary">>
  <2>1. PICK text : text = <<"text", "binary">>
    OBVIOUS
  <2>2. CASE a = "text"
    <3>1. Equivalent(<<a, b>>) = <<a, b>>
      BY <2>2, EquivalentSelf DEF Code, TextSubtype, Scalar, Three
    <3> QED BY <2>2, <3>1
  <2>3. CASE a \in Code
    <3>1. a \notin Scalar /\ a # "text" /\ a # "str"
      BY <2>3 DEF Code, Scalar
    <3>2. Equivalent(<<a, b>>) = text
      BY <2>1, <2>3, <3>1, EquivalentOf
    <3> QED BY <2>1, <3>2
  <2> QED BY <2>2, <2>3
<1>4. mid = Via(Equivalent(<<a, b>>))
  <2>1. ASSUME NEW x, NEW y, x = "text", y = "binary"
        PROVE  Via(<<x, y>>) = "mixed"
    BY <2>1, ViaOf DEF Code, TextSubtype, Scalar
  <2> QED BY <1>1, <1>3, <2>1
<1>5. ASSUME NEW x, NEW y, x = "text", y \in {"binary", "str"}
      PROVE  <<x, y>> \notin Forbidden /\ <<x, y>> \notin Trivial \union Reinterpreted
  <2>1. <<x, y>> \notin Forbidden
    BY <1>5, ForbiddenIs DEF Code, Three
  <2>2. <<x, y>> \notin Trivial /\ <<y, x>> \notin Trivial
    BY <1>5, TrivialIs DEF Code, Three, Scalar
  <2> QED BY <2>1, <2>2, ReinterpretedIs
<1>6. Equivalent(<<a, mid>>) = <<"text", "str">>
  BY <1>1, EquivalentOf DEF TextSubtype
<1>7. Equivalent(<<a, mid>>) # <<a, mid>>
  BY <1>1, <1>6
<1>8. Blocked(word, c, a, mid) => Bad(word, c, a)
  BY <1>1, <1>2, <1>7, EquivalentInfeasible DEF Blocked, Bad
<1>9. <<"text", "binary">> \notin Forbidden /\ <<"text", "str">> \notin Trivial \union Reinterpreted
  BY <1>5
<1> QED BY <1>2, <1>3, <1>4, <1>6, <1>8, <1>9, ChainBlocked

LEMMA ThroughBytes ==
    ASSUME NEW word, NEW c, ~IsNull(c), NEW a \in Celltype, NEW b \in Celltype,
           a = "binary" /\ b = "str", Blocked(word, c, a, b)
    PROVE  Bad(word, c, a)
<1>1. PICK mid : mid = "bytes"
  OBVIOUS
<1>2. mid \in Celltype /\ a # mid /\ mid # b /\ a # b
  BY <1>1 DEF Celltype
<1>3. Equivalent(<<a, b>>) = <<a, b>>
  BY EquivalentSelf DEF Code, TextSubtype, Scalar, Three
<1>4. Via(<<a, b>>) = mid
  BY <1>1, ViaOf DEF Code, TextSubtype, Scalar
<1>5. <<a, b>> \notin Forbidden /\ <<a, mid>> \notin Forbidden
  BY ForbiddenIs DEF Code, Three
<1>6. Basic(a, mid)
  BY <1>1, BasicIs
<1>7. <<a, mid>> \notin Trivial \union Reinterpreted
  <2>1. <<a, mid>> \notin Trivial /\ <<mid, a>> \notin Trivial
    BY <1>1, TrivialIs DEF Code, Three, Scalar
  <2> QED BY <2>1, ReinterpretedIs
<1>8. <<a, mid>> \notin Possible
  BY <1>1 DEF Possible, Scalar
<1>9. Blocked(word, c, a, mid) => Bad(word, c, a)
  BY <1>2, <1>5, <1>6, <1>7, <1>8, HalfBlocked
<1>10. mid # "none"
  BY <1>1
<1>11. Equivalent(<<a, mid>>) = <<a, mid>>
  BY <1>6 DEF Basic
<1> QED BY <1>2, <1>3, <1>4, <1>5, <1>7, <1>9, <1>10, <1>11, ChainBlocked

\* Why a conversion is infeasible.
LEMMA Infeasible ==
    ASSUME NEW word, NEW c, ~IsNull(c), NEW a \in Celltype, NEW b \in Celltype, a # b,
           <<a, b>> \notin Forbidden, Blocked(word, c, a, b), ~Bad(word, c, a)
    PROVE  Reasons(word, c, a, b)
<1>1. CASE Equivalent(<<a, b>>) # <<a, b>> /\ ~(a \in Code /\ b = "binary")
  BY <1>1, EquivalentInfeasible DEF Blocked, Bad
<1>2. CASE a \in {"text"} \union Code /\ b = "binary"
  BY <1>2, ThroughMixed
<1>3. CASE Basic(a, b)
  BY <1>3, BasicInfeasible DEF Blocked, Bad, Reasons
<1>4. CASE Equivalent(<<a, b>>) = <<a, b>> /\ Via(<<a, b>>) # "none"
             /\ ~(a \in {"text"} \union Code /\ b = "binary")
  <2>1. PICK plain, text : plain = "plain" /\ text = "text"
    OBVIOUS
  <2>2. CASE \/ a \in {"mixed", "binary"} /\ b = "text"
             \/ a = "bytes" /\ b \in Scalar
             \/ a = "text" /\ b \in Three
             \/ a = "yaml" /\ b \in {"binary"} \union Three
             \/ a \in Three /\ b = "yaml"
    BY <2>1, <2>2, ThroughPlain
  <2>3. CASE \/ a \in {"mixed", "binary", "bytes"} /\ b \in TextSubtype
             \/ a = "plain" /\ b \in Code
    BY <2>1, <2>3, ThroughText
  <2>4. CASE a = "binary" /\ b = "str"
    BY <2>4, ThroughBytes
  <2> QED BY <1>4, <2>2, <2>3, <2>4, ViaOf DEF TextSubtype
<1> QED BY <1>1, <1>2, <1>3, <1>4 DEF Basic

-----------------------------------------------------------------------------
(* What is infeasible fails *)

\* A leg that has failed stays so.
LEMMA FailsOnward ==
    ASSUME NEW route, Len(route) \in 1 .. 3, NEW start, NEW n \in 1 .. Len(route),
           ~Legs(route, start)[n].ok
    PROVE  ~Legs(route, start)[Len(route)].ok
<1> DEFINE legs == Legs(route, start)
<1>1. ASSUME NEW m \in 1 .. Len(route), ~legs[m - 1].ok
      PROVE  ~legs[m].ok
  <2>1. Leg(legs[m - 1], route[m]) = legs[m - 1]
    BY <1>1 DEF Leg, Keep
  <2> QED BY <1>1, <2>1, LegsByLeg
<1> HIDE DEF legs
<1>2. ~legs[n].ok
  BY DEF legs
<1>3. Len(route) \in {1, 2, 3} /\ n \in {1, 2, 3} /\ n <= Len(route)
  <2>1. PICK len \in 1 .. 3 : len = Len(route)
    OBVIOUS
  <2>2. n \in 1 .. len
    BY <2>1
  <2>3. len \in {1, 2, 3} /\ n \in {1, 2, 3} /\ n <= len
    BY <2>2
  <2> QED BY <2>1, <2>3
<1>4. Len(route) >= 2 /\ n = 1 => ~legs[2].ok
  <2>1. Len(route) >= 2 => 2 \in 1 .. Len(route) /\ 2 - 1 = 1
    OBVIOUS
  <2> QED BY <1>1, <1>2, <2>1
<1>5. Len(route) = 3 /\ n \in {1, 2} => ~legs[3].ok
  <2>1. Len(route) = 3 => 3 \in 1 .. Len(route) /\ 3 - 1 = 2
    OBVIOUS
  <2> QED BY <1>1, <1>2, <1>4, <2>1
<1>6. ~legs[Len(route)].ok
  <2>1. CASE Len(route) = 1
    BY <1>2, <1>3, <2>1
  <2>2. CASE Len(route) = 2
    BY <1>2, <1>4, <2>2
  <2>3. CASE Len(route) = 3
    BY <1>2, <1>3, <1>5, <2>3
  <2> QED BY <1>3, <2>1, <2>2, <2>3
<1> QED BY <1>6 DEF legs

LEMMA FirstLegs ==
    ASSUME NEW route, Len(route) \in 1 .. 3, NEW start
    PROVE  /\ Legs(route, start)[1] = Leg(start, route[1])
           /\ Len(route) >= 2 => Legs(route, start)[2] = Leg(Leg(start, route[1]), route[2])
<1>1. 1 \in 1 .. Len(route) /\ 1 - 1 = 0 /\ (Len(route) >= 2 => 2 \in 1 .. Len(route) /\ 2 - 1 = 1)
  OBVIOUS
<1> QED BY <1>1, LegsByLeg

\* A conversion fails whose first leg does, or whose second leg does.
LEMMA ConversionFails ==
    ASSUME NEW conv \in Conversion, NEW c, NEW w, NEW s, s = Start(c, w)
    PROVE  /\ ~Leg(s, Route[conv][1]).ok => ~ConvertChecksum(conv, c, w).ok
           /\ Len(Route[conv]) >= 2 /\ ~Leg(Leg(s, Route[conv][1]), Route[conv][2]).ok =>
                ~ConvertChecksum(conv, c, w).ok
<1>1. PICK route : route = Route[conv]
  OBVIOUS
<1>2. Len(route) \in 1 .. 3
  BY <1>1, CheckConversions DEF MaxLegs
<1>3. ConvertChecksum(conv, c, w) = Legs(route, s)[Len(route)]
  BY <1>1 DEF ConvertChecksum
<1>4. 1 \in 1 .. Len(route) /\ (Len(route) >= 2 => 2 \in 1 .. Len(route))
  BY <1>2
<1>5. /\ Legs(route, s)[1] = Leg(s, route[1])
      /\ Len(route) >= 2 => Legs(route, s)[2] = Leg(Leg(s, route[1]), route[2])
  BY <1>2, FirstLegs
<1>6. ~Leg(s, route[1]).ok => ~Legs(route, s)[Len(route)].ok
  BY <1>2, <1>4, <1>5, FailsOnward
<1>7. Len(route) >= 2 /\ ~Leg(Leg(s, route[1]), route[2]).ok => ~Legs(route, s)[Len(route)].ok
  BY <1>2, <1>4, <1>5, FailsOnward
<1> QED BY <1>1, <1>3, <1>6, <1>7

\* What the classifier says of arrays and of JSON.
LEMMA TestedForms ==
    ASSUME NEW c \in Contents, NEW t, t = Unpack(FromBuffer(c))
    PROVE  /\ c.form \in DOMAIN ArrayForm => t.rank = ArrayForm[c.form].rank
           /\ c.form \in JsonForm => t.kind = JsonKind(c.form)
<1>1. PICK length \in 0 .. 3 : length = c.length
  BY TypesAssumption
<1>2. ASSUME c.form \in DOMAIN ArrayForm PROVE t.rank = ArrayForm[c.form].rank
  <2>1. PICK a : a = ArrayForm[c.form]
    OBVIOUS
  <2>2. DOMAIN ArrayForm = {"number0", "nan0", "number1", "number2", "number3", "bytes0",
                            "bytes1", "words0", "record1"}
    BY DEF ArrayForm
  <2>3. a.dtype \in 0 .. 3 /\ a.rank \in 0 .. 3
    <3> USE DEF ArrayForm, DType, Rank
    <3>1. CASE c.form \in {"number0", "nan0", "number1"}
      BY <2>1, <3>1
    <3>2. CASE c.form \in {"number2", "number3"}
      BY <2>1, <3>2
    <3>3. CASE c.form \in {"bytes0", "words0"}
      BY <2>1, <3>3
    <3>4. CASE c.form \in {"bytes1", "record1"}
      BY <2>1, <3>4
    <3> QED BY <1>2, <2>2, <3>1, <3>2, <3>3, <3>4
  <2>4. PICK flags \in 0 .. 7 : FromBuffer(c) = Pack(1, length, a.dtype, a.rank, flags)
    <3>1. FromBuffer(c) = NumpyWord(c)
      BY <1>2, FormsApart DEF FromBuffer, MixedForm
    <3>2. NumpyWord(c) = Pack(1, c.length, a.dtype, a.rank,
                              IF c.form = "bytes0" THEN 2 ELSE 0)
      BY <2>1 DEF NumpyWord, Kind, Flag
    <3> QED BY <1>1, <3>1, <3>2
  <2>5. Says(FromBuffer(c), 1, length, a.dtype, a.rank, flags)
    <3>1. PICK kind, dtype, rank : kind = 1 /\ dtype = a.dtype /\ rank = a.rank
      OBVIOUS
    <3>2. kind \in 0 .. 15 /\ dtype \in 0 .. 3 /\ rank \in 0 .. 3
      BY <2>3, <3>1
    <3>3. FromBuffer(c) = Pack(kind, length, dtype, rank, flags)
      BY <2>4, <3>1
    <3>4. Says(FromBuffer(c), kind, length, dtype, rank, flags)
      BY <3>2, <3>3, PackSays
    <3> QED BY <3>1, <3>4
  <2> QED BY <2>1, <2>5 DEF Says
<1>3. ASSUME c.form \in JsonForm PROVE t.kind = JsonKind(c.form)
  <2>1. PICK kind \in 0 .. 15 : kind = JsonKind(c.form)
    BY <1>3 DEF JsonKind, JsonForm, NumberForm, Kind
  <2>2. PICK flags \in 0 .. 7 : FromBuffer(c) = PlainWord(kind, c, flags)
    <3>1. FromBuffer(c) = PlainWord(JsonKind(c.form), c,
              IF c.form \in NumberForm \/ IsNumericString(c) THEN 1 ELSE 0)
      BY <1>3, FormsApart DEF FromBuffer, Flag, OpaqueForm, TextForm, JsonForm, NumberForm
    <3> QED BY <2>1, <3>1
  <2>3. FromBuffer(c) = Pack(kind, length, 0, 0, flags)
    BY <1>1, <2>2 DEF PlainWord, DType, Rank
  <2>4. Says(FromBuffer(c), kind, length, 0, 0, flags)
    <3>1. PICK zero \in 0 .. 3 : zero = 0
      OBVIOUS
    <3>2. FromBuffer(c) = Pack(kind, length, zero, zero, flags)
      BY <2>3, <3>1
    <3>3. Says(FromBuffer(c), kind, length, zero, zero, flags)
      BY <3>2, PackSays
    <3> QED BY <3>1, <3>3
  <2> QED BY <2>1, <2>4 DEF Says
<1> QED BY <1>2, <1>3

\* A word that was tested is the classifier's.
LEMMA TestedIsFromBuffer ==
    ASSUME NEW c \in Contents, NEW v \in TrueWords(c), ~IsUntested(Unpack(v))
    PROVE  v = FromBuffer(c)
<1>1. ASSUME NEW kind \in {9, 10, 11}
      PROVE  IsUntested(Unpack(PlainWord(kind, c, 0)))
  <2>1. Says(PlainWord(kind, c, 0), kind, c.length, 0, 0, 0)
    BY UntestedSays
  <2> QED BY <2>1 DEF Says, IsUntested, Kind
<1> QED BY <1>1, TrueCases

\* A reinterpretation of the source that succeeds without a known word.
LEMMA BlindReinterpret ==
    ASSUME NEW c \in Contents, NEW s, NEW before, Learns(s, c, Unknown, before), s.ok, ~s.new,
           NEW target \in Celltype,
           NEW x, x = Reinterpret(s, VirtualValue(s.at, target), target), x.ok
    PROVE  Readable(c, target) /\ ~x.new
<1>1. s.at = c /\ s.word \in {Unknown, FromBuffer(c)}
  BY DEF Learns
<1>2. FromBuffer(c) \in TrueWords(c)
  BY DEF TrueWords
<1>3. PICK virtual : virtual = VirtualValue(s.at, target)
  OBVIOUS
<1>4. x = IF virtual = NotVirtual /\ s.word # Unknown
               /\ DeserializableAs(s.word, target, s.at) = "True"
          THEN s ELSE ValueOf(s, target)
  BY <1>3, ReinterpretIs
<1>5. CASE virtual = NotVirtual /\ s.word # Unknown
             /\ DeserializableAs(s.word, target, s.at) = "True"
  <2>1. Right(DeserializableAs(s.word, target, c), Readable(c, target))
    BY <1>1, <1>2, <1>5, WordRight
  <2> QED BY <1>1, <1>4, <1>5, <2>1 DEF Right
<1>6. CASE x = ValueOf(s, target) /\ virtual = NotVirtual
  <2>1. VirtualValue(c, target) = NotVirtual
    BY <1>1, <1>3, <1>6
  <2>2. PICK w : w = Unknown
    OBVIOUS
  <2>3. Learns(s, c, w, before) /\ (w = Unknown \/ w \in TrueWords(c))
    BY <2>2
  <2>4. ~x.new /\ (x.ok /\ (w = Unknown \/ c.form \notin TextForm) => Readable(c, target))
    BY <1>6, <2>1, <2>3, ReadAtSource
  <2> QED BY <2>2, <2>4
<1>7. CASE x = ValueOf(s, target) /\ virtual # NotVirtual
  <2>1. x = With(s, virtual)
    BY <1>3, <1>7 DEF ValueOf, ValueOr
  <2>2. virtual # Failed /\ ~x.new
    BY <2>1, WithIs
  <2> QED BY <1>1, <1>3, <1>7, <2>2 DEF Readable
<1> QED BY <1>4, <1>5, <1>6, <1>7

LEMMA BlindLeg ==
    ASSUME NEW c \in Contents, NEW s, NEW before, Learns(s, c, Unknown, before), ~s.new,
           NEW a \in Celltype, NEW b \in Celltype, <<a, b>> \in Reinterpreted,
           NEW x, x = Leg(s, <<a, b>>), x.ok
    PROVE  Readable(c, b) /\ ~x.new /\ Learns(x, c, Unknown, before)
<1>1. PICK conv : conv = <<a, b>>
  OBVIOUS
<1>2. conv \in Tables /\ conv \notin Trivial /\ conv[2] = b
  BY <1>1 DEF Tables, Reinterpreted
<1>3. s.ok /\ conv \notin Forbidden
  <2>1. ~s.ok => x = s
    BY DEF Leg, Keep
  <2>2. s.ok /\ conv \in Forbidden => x = Fail(s)
    BY <1>1, <1>2 DEF Leg
  <2>3. ~Fail(s).ok
    BY FailIs
  <2> QED BY <2>1, <2>2, <2>3
<1>4. x = Reinterpret(s, VirtualValue(s.at, b), b)
  BY <1>1, <1>2, <1>3 DEF Leg
<1>5. Learns(x, c, Unknown, before)
  BY <1>1, <1>2, LegLearns
<1> QED BY <1>3, <1>4, <1>5, BlindReinterpret

\* The routes of chains.
TwoLegs(route, p, q) ==
    route = <<p>> \o <<q>> /\ Len(route) = 2 /\ route[1] = p /\ route[2] = q

LEMMA RouteOfTwo ==
    ASSUME NEW a \in Celltype, NEW b \in Celltype, a # b,
           Equivalent(<<a, b>>) = <<a, b>>, NEW mid \in Celltype, mid = Via(<<a, b>>),
           mid # "none", a # mid, mid # b, Basic(a, mid), Basic(mid, b)
    PROVE  TwoLegs(Route[<<a, b>>], <<a, mid>>, <<mid, b>>)
<1>1. PICK p, q : p = <<a, mid>> /\ q = <<mid, b>>
  OBVIOUS
<1>2. Route[p] = <<p>> /\ Route[q] = <<q>>
  BY <1>1, RouteBasic
<1>3. Route[<<a, b>>] = Route[p] \o Route[q]
  BY <1>1, RouteVia
<1>4. Route[<<a, b>>] = <<p>> \o <<q>>
  BY <1>2, <1>3
<1>5. Len(<<p>> \o <<q>>) = 2 /\ (<<p>> \o <<q>>)[1] = p /\ (<<p>> \o <<q>>)[2] = q
  OBVIOUS
<1> QED BY <1>1, <1>4, <1>5 DEF TwoLegs

LEMMA RouteOfBytes ==
    ASSUME NEW b \in Celltype, b \in TextSubtype \union Scalar, NEW a, a = "bytes",
           NEW mid, mid = IF b \in TextSubtype THEN "text" ELSE "plain"
    PROVE  /\ <<a, b>> \in Conversion /\ Len(Route[<<a, b>>]) = 2
           /\ Route[<<a, b>>][1] = <<a, mid>> /\ Route[<<a, b>>][2] = <<mid, b>>
<1>1. a \in Celltype /\ mid \in Celltype /\ a # b /\ a # mid /\ mid # b /\ mid # "none"
  BY DEF Celltype, TextSubtype, Code, Scalar
<1>2. Equivalent(<<a, b>>) = <<a, b>>
  BY EquivalentSelf DEF TextSubtype, Code, Scalar, Three
<1>3. Via(<<a, b>>) = mid
  BY ViaOf DEF TextSubtype, Code, Scalar
<1>4. Basic(a, mid) /\ Basic(mid, b)
  BY BasicIs
<1>5. <<a, b>> \in Conversion
  BY <1>1, PairIs
<1>6. TwoLegs(Route[<<a, b>>], <<a, mid>>, <<mid, b>>)
  BY <1>1, <1>2, <1>3, <1>4, RouteOfTwo
<1> QED BY <1>5, <1>6 DEF TwoLegs

LEMMA RouteOfMixed ==
    ASSUME NEW b \in Celltype, b \in {"text"} \union TextSubtype, NEW a \in {"mixed"},
           NEW mid \in {"plain"}
    PROVE  <<a, b>> \in Conversion /\ Route[<<a, b>>][1] = <<a, mid>>
<1>1. PICK text \in {"text"} : TRUE
  OBVIOUS
<1>2. a \in Celltype /\ mid \in Celltype /\ text \in Celltype /\ a # b /\ a # mid /\ mid # text
      /\ a # text /\ mid # "none" /\ text # "none"
  BY <1>1 DEF Celltype, TextSubtype, Code
<1>3. Basic(a, mid) /\ Basic(mid, text)
  BY <1>1, BasicIs
<1>4. Equivalent(<<a, text>>) = <<a, text>>
  BY <1>1, EquivalentSelf DEF TextSubtype, Code, Scalar, Three
<1>5. Via(<<a, text>>) = mid
  BY <1>1, ViaOf
<1>6. PICK p, q : p = <<a, mid>> /\ q = <<mid, text>>
  OBVIOUS
<1>7. Route[<<a, text>>] = <<p>> \o <<q>> /\ Route[<<a, text>>][1] = p
  <2>1. mid = Via(<<a, text>>)
    BY <1>5
  <2>2. TwoLegs(Route[<<a, text>>], <<a, mid>>, <<mid, text>>)
    BY <1>2, <1>3, <1>4, <2>1, RouteOfTwo
  <2> QED BY <1>6, <2>2 DEF TwoLegs
<1>8. <<a, b>> \in Conversion
  BY <1>2, PairIs
<1>9. CASE b = text
  BY <1>6, <1>7, <1>8, <1>9
<1>10. CASE b # text
  <2>1. b \in TextSubtype
    BY <1>1, <1>10
  <2>2. Equivalent(<<a, b>>) = <<a, b>>
    BY <2>1, EquivalentSelf DEF TextSubtype, Code, Scalar, Three
  <2>3. Via(<<a, b>>) = text
    BY <1>1, <2>1, ViaOf DEF TextSubtype, Code
  <2>4. Basic(text, b)
    BY <1>1, <2>1, BasicIs
  <2>5. PICK r : r = <<text, b>>
    OBVIOUS
  <2>6. Route[r] = <<r>>
    BY <1>2, <1>10, <2>4, <2>5, RouteBasic
  <2>7. Route[<<a, b>>] = Route[<<a, text>>] \o Route[r]
    <3>1. text = Via(<<a, b>>) /\ text # "none" /\ a # b /\ a \in Celltype
      BY <1>2, <2>3
    <3>2. Route[<<a, b>>] = Route[<<a, text>>] \o Route[<<text, b>>]
      BY <2>2, <3>1, RouteVia
    <3> QED BY <2>5, <3>2
  <2>8. Route[<<a, b>>][1] = p
    <3>1. ((<<p>> \o <<q>>) \o <<r>>)[1] = p
      OBVIOUS
    <3> QED BY <1>7, <2>6, <2>7, <3>1
  <2> QED BY <1>6, <1>8, <2>8
<1> QED BY <1>9, <1>10

\* The legs of a route that reinterpret the source.
LEMMA ReinterpretedLegs ==
    ASSUME NEW a, NEW b,
           \/ a = "mixed" /\ b = "plain"
           \/ a = "bytes" /\ b \in {"text", "plain"}
           \/ a = "text" /\ b \in TextSubtype
           \/ a = "plain" /\ b \in Scalar
    PROVE  <<a, b>> \in Reinterpreted
<1>1. <<b, a>> \in Trivial
  BY TrivialIs DEF TextSubtype
<1>2. <<a, b>> \notin Trivial
  BY TrivialIs DEF TextSubtype, Code, Scalar, Three
<1> QED BY <1>1, <1>2, ReinterpretedIs

\* What is not plain is not a scalar either.
LEMMA ScalarsPlain ==
    ASSUME NEW c \in Contents, ~IsNull(c), NEW a \in Three, Readable(c, a)
    PROVE  Readable(c, "plain")
<1>1. CASE a = "bool"
  BY <1>1, Reads DEF IsBool, JsonForm
<1>2. CASE a \in Numeric
  BY <1>2, Reads, FormsApart
<1> QED BY <1>1, <1>2 DEF Three, Numeric

\* A conversion by reinterpretation fails, without a known word, where one
\* with a word is refused.
LEMMA ReinterpretedFails ==
    ASSUME NEW c \in Contents, ~IsNull(c), NEW v \in TrueWords(c),
           NEW a \in Celltype, NEW b \in Celltype, a # b,
           \/ Basic(a, b) /\ <<a, b>> \in Reinterpreted /\ Bad(v, c, b)
           \/ a = "mixed" /\ b \in {"text"} \union TextSubtype /\ Bad(v, c, "plain")
           \/ a = "bytes" /\ b \in TextSubtype /\ (Bad(v, c, "text") \/ Bad(v, c, b))
           \/ a = "bytes" /\ b \in Scalar /\ (Bad(v, c, "plain") \/ Bad(v, c, b))
    PROVE  ~ConvertChecksum(<<a, b>>, c, Unknown).ok
<1>1. \A celltype \in Celltype : Bad(v, c, celltype) => ~Readable(c, celltype)
  BY WordRight DEF Bad, Right
<1>2. PICK s : s = Start(c, Unknown)
  OBVIOUS
<1>3. Learns(s, c, Unknown, s) /\ ~s.new
  BY <1>2, StartLearns DEF Start
<1>4. {"plain", "text"} \subseteq Celltype
  BY DEF Celltype
<1>5. CASE Basic(a, b) /\ <<a, b>> \in Reinterpreted /\ Bad(v, c, b)
  <2>1. <<a, b>> \in Conversion /\ Route[<<a, b>>] = <<<<a, b>>>>
    BY <1>5, PairIs, RouteBasic
  <2>2. Route[<<a, b>>][1] = <<a, b>>
    BY <2>1
  <2>3. ~Leg(s, <<a, b>>).ok
    BY <1>1, <1>3, <1>5, BlindLeg
  <2> QED BY <1>2, <2>1, <2>2, <2>3, ConversionFails
<1>6. CASE a = "mixed" /\ b \in {"text"} \union TextSubtype /\ Bad(v, c, "plain")
  <2>1. PICK mid : mid = "plain"
    OBVIOUS
  <2>2. <<a, b>> \in Conversion /\ Route[<<a, b>>][1] = <<a, mid>>
    BY <1>6, <2>1, RouteOfMixed
  <2>3. <<a, mid>> \in Reinterpreted
    BY <1>6, <2>1, ReinterpretedLegs
  <2>4. ~Readable(c, mid) /\ mid \in Celltype
    BY <1>1, <1>4, <1>6, <2>1
  <2>5. ~Leg(s, <<a, mid>>).ok
    BY <1>3, <2>3, <2>4, BlindLeg
  <2> QED BY <1>2, <2>2, <2>5, ConversionFails
<1>7. CASE /\ a = "bytes" /\ b \in TextSubtype \union Scalar
           /\ Bad(v, c, IF b \in TextSubtype THEN "text" ELSE "plain") \/ Bad(v, c, b)
  <2>1. PICK mid : mid = IF b \in TextSubtype THEN "text" ELSE "plain"
    OBVIOUS
  <2>2. /\ <<a, b>> \in Conversion /\ Len(Route[<<a, b>>]) = 2
        /\ Route[<<a, b>>][1] = <<a, mid>> /\ Route[<<a, b>>][2] = <<mid, b>>
    BY <1>7, <2>1, RouteOfBytes
  <2>3. <<a, mid>> \in Reinterpreted /\ <<mid, b>> \in Reinterpreted
    BY <1>7, <2>1, ReinterpretedLegs
  <2>4. mid \in Celltype /\ (~Readable(c, mid) \/ ~Readable(c, b))
    BY <1>1, <1>4, <1>7, <2>1
  <2>5. PICK x : x = Leg(s, <<a, mid>>)
    OBVIOUS
  <2>6. PICK y : y = Leg(x, <<mid, b>>)
    OBVIOUS
  <2>7. x.ok => Readable(c, mid) /\ ~x.new /\ Learns(x, c, Unknown, s)
    BY <1>3, <2>3, <2>4, <2>5, BlindLeg
  <2>8. x.ok /\ y.ok => Readable(c, b)
    BY <2>3, <2>4, <2>6, <2>7, BlindLeg
  <2>9. ~x.ok \/ ~y.ok
    BY <2>4, <2>7, <2>8
  <2>10. PICK conv, p, q : conv = <<a, b>> /\ p = <<a, mid>> /\ q = <<mid, b>>
    OBVIOUS
  <2>11. conv \in Conversion /\ Len(Route[conv]) = 2 /\ Route[conv][1] = p /\ Route[conv][2] = q
    BY <2>2, <2>10
  <2>12. x = Leg(s, Route[conv][1]) /\ y = Leg(x, Route[conv][2])
    BY <2>5, <2>6, <2>10, <2>11
  <2>13. ~ConvertChecksum(conv, c, Unknown).ok
    BY <1>2, <2>9, <2>11, <2>12, ConversionFails
  <2> QED BY <2>10, <2>13
<1>8. b \in Scalar => b \notin TextSubtype
  BY DEF Scalar, TextSubtype, Code
<1> QED BY <1>5, <1>6, <1>7, <1>8

\* Buffers that no constructor builds a scalar from.
Unbuildable(c, b) ==
    \/ c.form \in DOMAIN ArrayForm /\ ArrayForm[c.form].rank # 0
    \/ c.form \in {"object", "array", "ragged"} \union MixedForm
    \/ c.form = "spaced_null" /\ b \in Numeric

LEMMA UnbuildableFails ==
    ASSUME NEW c \in Contents, NEW a \in {"binary", "mixed"}, NEW b, Unbuildable(c, b),
           NEW value, value = Parsed(c, a)
    PROVE  /\ VirtualValue(c, a) = NotVirtual
           /\ value = Failed \/ Built(value, value.of.form, b) = Failed
<1>1. /\ c.form \in DOMAIN ArrayForm => ~IsNull(c) /\ ~IsBool(c)
      /\ c.form \in MixedForm => ~IsNull(c) /\ ~IsBool(c)
  BY FormsApart DEF IsNull, IsBool, JsonForm
<1>2. ~IsNull(c) /\ ~IsBool(c)
  BY <1>1 DEF Unbuildable, IsNull, IsBool
<1>3. VirtualValue(c, a) = NotVirtual
  BY <1>2, VirtualFacts DEF Celltype
<1>4. value = MixedValue(c) \/ (value = Failed /\ a = "binary")
  BY DEF Parsed, TextSubtype, Code, Scalar
<1>5. ASSUME c.form \in DOMAIN ArrayForm, ArrayForm[c.form].rank # 0, value = MixedValue(c)
      PROVE  Built(value, value.of.form, b) = Failed
  <2>1. value = Array(c)
    BY <1>5, FormsApart DEF MixedValue, JsonForm, NumberForm
  <2>2. value.type = "array" /\ value.of.form = c.form
    BY <2>1 DEF Array
  <2> QED BY <1>5, <2>2 DEF Built, Rank
<1>6. ASSUME c.form \in {"object", "array", "ragged"}, value = MixedValue(c)
      PROVE  Built(value, value.of.form, b) = Failed
  <2>1. PlainValue(c) = Json(c.form)
    BY <1>6 DEF PlainValue, NumberForm
  <2>2. MixedValue(c) = PlainValue(c)
    BY <1>6, FormsApart DEF MixedValue, JsonForm, NumberForm
  <2>3. value.type = "json" /\ value.of.form = c.form
    BY <1>6, <2>1, <2>2 DEF Json, Plainly
  <2> QED BY <1>6, <2>3 DEF Built
<1>7. ASSUME c.form \in MixedForm, value = MixedValue(c)
      PROVE  value = Failed \/ Built(value, value.of.form, b) = Failed
  <2>1. value = Tree(c) \/ value = Failed
    BY <1>7, FormsApart DEF MixedValue, JsonForm, NumberForm
  <2>2. Tree(c).type = "tree"
    BY DEF Tree
  <2>3. value.type = "tree" => Built(value, value.of.form, b) = Failed
    BY DEF Built
  <2> QED BY <2>1, <2>2, <2>3
<1>8. ASSUME c.form = "spaced_null", b \in Numeric, value = MixedValue(c)
      PROVE  Built(value, value.of.form, b) = Failed
  <2>1. PlainValue(c) = Json("null")
    BY <1>8 DEF PlainValue, NumberForm
  <2>2. MixedValue(c) = PlainValue(c)
    BY <1>8, FormsApart DEF MixedValue, JsonForm, NumberForm
  <2>3. value.type = "json" /\ value.of.form = "null"
    BY <1>8, <2>1, <2>2 DEF Json, Plainly
  <2> QED BY <1>8, <2>3 DEF Built, Numeric
<1> QED BY <1>3, <1>4, <1>5, <1>6, <1>7, <1>8 DEF Unbuildable

\* What a word makes infeasible by the kind of the buffer cannot be built.
LEMMA InfeasibleUnbuildable ==
    ASSUME NEW c \in Contents, ~IsNull(c), NEW a, NEW b, <<a, b>> \in Possible,
           PossibleFeasible(Unpack(FromBuffer(c)), <<a, b>>) = "False"
    PROVE  Unbuildable(c, b)
<1>1. PICK t : t = Unpack(FromBuffer(c))
  OBVIOUS
<1>2. PICK kind, dtype, rank, flags :
        /\ Classified(c, kind, dtype, rank, flags)
        /\ Says(FromBuffer(c), kind, c.length, dtype, rank, flags)
  BY TestedSays
<1>3. t.kind = kind
  BY <1>1, <1>2 DEF Says
<1>4. \/ b \in Numeric /\ t.kind = 1 /\ t.rank # 0
      \/ b \in Numeric /\ t.kind \in {5, 6, 2, 3, 12}
      \/ t.kind \in {5, 6}
  <2>1. PICK conv : conv = <<a, b>>
    OBVIOUS
  <2>2. PICK answer : answer = PossibleFeasible(t, conv)
    OBVIOUS
  <2>3. answer = "False" /\ conv[2] = b
    BY <1>1, <2>1, <2>2
  <2>4. PICK text : text = <<"mixed", "str">>
    OBVIOUS
  <2>5. b \in Numeric => conv # text
    BY <2>3, <2>4 DEF Numeric
  <2>6. answer = CASE b \in Numeric /\ t.kind = 1 ->
                        IF t.rank # 0 THEN "False" ELSE Surely(t.dtype = 1)
                   [] b \in Numeric /\ t.kind # 1 ->
                        IF t.kind \in {5, 6, 2, 3, 12} THEN "False" ELSE Surely(HasFlag(t, 1))
                   [] conv = text -> Answer(t.kind \notin {5, 6})
                   [] OTHER -> "None"
    BY <2>2, <2>3, <2>4 DEF PossibleFeasible, Kind, Rank, DType, Flag
  <2>7. CASE b \in Numeric /\ t.kind = 1
    <3>1. answer = IF t.rank # 0 THEN "False" ELSE Surely(t.dtype = 1)
      BY <2>7, <2>5, <2>6
    <3> QED BY <2>3, <2>7, <3>1 DEF Surely
  <2>8. CASE b \in Numeric /\ t.kind # 1
    <3>1. answer = IF t.kind \in {5, 6, 2, 3, 12} THEN "False" ELSE Surely(HasFlag(t, 1))
      BY <2>8, <2>5, <2>6
    <3> QED BY <2>3, <2>8, <3>1 DEF Surely
  <2>9. CASE b \notin Numeric
    <3>1. answer \in {Answer(t.kind \notin {5, 6}), "None"}
      BY <2>9, <2>6
    <3> QED BY <2>3, <3>1 DEF Answer
  <2> QED BY <2>7, <2>8, <2>9
<1>5. /\ c.form \in DOMAIN ArrayForm => t.rank = ArrayForm[c.form].rank
      /\ c.form \in JsonForm => t.kind = JsonKind(c.form)
  BY <1>1, TestedForms
<1>6. /\ t.kind = 1 <=> c.form \in DOMAIN ArrayForm
      /\ t.kind \in {2, 3} <=> c.form \in MixedForm
      /\ t.kind \in {5, 6, 7, 8, 12} <=> c.form \in JsonForm
  BY <1>2, <1>3 DEF Classified
<1>7. /\ t.kind \in {5, 6} => c.form \in {"object", "array", "ragged"}
      /\ t.kind = 12 => c.form \in {"null", "spaced_null"}
  BY <1>5, <1>6 DEF JsonKind, JsonForm, NumberForm, Kind
<1> QED BY <1>4, <1>5, <1>6, <1>7 DEF Unbuildable, IsNull

\* What a read of the source gives when nothing was known of it.
LEMMA BlindRead ==
    ASSUME NEW c \in Contents, NEW s, s = Start(c, Unknown), NEW celltype \in Celltype,
           VirtualValue(c, celltype) = NotVirtual, NEW x, x = ValueOf(s, celltype)
    PROVE  Learns(x, c, Unknown, s) /\ (x.ok => x.value = Parsed(c, celltype) /\ x.value # Failed)
<1>1. PICK w : w = Unknown
  OBVIOUS
<1>2. Learns(s, c, w, s) /\ s.ok /\ ~s.new
  BY <1>1, StartLearns DEF Start
<1>3. Learns(x, c, w, s)
  BY <1>2, ValueLearns
<1>4. x.ok => x.value = Parsed(c, celltype) /\ Readable(c, celltype)
  BY <1>1, <1>2, ReadAtSource
<1>5. Readable(c, celltype) => Parsed(c, celltype) # Failed
  BY DEF Readable
<1> QED BY <1>1, <1>3, <1>4, <1>5

\* The conversions that build a scalar, and the one of an object to an array.
LEMMA ValueFails ==
    ASSUME NEW c \in Contents, ~IsNull(c), NEW v \in TrueWords(c), ~IsUntested(Unpack(v)),
           NEW a \in Celltype, NEW b \in Celltype, a # b, Basic(a, b), <<a, b>> \notin Forbidden,
           <<a, b>> \notin Trivial \union Reformatted \union Reinterpreted,
           \/ <<a, b>> \in Possible /\ PossibleFeasible(Unpack(v), <<a, b>>) = "False"
           \/ a = "plain" /\ b = "binary" /\ Unpack(v).kind = 5
    PROVE  ~ConvertChecksum(<<a, b>>, c, Unknown).ok
<1>1. v = FromBuffer(c)
  BY TestedIsFromBuffer
<1>2. PICK conv : conv = <<a, b>>
  OBVIOUS
<1>3. conv \in Conversion /\ Route[conv][1] = conv /\ conv[1] = a /\ conv[2] = b
  <2>1. <<a, b>> \in Conversion /\ Route[<<a, b>>] = <<<<a, b>>>>
    BY PairIs, RouteBasic
  <2>2. Route[<<a, b>>][1] = <<a, b>>
    BY <2>1
  <2> QED BY <1>2, <2>1, <2>2
<1>4. PICK s, read, x : s = Start(c, Unknown) /\ read = ValueOf(s, a) /\ x = Leg(s, conv)
  OBVIOUS
<1>5. s.ok /\ conv \notin Trivial \union Forbidden \union Reinterpreted \union Reformatted
  BY <1>2, <1>4 DEF Start
<1>6. CASE conv \in Possible /\ PossibleFeasible(Unpack(v), conv) = "False"
  <2>1. Unbuildable(c, b) /\ a \in {"binary", "mixed"}
    BY <1>1, <1>2, <1>6, InfeasibleUnbuildable DEF Possible
  <2>2. PICK value : value = Parsed(c, a)
    OBVIOUS
  <2>3. VirtualValue(c, a) = NotVirtual /\ (value = Failed \/ Built(value, value.of.form, b) = Failed)
    BY <2>1, <2>2, UnbuildableFails
  <2>4. Learns(read, c, Unknown, s) /\ (read.ok => read.value = value /\ value # Failed)
    BY <1>4, <2>2, <2>3, BlindRead
  <2>5. x = IF read.ok THEN ConvertPossible(read, conv) ELSE read
    BY <1>3, <1>4, <1>5, <1>6 DEF Leg, IfRead
  <2>6. ASSUME read.ok PROVE ~x.ok
    <3>1. x = NewValue(read, Built(value, value.of.form, b))
      BY <1>3, <2>4, <2>5, <2>6 DEF ConvertPossible
    <3>2. x = Fail(read)
      BY <2>3, <2>4, <2>6, <3>1 DEF NewValue
    <3> QED BY <2>4, <3>2, FailIs
  <2> QED BY <1>2, <1>3, <1>4, <2>5, <2>6, ConversionFails
<1>7. CASE a = "plain" /\ b = "binary" /\ Unpack(v).kind = 5
  <2>1. c.form = "object"
    <3>1. PICK kind, dtype, rank, flags :
            /\ Classified(c, kind, dtype, rank, flags)
            /\ Says(FromBuffer(c), kind, c.length, dtype, rank, flags)
      BY TestedSays
    <3>2. kind = 5 /\ c.form \in JsonForm
      BY <1>1, <1>7, <3>1 DEF Says, Classified
    <3>3. JsonKind(c.form) = 5
      BY <1>1, <1>7, <3>2, TestedForms
    <3> QED BY <3>2, <3>3 DEF JsonKind, JsonForm, NumberForm, Kind
  <2>2. VirtualValue(c, a) = NotVirtual
    BY <1>7, <2>1, VirtualFacts DEF IsBool
  <2>3. Parsed(c, a) = Json("object")
    <3>1. Parsed(c, a) = PlainValue(c)
      BY <1>7 DEF Parsed, TextSubtype, Code, Scalar
    <3> QED BY <2>1, <3>1 DEF PlainValue, NumberForm
  <2>4. Learns(read, c, Unknown, s) /\ (read.ok => read.value.of.form = "object")
    <3>1. Json("object").of.form = "object"
      BY DEF Json, Plainly
    <3> QED BY <1>4, <2>2, <2>3, <3>1, BlindRead
  <2>5. x = IF read.ok THEN ConvertValue(read, conv) ELSE read
    <3>1. conv \notin Possible
      BY <1>2, <1>7 DEF Possible
    <3> QED BY <1>3, <1>4, <1>5, <1>7, <3>1 DEF Leg, IfRead
  <2>6. ASSUME read.ok PROVE ~x.ok
    <3>1. PICK arrays : arrays = {<<"binary", "plain">>}
      OBVIOUS
    <3>2. conv \notin arrays /\ conv[1] # "checksum" /\ conv = <<"plain", "binary">>
      BY <1>2, <1>7, <3>1
    <3>3. x = NewUnless(read.value.of.form \notin {"number", "true", "array"}
                          \/ read.value.type = "str",
                read, Plainly(IF read.value.of.form = "array" THEN "number1" ELSE "number0",
                              FALSE))
      BY <2>5, <2>6, <3>1, <3>2 DEF ConvertValue
    <3>4. x = Fail(read)
      BY <2>4, <2>6, <3>3 DEF NewUnless
    <3> QED BY <2>4, <3>4, FailIs
  <2> QED BY <1>2, <1>3, <1>4, <2>5, <2>6, ConversionFails
<1> QED BY <1>2, <1>6, <1>7

\* Each reason is a reason without a known word too, or the source is not of
\* its celltype.
LEMMA ReasonsFail ==
    ASSUME NEW c \in Contents, ~IsNull(c), NEW v \in TrueWords(c),
           NEW a \in Celltype, NEW b \in Celltype, a # b, <<a, b>> \notin Forbidden,
           Reasons(v, c, a, b)
    PROVE  ~ConvertChecksum(<<a, b>>, c, Unknown).ok \/ ~Readable(c, a)
<1>1. CASE a \in Three /\ Bad(v, c, "plain")
  <2>1. ~Readable(c, "plain")
    BY <1>1, WordRight DEF Bad, Right, Celltype
  <2> QED BY <1>1, <2>1, ScalarsPlain
<1>2. CASE \/ Basic(a, b) /\ <<a, b>> \in Reinterpreted /\ Bad(v, c, b)
           \/ a = "mixed" /\ b \in {"text"} \union TextSubtype /\ Bad(v, c, "plain")
           \/ a = "bytes" /\ b \in TextSubtype /\ (Bad(v, c, "text") \/ Bad(v, c, b))
           \/ a = "bytes" /\ b \in Scalar /\ (Bad(v, c, "plain") \/ Bad(v, c, b))
  BY <1>2, ReinterpretedFails
<1>3. CASE /\ Basic(a, b) /\ <<a, b>> \notin Trivial \union Reformatted \union Reinterpreted
           /\ ~IsUntested(Unpack(v))
           /\ \/ <<a, b>> \in Possible /\ PossibleFeasible(Unpack(v), <<a, b>>) = "False"
              \/ a = "plain" /\ b = "binary" /\ Unpack(v).kind = 5
  BY <1>3, ValueFails
<1> QED BY <1>1, <1>2, <1>3 DEF Reasons, Kind

\* Every legal conversion of null is feasible.
LEMMA NullFeasible ==
    ASSUME NEW c, IsNull(c), NEW word, NEW a \in Celltype, NEW b \in Celltype, a # b,
           <<a, b>> \notin Forbidden
    PROVE  ~Blocked(word, c, a, b)
<1>1. PICK e, mid : e = Equivalent(<<a, b>>) /\ mid = Via(e)
  OBVIOUS
<1>2. e \notin Forbidden
  <2>1. CASE e = <<a, b>>
    BY <2>1
  <2>2. CASE e # <<a, b>>
    <3>1. ASSUME NEW x, NEW y, x \in {"plain", "text"}, y = "binary"
          PROVE  <<x, y>> \notin Forbidden
      BY <3>1, ForbiddenIs DEF Code, Three
    <3>2. <<"plain", "binary">> \notin Forbidden /\ <<"text", "binary">> \notin Forbidden
      BY <3>1
    <3> QED BY <1>1, <2>2, <3>2, EquivalentSafe DEF Kept
  <2> QED BY <2>1, <2>2
<1>3. ConversionFeasible(word, <<a, b>>, c) = "True"
  BY <1>1, <1>2, FeasibleIs DEF FeasibleOf
<1> QED BY <1>3 DEF Blocked

\* A conversion that is refused for what is known of its source fails without.
LEMMA InvalidFails ==
    ASSUME NEW c \in Contents, NEW v \in TrueWords(c), NEW conv \in Legal, Invalid(v, conv, c)
    PROVE  /\ ~IsNull(c)
           /\ ~ConvertChecksum(conv, c, Unknown).ok \/ ~Readable(c, conv[1])
<1>1. PICK a \in Celltype, b \in Celltype : a # b /\ conv = <<a, b>>
  BY PairsOf DEF Legal
<1>2. conv[1] = a /\ <<a, b>> \notin Forbidden
  BY <1>1 DEF Legal
<1>3. Bad(v, c, a) \/ Blocked(v, c, a, b)
  BY <1>1, <1>2 DEF Invalid, Bad, Blocked
<1>4. ~IsNull(c)
  <2>1. IsNull(c) => ~Bad(v, c, a)
    BY DEF Bad, DeserializableAs
  <2> QED BY <1>1, <1>2, <1>3, <2>1, NullFeasible
<1>5. CASE Bad(v, c, a)
  <2>1. ~Readable(c, a)
    BY <1>5, WordRight DEF Bad, Right
  <2> QED BY <1>2, <1>4, <2>1
<1>6. CASE ~Bad(v, c, a)
  <2>1. Reasons(v, c, a, b)
    BY <1>1, <1>2, <1>3, <1>4, <1>6, Infeasible
  <2> QED BY <1>1, <1>2, <1>4, <2>1, ReasonsFail
<1> QED BY <1>5, <1>6

\* One conversion, with a word known of its source and without.
LEMMA KnowledgeHarms ==
    ASSUME NEW c \in Contents, NEW v \in TrueWords(c), v # Unknown, NEW conv \in Legal,
           NEW informed, informed = Outcome(conv, c, v),
           NEW blind, blind = Outcome(conv, c, Unknown)
    PROVE  /\ ~informed.ok => ~blind.ok \/ ~Readable(c, conv[1])
           /\ informed.ok /\ blind.ok => informed.at = blind.at
<1>1. blind = Evaluated(conv, c, Unknown)
  BY DEF Outcome, Invalid
<1>2. CASE Invalid(v, conv, c)
  <2>1. ~informed.ok
    BY <1>2 DEF Outcome, Fail, Start
  <2>2. ~IsNull(c) /\ (~ConvertChecksum(conv, c, Unknown).ok \/ ~Readable(c, conv[1]))
    BY <1>2, InvalidFails
  <2>3. blind = ConvertChecksum(conv, c, Unknown)
    BY <1>1, <2>2 DEF Evaluated
  <2> QED BY <2>1, <2>2, <2>3
<1>3. CASE ~Invalid(v, conv, c) /\ IsNull(c) /\ c.newline
  <2>1. informed = Start(c, v) /\ blind = Start(c, Unknown)
    BY <1>1, <1>3 DEF Outcome, Evaluated
  <2> QED BY <2>1 DEF Start
<1>4. CASE ~Invalid(v, conv, c) /\ ~(IsNull(c) /\ c.newline)
  <2>1. informed = ConvertChecksum(conv, c, v) /\ blind = ConvertChecksum(conv, c, Unknown)
    BY <1>1, <1>4 DEF Outcome, Evaluated
  <2>2. PICK w : w = Unknown
    OBVIOUS
  <2>3. Paired(c, v, w, informed, blind)
    <3>1. Tighter(c, v, w) /\ conv \in Conversion
      BY <2>2 DEF Tighter, Legal
    <3> QED BY <2>1, <2>2, <3>1, ConvertPaired
  <2>4. /\ ~informed.ok => ~blind.ok
        /\ informed.ok /\ blind.ok => informed.at = blind.at
    BY <2>2, <2>3 DEF Paired, Alike
  <2> QED BY <2>4
<1> QED BY <1>2, <1>3, <1>4

\* What is known of a checksum never costs a caller a conversion, nor changes
\* its result.
THEOREM KnowledgeStaysHarmless == Spec => []KnowledgeHarmless
<1>1. ASSUME TypesInv
      PROVE  KnowledgeHarmless
  <2>1. content \in Contents /\ (known # Unknown => known \in TrueWords(content))
    BY <1>1 DEF TypesInv, WordsTrue, Word
  <2> QED BY <2>1, KnowledgeHarms DEF KnowledgeHarmless
<1> QED BY <1>1, SpecTypesInv, PTL
=============================================================================
