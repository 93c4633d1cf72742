----------------------------- MODULE Conversions -----------------------------
(***************************************************************************)
(* Celltype conversions of one checksum: the conversion tables, the        *)
(* feasibility answers that hash types give, and the conversions           *)
(* themselves (seamless/checksum/conversion.py, convert.py, virtual.py,    *)
(* null.py, parse_buffer.py and the conversion half of                     *)
(* hash_type_validation.py).                                               *)
(*                                                                         *)
(* convert_checksum works from the checksum as far as it can: values that  *)
(* are known by heart, then the hash type, and only then the buffer.  The  *)
(* outcome is therefore computed here for a given word of the checksum     *)
(* (or none), and says whether the buffer was fetched.                     *)
(***************************************************************************)
EXTENDS HashTypes, Sequences

-----------------------------------------------------------------------------
(* The tables *)

Code == {"python", "ipython"}
TextSubtype == Code \union {"yaml"}
Scalar == {"str", "int", "float", "bool"}
Numeric == {"int", "float"}

Trivial ==
    {<<"text", "bytes">>, <<"ipython", "text">>, <<"python", "text">>,
     <<"python", "ipython">>, <<"yaml", "text">>, <<"plain", "yaml">>,
     <<"plain", "bytes">>, <<"binary", "mixed">>, <<"plain", "mixed">>,
     <<"int", "float">>, <<"float", "int">>}
    \union (Scalar \X {"plain"}) \union ({"int", "float", "bool"} \X {"str"})

Reinterpreted ==
    ({<<conv[2], conv[1]>> : conv \in Trivial} \ Trivial)
      \ {<<"ipython", "python">>, <<"yaml", "plain">>}

Reformatted ==
    {<<"bytes", "binary">>, <<"bytes", "mixed">>, <<"binary", "bytes">>,
     <<"mixed", "bytes">>, <<"plain", "text">>, <<"text", "plain">>,
     <<"text", "str">>, <<"str", "text">>, <<"yaml", "plain">>,
     <<"ipython", "python">>}

Possible == ({"binary"} \X {"int", "float", "bool"}) \union ({"mixed"} \X Scalar)

ByValue ==
    {<<"binary", "plain">>, <<"plain", "binary">>}
    \union ({"bool"} \X Numeric) \union (Numeric \X {"bool"})
    \union ({"checksum"} \X (Celltype \ {"checksum"}))
    \union ((Celltype \ {"checksum"}) \X {"checksum"})

Forbidden ==
    (Code \X {"yaml", "int", "float", "bool"})
    \union ({"yaml", "int", "float", "bool"} \X Code)

Equivalent(conv) ==
    CASE conv \in (TextSubtype \X {"str", "mixed"}) \union (Code \X {"plain"})
                    \union {<<"text", "mixed">>} -> <<"text", "str">>
      [] conv \in {"str"} \X TextSubtype -> <<"str", "text">>
      [] conv \in Code \X {"bytes"} -> <<conv[1], "text">>
      [] conv \in Scalar \X {"mixed"} -> <<conv[1], "plain">>
      [] conv \in Scalar \X {"binary", "bytes"} -> <<"plain", conv[2]>>
      [] conv \in Code \X {"binary"} -> <<"text", "binary">>
      [] conv = <<"yaml", "bytes">> -> <<"text", "bytes">>
      [] conv \in {"int", "float", "bool"} \X {"text"} -> <<"plain", "text">>
      [] OTHER -> conv

\* conversion_chain: A => B => C
Via(conv) ==
    CASE conv \in {"mixed", "binary"} \X {"text"} -> "plain"
      [] conv \in {"mixed", "binary", "bytes"} \X TextSubtype -> "text"
      [] conv \in {"bytes"} \X Scalar -> "plain"
      [] conv = <<"binary", "str">> -> "bytes"
      [] conv \in {"plain"} \X Code -> "text"
      [] conv = <<"text", "binary">> -> "mixed"
      [] conv \in {"text"} \X {"int", "float", "bool"} -> "plain"
      [] conv \in {"yaml"} \X {"binary", "int", "float", "bool"} -> "plain"
      [] conv \in {"int", "float", "bool"} \X {"yaml"} -> "plain"
      [] OTHER -> "none"

Conversion == {conv \in Celltype \X Celltype : conv[1] # conv[2]}

\* The basic conversions that a conversion is made of.
Route[conv \in Conversion] ==
    LET e == Equivalent(conv)
        b == Via(conv) IN
    IF e # conv THEN Route[e]
    ELSE IF b # "none" THEN Route[<<conv[1], b>>] \o Route[<<b, conv[2]>>]
    ELSE <<conv>>

\* check_conversions, which runs when the module is imported: every pair of
\* celltypes is in one table, and comes down to basic conversions, of which
\* there are at most MaxLegs.
MaxLegs == 3
ASSUME CheckConversions ==
    \A conv \in Conversion :
        /\ Cardinality({table \in {Trivial, Reinterpreted, Reformatted, Possible,
                                   ByValue, Forbidden} : conv \in table})
             + (IF Equivalent(conv) # conv THEN 1 ELSE 0)
             + (IF Via(conv) # "none" THEN 1 ELSE 0) = 1
        /\ Len(Route[conv]) \in 1 .. MaxLegs
        /\ \A i \in 1 .. Len(Route[conv]) :
              Route[conv][i] \in Trivial \union Reinterpreted \union Reformatted
                                   \union Possible \union ByValue \union Forbidden

-----------------------------------------------------------------------------
(* Values.  A value is what a parser makes of a buffer.                    *)

Str(c) == [type |-> "str", of |-> Stripped(c)]
Json(form) == [type |-> "json", of |-> Plainly(form, TRUE)]
Array(c) == [type |-> "array", of |-> c]
Tree(c) == [type |-> "tree", of |-> c]
Failed == [type |-> "failed"]
NotVirtual == [type |-> "not_virtual"]

\* orjson: integers beyond 64 bits are floats.
PlainValue(c) ==
    CASE c.form = "string" -> Str(c.of)
      [] c.form \in NumberForm -> Json("number")
      [] c.form \in {"true", "spaced_true"} -> Json("true")
      [] c.form \in {"null", "spaced_null"} -> Json("null")
      [] c.form \in {"object", "array", "ragged"} -> Json(c.form)
      [] OTHER -> Failed

\* virtual_value
VirtualValue(c, celltype) ==
    CASE IsNull(c) -> Json("null")
      [] IsBool(c) /\ celltype \in {"bool", "plain", "mixed"} -> Json("true")
      [] IsBool(c) /\ celltype = "str" -> Str(Plainly("True", FALSE))
      [] IsBool(c) /\ celltype \in Numeric -> Failed
      [] ~IsNull(c) /\ ~IsBool(c) /\ celltype = "bool" -> Failed
      [] OTHER -> NotVirtual

\* The deserializer of mixed buffers takes text that is not JSON for bytes;
\* its JSON parser keeps integers whole.
MixedValue(c) ==
    CASE c.form \in DOMAIN ArrayForm -> Array(c)
      [] c.form \in MixedForm \ {"mixed_corrupt"} -> Tree(c)
      [] c.form = "digits" -> Json("digits")
      [] c.form \in JsonForm \ {"digits"} -> PlainValue(c)
      [] c.form \in TextForm -> Array(Boxed(c))
      [] OTHER -> Failed

\* validate_text: IPython's transformer takes anything.
ValidText(c, celltype) ==
    /\ celltype = "python" => c.form \notin {"prose", "magic", "digest",
                                             "spaced_true", "spaced_null"}
    /\ celltype = "yaml" => c.form # "magic"

\* _parse_scalar, of the plain value
ScalarValue(c, value, celltype) ==
    CASE celltype = "str" ->
            IF value.type = "str" THEN value
            ELSE IF value = Json("true") THEN Str(Plainly("True", FALSE))
            ELSE IF value = Json("number") THEN Str(value.of) ELSE Failed
      [] celltype \in Numeric ->
            IF c.length # Length.LONG /\ (IsNumericString(c) \/ value = Json("number"))
            THEN Json("number") ELSE Failed
      [] celltype = "bool" -> Failed

\* _parse_buffer, after the hash type has not ruled the celltype out
Parsed(c, celltype) ==
    CASE celltype \in {"text"} \union TextSubtype ->
            IF IsText(c) /\ ValidText(c, celltype) THEN Str(c) ELSE Failed
      [] celltype = "plain" -> PlainValue(c)
      [] celltype = "binary" ->
            IF c.form \in TextForm \union DOMAIN ArrayForm THEN MixedValue(c) ELSE Failed
      [] celltype = "mixed" -> MixedValue(c)
      [] celltype = "bytes" -> [type |-> "bytes", of |-> c]
      [] celltype \in Scalar -> ScalarValue(c, PlainValue(c), celltype)
      [] celltype = "checksum" ->
            IF c.form \in DigestForm /\ c.length = Length.EQ64
            THEN [type |-> "checksum"] ELSE Failed

-----------------------------------------------------------------------------
(* A conversion in progress: the buffer it has arrived at, the word known  *)
(* of it, whether it is a new buffer, whether the source buffer had to be  *)
(* fetched, and the word known of the source.                              *)

Start(c, word) ==
    [ok |-> TRUE, at |-> c, word |-> word, new |-> FALSE, fetched |-> FALSE,
     known |-> word, value |-> NotVirtual]

Fail(s) == [s EXCEPT !.ok = FALSE]
Keep(s) == s
New(s, c) == [s EXCEPT !.at = c, !.new = TRUE, !.word = FromBuffer(c)]
IfRead(Op(_, _), read, conv) == IF read.ok THEN Op(read, conv) ELSE read
NewUnless(failed, s, c) == IF failed THEN Fail(s) ELSE New(s, c)

Fetch(s) == [s EXCEPT !.fetched = @ \/ ~s.new]

RuledOut(word, celltype, c) ==
    word # Unknown /\ DeserializableAs(word, celltype, c) = "False"

With(s, value) == [s EXCEPT !.ok = value # Failed, !.value = value]

\* _parse_buffer: a buffer without a known word is classified first.
Classify(s, word) == [s EXCEPT !.word = word, !.known = IF s.new THEN @ ELSE word]

Read(s, celltype) ==
    IF RuledOut(s.word, celltype, s.at) THEN Fail(s) ELSE With(s, Parsed(s.at, celltype))

Parse(s, celltype) ==
    Read(Classify(Fetch(s), IF s.word = Unknown THEN FromBuffer(s.at) ELSE s.word), celltype)

\* _value_of: by heart, else unless the hash type rules it out from the buffer
ValueOr(s, virtual, celltype) ==
    IF virtual # NotVirtual THEN With(s, virtual)
    ELSE IF RuledOut(s.word, celltype, s.at) THEN Fail(s)
    ELSE Parse(s, celltype)

ValueOf(s, celltype) == ValueOr(s, VirtualValue(s.at, celltype), celltype)

\* Serialization of a value as text, as JSON and as a str cell.
AsText(value) == IF value = Json("null") THEN value.of ELSE Line(value.of)
AsPlain(value) == IF value.type = "str" THEN Quoted(value.of) ELSE value.of
AsStr(value) == IF value = Json("null") THEN value.of ELSE Quoted(value.of)

-----------------------------------------------------------------------------
(* The basic conversions *)

\* A plausible slip: a buffer that is known but untested is left for its
\* reader to parse.
FaultyReinterpret(s, virtual, target) ==
    IF virtual # NotVirtual THEN With(s, virtual)
    ELSE IF RuledOut(s.word, target, s.at) THEN Fail(s)
    ELSE IF s.word # Unknown /\ (\/ IsUntested(Unpack(s.word))
                                \/ DeserializableAs(s.word, target, s.at) = "True")
         THEN Keep(s)
    ELSE Parse(s, target)

Reinterpret(s, virtual, target) ==
    IF virtual # NotVirtual THEN With(s, virtual)
    ELSE IF RuledOut(s.word, target, s.at) THEN Fail(s)
    ELSE IF s.word # Unknown /\ DeserializableAs(s.word, target, s.at) = "True"
         THEN Keep(s)
    ELSE Parse(s, target)

\* bytes that start with the NPY magic and parse are kept, others boxed
IsNpy(c) == c.form \in DOMAIN ArrayForm \union {"npy_corrupt"}

KeepOr(read, c) == IF read.ok THEN Keep(read) ELSE New([read EXCEPT !.ok = TRUE], c)

BytesToBinary(s) ==
    IF IsNpy(s.at) THEN KeepOr(Fetch(ValueOf(s, "binary")), Boxed(s.at))
    ELSE New(Fetch(s), Boxed(s.at))

\* A plausible slip: a mixed header is taken for a mixed value.
FaultyBytesToMixed(s, wrapped) ==
    IF \/ VirtualValue(s.at, "mixed") # NotVirtual
       \/ s.word # Unknown /\ DeserializableAs(s.word, "mixed", s.at) # "False"
    THEN Keep(s)
    ELSE IF DeserializableAs(FromBuffer(s.at), "mixed", s.at) # "False"
         THEN KeepOr(Fetch(ValueOf(s, "mixed")), wrapped)
    ELSE New(Fetch(s), wrapped)

\* Only a proof skips the fetch; what does not parse is quoted or boxed.
BytesToMixed(s, wrapped) ==
    IF \/ VirtualValue(s.at, "mixed") # NotVirtual
       \/ s.word # Unknown /\ DeserializableAs(s.word, "mixed", s.at) = "True"
    THEN Keep(s)
    ELSE IF DeserializableAs(FromBuffer(s.at), "mixed", s.at) # "False"
         THEN KeepOr(Fetch(ValueOf(s, "mixed")), wrapped)
    ELSE New(Fetch(s), wrapped)

\* A dtype-S array gives its bytes; none at all is the canonical null.
BinaryToBytes(read) ==
    IF ~read.ok \/ read.value.type # "array"
         \/ read.value.of.form \notin {"bytes0", "bytes1"} THEN Keep(read)
    ELSE New(read, IF read.value.of.of.form = "empty" THEN Plainly("null", TRUE)
                   ELSE read.value.of.of)

MixedToBytes(s) ==
    IF IsNpy(s.at) THEN BinaryToBytes(ValueOf(s, "binary")) ELSE Keep(ValueOf(s, "mixed"))

KeepIfSame(read, c) == IF ~read.ok \/ c = read.at THEN Keep(read) ELSE New(read, c)

\* The plain value by heart, else that of the text, else the text itself.
TextToPlain(s, virtual, json) ==
    IF virtual # NotVirtual THEN KeepIfSame(s, AsPlain(virtual))
    ELSE KeepIfSame(ValueOf(s, "text"), AsPlain(IF json # Failed THEN json ELSE Str(s.at)))

YamlValue(c) ==
    CASE c.form = "empty" -> Json("null")
      [] c.form = "True" -> Json("true")
      [] c.form \in {"code", "prose", "digest"} -> Str(c)
      [] c.form = "digits" -> Failed      \* an integer that orjson refuses
      [] OTHER -> PlainValue(c)

NewValue(s, value) == IF value = Failed THEN Fail(s) ELSE New(s, AsPlain(value))

\* Of the value of the source, which a null source does not have.
ReformatValue(read, conv) ==
    CASE conv = <<"plain", "text">> ->
            IF read.value.type = "str" THEN New(read, AsText(read.value)) ELSE Keep(read)
      [] conv = <<"text", "str">> -> New(read, AsStr(read.value))
      [] conv = <<"str", "text">> -> New(read, AsText(read.value))
      [] conv = <<"yaml", "plain">> ->
            IF IsNull(read.at) THEN Fail(read) ELSE NewValue(read, YamlValue(read.at))
      [] conv = <<"ipython", "python">> ->
            NewUnless(IsNull(read.at), read,
                IF read.at.form = "magic" THEN Plainly("code", TRUE) ELSE Line(read.at))

Reformat(s, conv) ==
    CASE conv = <<"bytes", "binary">> -> BytesToBinary(s)
      [] conv = <<"bytes", "mixed">> ->
            BytesToMixed(s, IF IsText(s.at) THEN Quoted(s.at) ELSE Boxed(s.at))
      [] conv = <<"binary", "bytes">> -> BinaryToBytes(ValueOf(s, "binary"))
      [] conv = <<"mixed", "bytes">> -> MixedToBytes(Fetch(s))
      [] conv = <<"text", "plain">> ->
            TextToPlain(s, VirtualValue(s.at, "plain"), PlainValue(s.at))
      [] OTHER -> IfRead(ReformatValue, ValueOf(s, conv[1]), conv)

\* The Python constructor of the target, on the value of a binary or mixed
\* buffer: containers and arrays with dimensions are refused.
Built(value, form, target) ==
    CASE value.type = "tree" -> Failed
      [] value.type = "array" ->
            IF ArrayForm[form].rank # Rank.SCALAR THEN Failed
            ELSE IF target = "bool" THEN Json("true")
            ELSE IF target = "str"
                 THEN Str(Plainly(IF form = "number0" THEN "number" ELSE "code", FALSE))
            ELSE IF form = "number0" \/ (form = "bytes0" /\ value.of.of.form \in NumberForm)
                 THEN Json("number") ELSE Failed
      [] value.type = "str" ->
            IF target = "str" THEN value ELSE IF target = "bool" THEN Json("true")
            ELSE IF form \in NumberForm THEN Json("number") ELSE Failed
      [] value.type = "json" ->
            IF form \in {"object", "array", "ragged"} THEN Failed
            ELSE IF target = "bool" THEN Json("true")
            ELSE IF target = "str"
                 THEN Str(Plainly(CASE form = "true" -> "True" [] form = "null" -> "code"
                                    [] OTHER -> form, FALSE))
            ELSE IF form = "null" \/ (form = "digits" /\ target = "int") THEN Failed
            ELSE Json("number")

ConvertPossible(read, conv) ==
    NewValue(read, Built(read.value, read.value.of.form, conv[2]))

\* What a checksum cell refers to is another buffer: some bytes.
Referenced == Plainly("noise", FALSE)

ConvertValue(read, conv) ==
    LET form == read.value.of.form IN
    CASE conv[1] = "checksum" -> NewUnless(IsNull(read.at), read, Referenced)
      [] conv = <<"binary", "plain">> ->
            NewUnless(form \notin {"null", "number0", "number1", "number2", "number3"}, read,
                Plainly(IF form = "null" THEN "null"
                        ELSE IF form = "number0" THEN "number" ELSE "array", TRUE))
      [] conv = <<"plain", "binary">> ->
            NewUnless(form \notin {"number", "true", "array"} \/ read.value.type = "str",
                read, Plainly(IF form = "array" THEN "number1" ELSE "number0", FALSE))
      [] conv \in Numeric \X {"bool"} -> New(read, Plainly("true", TRUE))
      [] conv \in {"bool"} \X Numeric ->
            NewUnless(IsNull(read.at), read, Plainly("number", TRUE))

Leg(s, conv) ==
    IF ~s.ok \/ conv \in Trivial THEN Keep(s)
    ELSE IF conv \in Forbidden THEN Fail(s)
    ELSE IF conv \in Reinterpreted THEN Reinterpret(s, VirtualValue(s.at, conv[2]), conv[2])
    ELSE IF conv \in Reformatted THEN Reformat(s, conv)
    ELSE IF conv \in Possible THEN IfRead(ConvertPossible, ValueOf(s, conv[1]), conv)
    ELSE IF conv[2] = "checksum" THEN New(s, Plainly("digest", FALSE))
    ELSE IfRead(ConvertValue, ValueOf(s, conv[1]), conv)

\* convert_checksum, with what is known of the checksum: where a conversion is
\* after each leg of its route
Legs(route, start) ==
    LET after[n \in 0 .. Len(route)] ==
            IF n = 0 THEN start ELSE Leg(after[n - 1], route[n])
    IN  after
ConvertChecksum(conv, c, word) == Legs(Route[conv], Start(c, word))[Len(Route[conv])]

\* conversion_needs_buffer: a dry run that stops where the buffer is fetched
NeedsBuffer(conv, c, word) == ConvertChecksum(conv, c, word).fetched

-----------------------------------------------------------------------------
(* conversion_feasible: "False" only where the hash type proves that a     *)
(* conversion is impossible                                                *)

PossibleFeasible(t, conv) ==
    CASE conv[2] \in Numeric /\ t.kind = Kind.NUMPY ->
            IF t.rank # Rank.SCALAR THEN "False" ELSE Surely(t.dtype = DType.NUMERIC)
      [] conv[2] \in Numeric /\ t.kind # Kind.NUMPY ->
            IF t.kind \in {Kind.JSON_OBJECT, Kind.JSON_ARRAY, Kind.MIXED_OBJECT,
                           Kind.MIXED_ARRAY, Kind.JSON_NULL} THEN "False"
            ELSE Surely(HasFlag(t, Flag.NUMERIC_SCALAR))
      [] conv = <<"mixed", "str">> ->
            Answer(t.kind \notin {Kind.JSON_OBJECT, Kind.JSON_ARRAY})
      [] OTHER -> "None"

ValueFeasible(t, conv) ==
    CASE conv = <<"plain", "binary">> -> Perhaps(t.kind # Kind.JSON_OBJECT)
      [] conv = <<"binary", "plain">> ->
            Surely(t.dtype \in {DType.NUMERIC, DType.STRUCTURED})
      [] OTHER -> "None"

\* A chain is infeasible when its first half is, or when that half keeps the
\* buffer and the second half is.
ChainFeasible(first, second, leg1, leg2) ==
    CASE first = "False" -> "False"
      [] first # "False" /\ leg1 \notin Trivial \union Reinterpreted -> "None"
      [] OTHER -> IF second = "False" THEN "False"
                  ELSE IF leg2 \in Trivial \union Reformatted THEN first ELSE "None"

ConversionFeasible(word, conv, c) ==
    LET t == Unpack(word)
        Feasible[pair \in Conversion] ==
            LET e   == Equivalent(pair)
                mid == Via(e) IN
            IF e \in Forbidden THEN "False"
            ELSE IF IsNull(c) THEN "True"
            ELSE IF DeserializableAs(word, pair[1], c) = "False" THEN "False"
            ELSE IF pair[2] = "checksum" THEN "True"
            ELSE IF mid # "none"
                 THEN ChainFeasible(Feasible[<<pair[1], mid>>], Feasible[<<mid, pair[2]>>],
                                    Equivalent(<<pair[1], mid>>), Equivalent(<<mid, pair[2]>>))
            ELSE IF e \in Trivial \union Reformatted THEN "True"
            ELSE IF e \in Reinterpreted THEN DeserializableAs(word, pair[2], c)
            ELSE IF IsUntested(t) THEN "None"
            ELSE IF e \in Possible THEN PossibleFeasible(t, pair)
            ELSE ValueFeasible(t, pair)
    IN  Feasible[conv]

\* validate_expression_shape of an empty path
Legal == Conversion \ Forbidden

\* validate_expression of an empty path: what is known of the source must not
\* rule out its celltype or the conversion.
Invalid(word, conv, c) ==
    /\ word # Unknown
    /\ \/ DeserializableAs(word, conv[1], c) = "False"
       \/ ConversionFeasible(word, conv, c) = "False"

\* _evaluate_expression_after_validation of an empty path: the canonical null
\* is null in every celltype.
Evaluated(conv, c, word) ==
    IF IsNull(c) /\ c.newline THEN Start(c, word) ELSE ConvertChecksum(conv, c, word)

Outcome(conv, c, word) ==
    IF Invalid(word, conv, c) THEN Fail(Start(c, word)) ELSE Evaluated(conv, c, word)

\* _evaluate_expression_local_unshared, of any legal conversion.  Outside an
\* event loop the database is asked first; inside one it is not.  A source
\* buffer that had to be read without a known word has been classified, and
\* its word queued.
EvaluateExpression(inLoop) ==
    /\ known = Unknown
    /\ LET word == IF inLoop THEN Unknown ELSE database IN
       /\ known' \in {Outcome(conv, content, word).known : conv \in Legal}
       /\ uploads' = IF word = known' THEN uploads ELSE uploads \union {known'}
    /\ UNCHANGED <<content, database, lookup, refused, givenUp>>

Next ==
    \/ TypesNext
    \/ \E inLoop \in BOOLEAN : EvaluateExpression(inLoop)

Init == TypesInit

Spec == Init /\ [][Next]_typeVars

-----------------------------------------------------------------------------
(* Properties *)

\* The reference parser: text that is not JSON is neither an array nor a
\* mixed value, although the deserializer would box it.
Readable(c, celltype) ==
    \/ VirtualValue(c, celltype) \notin {NotVirtual, Failed}
    \/ /\ VirtualValue(c, celltype) = NotVirtual
       /\ Parsed(c, celltype) # Failed
       /\ celltype \in {"binary", "mixed"} => c.form \notin TextForm

\* deserializable_as never lies, whichever word is known: what it calls proven
\* the parser reads and what it calls disproved the parser cannot read.
AnswersSound ==
    known # Unknown => \A celltype \in Celltype :
        LET answer == DeserializableAs(known, celltype, content) IN
        /\ answer = "True" => Readable(content, celltype)
        /\ answer = "False" => ~Readable(content, celltype)

\* A hash type never costs a caller a conversion: one that validation or the
\* conversion itself rejects on the known word has a source that is not of its
\* celltype, or is rejected by the buffer as well; and where both succeed they
\* give the same result.
KnowledgeHarmless ==
    known # Unknown => \A conv \in Legal :
        LET informed == Outcome(conv, content, known)
            blind    == Outcome(conv, content, Unknown) IN
        /\ ~informed.ok => ~blind.ok \/ ~Readable(content, conv[1])
        /\ informed.ok /\ blind.ok => informed.at = blind.at

\* Where an expression runs is decided from the word known at that moment, and
\* other threads learn more before it runs: a conversion that did not need the
\* buffer then does not need it with the word known later.
LocalStaysLocal ==
    [][known' # known => \A conv \in Legal :
          NeedsBuffer(conv, content, known') => NeedsBuffer(conv, content, known)]_typeVars

\* Whether a buffer parses does not depend on whether its hash type is known.
ParseIndependent ==
    known # Unknown => \A celltype \in Celltype :
        ValueOf(Start(content, known), celltype).ok
            = ValueOf(Start(content, Unknown), celltype).ok
=============================================================================
