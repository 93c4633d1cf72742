------------------------------ MODULE HashTypes ------------------------------
(***************************************************************************)
(* Hash types: what a process knows of a checksum without its buffer       *)
(* (seamless/checksum/hash_type.py, and the lookups of                     *)
(* seamless/checksum/hash_type_validation.py).                             *)
(*                                                                         *)
(* A hash type is a 13-bit word: the kind of the buffer, its length class, *)
(* and for an array its dtype and rank.  Words of one checksum come from   *)
(* the local classifier (from_buffer), from producers that test less (the  *)
(* three untested kinds) and from the database, in any order and from any  *)
(* thread; the cache keeps the tightest and queues it for upload.          *)
(*                                                                         *)
(* A behaviour is about one checksum, whose buffer is `content'.  Buffers  *)
(* are abstracted to what the classifier and the parsers tell apart.       *)
(***************************************************************************)
EXTENDS Naturals, FiniteSets

CONSTANTS
    Contents,   \* the buffers a behaviour may be about
    Caller,     \* coroutines that look a hash type up
    Unknown     \* no word

VARIABLES
    content,    \* the buffer of the checksum
    known,      \* _hash_type_cache[checksum]
    database,   \* the word in the remote database
    uploads,    \* words queued at the buffer writer
    lookup,     \* the callers suspended in get_hash_type_remote
    refused,    \* set_hash_type has raised ValueError
    givenUp     \* history: the upload of the word that is known was given up

typeVars == <<content, known, database, uploads, lookup, refused, givenUp>>

-----------------------------------------------------------------------------
(* Enumerations and words *)

Kind == [RAW_BYTES |-> 0, NUMPY |-> 1, MIXED_OBJECT |-> 2, MIXED_ARRAY |-> 3,
         RAW_TEXT |-> 4, JSON_OBJECT |-> 5, JSON_ARRAY |-> 6, JSON_STRING |-> 7,
         JSON_NUMBER |-> 8, UNTESTED |-> 9, UTF8_UNTESTED |-> 10,
         JSON_UNTESTED |-> 11, JSON_NULL |-> 12]
Length == [SHORT |-> 0, EQ64 |-> 1, MEDIUM |-> 2, LONG |-> 3]
DType == [NA |-> 0, NUMERIC |-> 1, NONNUMERIC |-> 2, STRUCTURED |-> 3]
Rank == [SCALAR |-> 0, D1 |-> 1, D2 |-> 2, D3PLUS |-> 3]
Flag == [NUMERIC_SCALAR |-> 1, NUMPY_BYTES |-> 2, SEMANTIC |-> 4]

MaxWord == 2^13

Pack(kind, length, dtype, rank, flags) ==
    kind + 2^4 * length + 2^6 * dtype + 2^8 * rank + 2^10 * flags

Unpack(word) ==
    [kind |-> word % 2^4, length |-> (word \div 2^4) % 2^2,
     dtype |-> (word \div 2^6) % 2^2, rank |-> (word \div 2^8) % 2^2,
     flags |-> (word \div 2^10) % 2^3]

HasFlag(t, flag) == (t.flags \div flag) % 2 = 1

IsValidWord(word) ==
    LET t == Unpack(word) IN
    /\ word < MaxWord /\ t.kind \in 0 .. 12
    /\ (t.dtype # DType.NA) <=> (t.kind = Kind.NUMPY)
    /\ t.rank = Rank.SCALAR \/ t.kind = Kind.NUMPY
    /\ HasFlag(t, Flag.NUMPY_BYTES) =>
          /\ t.kind = Kind.NUMPY
          /\ t.dtype = DType.NONNUMERIC /\ t.rank = Rank.SCALAR
    /\ t.kind = Kind.JSON_NUMBER => HasFlag(t, Flag.NUMERIC_SCALAR)
    /\ HasFlag(t, Flag.NUMERIC_SCALAR) =>
          t.kind \in {Kind.JSON_NUMBER, Kind.JSON_STRING}
    /\ ~HasFlag(t, Flag.SEMANTIC)

IsJson(t) ==
    t.kind \in {Kind.JSON_OBJECT, Kind.JSON_ARRAY, Kind.JSON_STRING,
                Kind.JSON_NUMBER, Kind.JSON_NULL, Kind.JSON_UNTESTED}

IsUtf8(t) == IsJson(t) \/ t.kind \in {Kind.RAW_TEXT, Kind.UTF8_UNTESTED}

IsUntested(t) ==
    t.kind \in {Kind.UNTESTED, Kind.UTF8_UNTESTED, Kind.JSON_UNTESTED}

\* A plausible slip: the flags, placeholders in an untested word, have to agree.
FaultyImplies(tighter, looser) ==
    LET s == Unpack(tighter)
        t == Unpack(looser) IN
    /\ s.length = t.length /\ s.flags = t.flags
    /\ \/ t.kind = Kind.UNTESTED
       \/ t.kind = Kind.UTF8_UNTESTED /\ IsUtf8(s)
       \/ t.kind = Kind.JSON_UNTESTED /\ IsJson(s)
       \/ s = t

\* _hash_type_implies: the tighter word states every fact of the looser one.
Implies(tighter, looser) ==
    LET s == Unpack(tighter)
        t == Unpack(looser) IN
    /\ s.length = t.length
    /\ \/ t.kind = Kind.UNTESTED
       \/ t.kind = Kind.UTF8_UNTESTED /\ IsUtf8(s)
       \/ t.kind = Kind.JSON_UNTESTED /\ IsJson(s)
       \/ s = t

-----------------------------------------------------------------------------
(* Buffers.  A JSON string and a bytes array hold another buffer's text.   *)

\* The forms of text that is not JSON: a Python statement, prose, an IPython
\* magic, the word True, nothing, and a checksum's hex digest.
TextForm == {"code", "prose", "magic", "True", "empty", "digest"}
NumberForm == {"number", "long_number", "digits"}
DigestForm == {"digest", "digits"}
JsonForm == NumberForm \union
    {"object", "array", "ragged", "string", "true", "null",
     "spaced_true", "spaced_null"}
ArrayForm ==
    [number0 |-> [dtype |-> DType.NUMERIC, rank |-> Rank.SCALAR],
     nan0    |-> [dtype |-> DType.NUMERIC, rank |-> Rank.SCALAR],
     number1 |-> [dtype |-> DType.NUMERIC, rank |-> Rank.D1],
     number2 |-> [dtype |-> DType.NUMERIC, rank |-> Rank.D2],
     number3 |-> [dtype |-> DType.NUMERIC, rank |-> Rank.D3PLUS],
     bytes0  |-> [dtype |-> DType.NONNUMERIC, rank |-> Rank.SCALAR],
     bytes1  |-> [dtype |-> DType.NONNUMERIC, rank |-> Rank.D1],
     words0  |-> [dtype |-> DType.NONNUMERIC, rank |-> Rank.SCALAR],
     record1 |-> [dtype |-> DType.STRUCTURED, rank |-> Rank.D1]]
MixedForm == {"mixed_object", "mixed_array", "mixed_corrupt"}
OpaqueForm == {"noise", "npy_corrupt", "mixed_broken"}
Form == TextForm \union JsonForm \union DOMAIN ArrayForm \union MixedForm \union OpaqueForm

ASSUME TypesAssumption ==
    /\ \A c \in Contents : c.form \in Form /\ c.length \in 0 .. 3
    /\ Unknown \notin Nat

Nothing == [form |-> "nothing"]

\* _length_bucket of a buffer that holds no other buffer's text.
LengthOf(form, newline) ==
    CASE form \in DigestForm /\ ~newline -> Length.EQ64
      [] form = "long_number" -> Length.LONG
      [] form \in DigestForm \union MixedForm \union DOMAIN ArrayForm -> Length.MEDIUM
      [] OTHER -> Length.SHORT

Plainly(form, newline) ==
    [form |-> form, newline |-> newline, of |-> Nothing,
     length |-> LengthOf(form, newline)]

\* A text without its trailing newline, and with one.
Stripped(c) ==
    [c EXCEPT !.newline = FALSE,
              !.length = IF c.form \in DigestForm THEN Length.EQ64 ELSE @]
Line(c) ==
    [c EXCEPT !.newline = TRUE,
              !.length = IF c.form \in DigestForm THEN Length.MEDIUM ELSE @]

\* The JSON string of a text, and the dtype-S scalar array of a buffer.
Quoted(c) ==
    [form |-> "string", newline |-> TRUE, of |-> Stripped(c),
     length |-> IF c.form \in DigestForm THEN Length.MEDIUM ELSE c.length]
Boxed(c) ==
    [form |-> "bytes0", newline |-> FALSE, of |-> c,
     length |-> IF c.length = Length.LONG THEN Length.LONG ELSE Length.MEDIUM]

IsText(c) == c.form \in TextForm \union JsonForm

\* Checksums that are known by heart, with or without a newline.
IsNull(c) == c.form = "null"
IsBool(c) == c.form = "true"

\* A JSON string whose float() is finite.
IsNumericString(c) == c.form = "string" /\ c.of.form \in NumberForm

-----------------------------------------------------------------------------
(* from_buffer *)

JsonKind(form) ==
    CASE form = "object" -> Kind.JSON_OBJECT
      [] form \in {"array", "ragged"} -> Kind.JSON_ARRAY
      [] form \in {"string", "true", "spaced_true"} -> Kind.JSON_STRING
      [] form \in NumberForm -> Kind.JSON_NUMBER
      [] form \in {"null", "spaced_null"} -> Kind.JSON_NULL

NumpyWord(c) ==
    LET a == ArrayForm[c.form] IN
    Pack(Kind.NUMPY, c.length, a.dtype, a.rank,
         IF c.form = "bytes0" THEN Flag.NUMPY_BYTES ELSE 0)

PlainWord(kind, c, flags) == Pack(kind, c.length, DType.NA, Rank.SCALAR, flags)

\* A magic prefix alone does not make an array or a mixed buffer; of a mixed
\* buffer only the header is read.
FromBuffer(c) ==
    CASE c.form \in DOMAIN ArrayForm -> NumpyWord(c)
      [] c.form \in {"mixed_object", "mixed_corrupt"} ->
            PlainWord(Kind.MIXED_OBJECT, c, 0)
      [] c.form = "mixed_array" -> PlainWord(Kind.MIXED_ARRAY, c, 0)
      [] c.form \in OpaqueForm -> PlainWord(Kind.RAW_BYTES, c, 0)
      [] c.form \in TextForm -> PlainWord(Kind.RAW_TEXT, c, 0)
      [] c.form \in JsonForm ->
            PlainWord(JsonKind(c.form), c,
                IF c.form \in NumberForm \/ IsNumericString(c)
                THEN Flag.NUMERIC_SCALAR ELSE 0)

\* The words that a producer may state of a buffer: what it tested is true.
TrueWords(c) ==
    {FromBuffer(c), PlainWord(Kind.UNTESTED, c, 0)}
      \union (IF IsText(c) THEN {PlainWord(Kind.UTF8_UNTESTED, c, 0)} ELSE {})
      \union (IF c.form \in JsonForm THEN {PlainWord(Kind.JSON_UNTESTED, c, 0)} ELSE {})

-----------------------------------------------------------------------------
(* deserializable_as: "True" (proven), "False" (disproved), "None" *)

Celltype == {"binary", "mixed", "text", "python", "ipython", "plain", "yaml",
             "str", "bytes", "int", "float", "bool", "checksum"}

Answer(proven) == IF proven THEN "True" ELSE "False"
Perhaps(possible) == IF possible THEN "None" ELSE "False"
Surely(proven) == IF proven THEN "True" ELSE "None"

UntestedAnswer(t, celltype, c) ==
    CASE celltype = "text" -> Surely(IsUtf8(t))
      [] celltype \in {"yaml", "ipython", "python"} -> "None"
      [] celltype \in {"plain", "mixed"} -> Surely(IsJson(t))
      [] celltype = "str" -> Surely(IsBool(c))
      [] celltype \in {"int", "float"} -> Perhaps(t.length # Length.LONG)
      [] celltype = "binary" -> Perhaps(t.kind = Kind.UNTESTED)
      [] celltype = "checksum" -> Perhaps(t.length = Length.EQ64)

\* A plausible slip: a digest of decimal digits is a JSON number, not text.
FaultyTestedAnswer(t, celltype, c) ==
    CASE celltype = "text" -> Answer(IsUtf8(t))
      [] celltype \in {"yaml", "ipython", "python"} -> Perhaps(IsUtf8(t))
      [] celltype = "plain" -> Answer(IsJson(t))
      [] celltype = "str" -> Answer(t.kind \in {Kind.JSON_NUMBER, Kind.JSON_STRING})
      [] celltype \in {"int", "float"} ->
            Answer(t.length # Length.LONG /\ HasFlag(t, Flag.NUMERIC_SCALAR))
      [] celltype = "binary" -> Answer(t.kind = Kind.NUMPY)
      [] celltype = "mixed" ->
            IF t.kind \in {Kind.MIXED_OBJECT, Kind.MIXED_ARRAY} THEN "None"
            ELSE Answer(t.kind \notin {Kind.RAW_BYTES, Kind.RAW_TEXT})
      [] celltype = "checksum" ->
            Perhaps(t.kind = Kind.RAW_TEXT /\ t.length = Length.EQ64)

TestedAnswer(t, celltype, c) ==
    CASE celltype = "text" -> Answer(IsUtf8(t))
      [] celltype \in {"yaml", "ipython", "python"} -> Perhaps(IsUtf8(t))
      [] celltype = "plain" -> Answer(IsJson(t))
      [] celltype = "str" -> Answer(t.kind \in {Kind.JSON_NUMBER, Kind.JSON_STRING})
      [] celltype \in {"int", "float"} ->
            Answer(t.length # Length.LONG /\ HasFlag(t, Flag.NUMERIC_SCALAR))
      [] celltype = "binary" -> Answer(t.kind = Kind.NUMPY)
      [] celltype = "mixed" ->
            IF t.kind \in {Kind.MIXED_OBJECT, Kind.MIXED_ARRAY} THEN "None"
            ELSE Answer(t.kind \notin {Kind.RAW_BYTES, Kind.RAW_TEXT})
      [] celltype = "checksum" ->
            Perhaps(t.kind \in {Kind.RAW_TEXT, Kind.JSON_NUMBER}
                      /\ t.length = Length.EQ64)

DeserializableAs(word, celltype, c) ==
    LET t == Unpack(word) IN
    CASE IsNull(c) \/ celltype = "bytes" -> "True"
      [] celltype = "bool" /\ ~IsNull(c) -> Answer(IsBool(c))
      [] OTHER -> IF IsUntested(t) THEN UntestedAnswer(t, celltype, c)
                  ELSE TestedAnswer(t, celltype, c)

-----------------------------------------------------------------------------
(* The cache and the lookups *)

Idle == [at |-> "idle"]

TypesInit ==
    /\ content \in Contents
    /\ known = Unknown
    /\ database \in TrueWords(content) \union {Unknown}
    /\ uploads = {}
    /\ lookup = [p \in Caller |-> Idle]
    /\ refused = FALSE
    /\ givenUp = FALSE

\* A plausible slip: only a checksum that was unknown is queued for upload.
FaultySetHashType(word, upload) ==
    LET news == known = Unknown \/ (~Implies(known, word) /\ Implies(word, known)) IN
    /\ known' = IF news THEN word ELSE known
    /\ uploads' = IF known = Unknown /\ upload THEN uploads \union {word} ELSE uploads
    /\ refused' = (refused \/ ~IsValidWord(word) \/ ~(news \/ Implies(known, word)))
    /\ givenUp' = (givenUp /\ ~news)

\* _set_hash_type, under the lock: tighter words are stored and queued, looser
\* ones ignored, invalid and contradictory ones refused with a ValueError.
SetHashType(word, upload) ==
    LET valid == IsValidWord(word)
        news  == /\ valid
                 /\ known = Unknown \/ (~Implies(known, word) /\ Implies(word, known))
    IN
    /\ known' = IF news THEN word ELSE known
    /\ uploads' = IF news /\ upload THEN uploads \union {word} ELSE uploads
    /\ refused' = (refused \/ ~valid \/ ~(news \/ Implies(known, word)))
    /\ givenUp' = (givenUp /\ ~news)

\* register_hash_type_for_buffer: every checksum calculation and every parse
\* of a buffer without a known word.
RegisterHashTypeForBuffer ==
    /\ SetHashType(FromBuffer(content), TRUE)
    /\ UNCHANGED <<content, database, lookup>>

\* set_hash_type and set_hash_type_remote, by a producer that tested as much
\* as its word says.
SetHashTypeRemote ==
    /\ \E word \in TrueWords(content) : SetHashType(word, TRUE)
    /\ UNCHANGED <<content, database, lookup>>

\* ensure_hash_type_async: a checksum that is not known locally is asked of
\* the database.
EnsureHashTypeAsync(p) ==
    /\ lookup[p] = Idle
    /\ known = Unknown
    /\ lookup' = [lookup EXCEPT ![p] = [at |-> "asking"]]
    /\ UNCHANGED <<content, known, database, uploads, refused, givenUp>>

DatabaseAnswers(p) ==
    /\ lookup[p].at = "asking"
    /\ lookup' = [lookup EXCEPT ![p] = [at |-> "answered", word |-> database]]
    /\ UNCHANGED <<content, known, database, uploads, refused, givenUp>>

\* The answer is stored without an upload; with no answer the buffer is
\* classified, if the caller has it at hand.
EnsureResumes(p) ==
    /\ lookup[p].at = "answered"
    /\ lookup' = [lookup EXCEPT ![p] = Idle]
    /\ \/ /\ lookup[p].word # Unknown
          /\ SetHashType(lookup[p].word, FALSE)
       \/ /\ lookup[p].word = Unknown
          /\ SetHashType(FromBuffer(content), TRUE)
       \/ /\ lookup[p].word = Unknown
          /\ UNCHANGED <<known, uploads, refused, givenUp>>
    /\ UNCHANGED <<content, database>>

\* The database keeps the tightest word that it is given.
Stored(word) == IF database = Unknown \/ Implies(word, database) THEN word ELSE database

\* A queued word is written; words of one checksum have keys of their own, so
\* the writer may write them in any order.
UploadWritten ==
    \E word \in uploads :
        /\ uploads' = uploads \ {word}
        /\ database' = Stored(word)
        /\ UNCHANGED <<content, known, lookup, refused, givenUp>>

\* The database refuses the word, or the write has failed four times: the writer
\* removes it, and as set_hash_type queues news only, it is not queued again.
UploadGivenUp ==
    \E word \in uploads :
        /\ uploads' = uploads \ {word}
        /\ givenUp' = (givenUp \/ word = known)
        /\ UNCHANGED <<content, known, database, lookup, refused>>

\* Another process writes a word of the same checksum.
OtherProcessWrites ==
    /\ \E word \in TrueWords(content) :
          database' = Stored(word) /\ database' # database
    /\ UNCHANGED <<content, known, uploads, lookup, refused, givenUp>>

TypesNext ==
    \/ RegisterHashTypeForBuffer \/ SetHashTypeRemote
    \/ UploadWritten \/ UploadGivenUp \/ OtherProcessWrites
    \/ \E p \in Caller : EnsureHashTypeAsync(p) \/ DatabaseAnswers(p) \/ EnsureResumes(p)

-----------------------------------------------------------------------------
(* Properties *)

\* Words that state facts of one buffer never contradict each other and are
\* always well-formed, so that no thread, in whatever order the classifier,
\* the untested producers and the database's late answers arrive, gets the
\* ValueError of set_hash_type while it only calculates a checksum.
NeverRefused == ~refused

\* What this process has learnt itself reaches the others, unless it was given
\* up: the word it knows is queued, or the database has it or a tighter one, or
\* the upload of this very word was refused or failed.  So it is also when a
\* looser word came from the database first, is written later, or was given up.
KnowledgeShared ==
    \/ known \in {Unknown} \union uploads \/ givenUp
    \/ database # Unknown /\ Implies(database, known)

\* The inductive invariant.  Whatever is known, stored, queued or under way is
\* true of the buffer, and the database still knows as much as it answered.
Word == TrueWords(content) \union {Unknown}

WordsTrue ==
    /\ content \in Contents
    /\ known \in Word /\ database \in Word
    /\ uploads \subseteq TrueWords(content)
    /\ givenUp \in BOOLEAN
    /\ lookup \in [Caller -> {Idle, [at |-> "asking"]} \union [at : {"answered"}, word : Word]]

AnswersKept ==
    \A p \in Caller : lookup[p].at = "answered" /\ lookup[p].word # Unknown =>
        database # Unknown /\ Implies(database, lookup[p].word)

TypesInv == WordsTrue /\ AnswersKept /\ NeverRefused /\ KnowledgeShared
=============================================================================
