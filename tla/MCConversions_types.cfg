\* Everything that is known of one checksum, from every producer, and every
\* conversion of it.
SPECIFICATION Spec
CONSTANTS
    Contents <- MCContents
    Caller = {c1}
    Unknown = Unknown
INVARIANTS
    NeverRefused
    KnowledgeShared
    AnswersSound
    KnowledgeHarmless
PROPERTY
    LocalStaysLocal
