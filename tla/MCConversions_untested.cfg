\* Whether a buffer parses depends on an untested word that is known of it.
SPECIFICATION Spec
CONSTANTS
    Contents <- MCContents
    Caller = {c1}
    Unknown = Unknown
INVARIANT
    ParseIndependent
