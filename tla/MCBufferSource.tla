--------------------------- MODULE MCBufferSource ---------------------------
(* Instances of BufferSource for TLC. *)
EXTENDS BufferSource

CONSTANTS c1, c2, c3, f1, f2, f3

BothGetters == [o \in Owner |-> IF o = "mount" THEN {"async"} ELSE {"sync", "async"}]
=============================================================================
