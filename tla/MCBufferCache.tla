--------------------------- MODULE MCBufferCache ---------------------------
(***************************************************************************)
(* Small instances of BufferCache.                                         *)
(*   one:   one checksum, two Buffer objects with its content, two threads *)
(*   evict: three checksums of different lengths with one object each, one *)
(*          thread, and the operations that matter to eviction             *)
(***************************************************************************)
EXTENDS BufferCache

CONSTANTS c1, c2, c3, b1, b2, b3, t1

OneContent == (b1 :> c1) @@ (b2 :> c1)
OneLength == c1 :> 1

ThreeContent == (b1 :> c1) @@ (b2 :> c2) @@ (b3 :> c3)
ThreeLength == (c1 :> 1) @@ (c2 :> 2) @@ (c3 :> 0)

\* The evict instance leaves out manual references, scratch marks, purges
\* and transfer writes,
\* which the one instance covers.
EvictNext ==
    \/ HandOff(t1)
    \/ ForceClearReferenceAccounting(t1)
    \/ RunEvictionOnce(t1)
    \/ \E b \in Buffer : Register(t1, b) \/ Drop(b) \/ Collect(b)
    \/ \E c \in Checksum :
        \/ DecrefRefholder(t1, c) \/ Fade(c)
        \/ IncrefRefholder(t1, c, NoBuffer, "owner")
        \/ Tempref(t1, c, NoBuffer)

EvictSpec == Init /\ [][EvictNext]_vars

\* The program before its shutdown: no forced clean-up.
OpenSpec ==
    Init /\ [][Next /\ ~\E t \in Thread : ForceClearReferenceAccounting(t)]_vars
============================================================================
