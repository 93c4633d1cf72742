---------------------------- MODULE BufferCache ----------------------------
(***************************************************************************)
(* The central buffer cache: src/seamless/caching/buffer_cache.py.         *)
(*                                                                         *)
(* Every public method of class BufferCache is one action: its body runs   *)
(* under self.lock.  A method that finds a buffer to publish does not hand *)
(* it to the buffer writer under that lock but after releasing it; the     *)
(* buffer then sits in handoff[t], and thread t must take HandOff(t)       *)
(* before it can call the cache again, while the other threads go on.      *)
(*                                                                         *)
(* Buffers are Python objects.  Two objects may have the same content, so  *)
(* the same checksum; weak_cache remembers one of them, and forgets it     *)
(* when nobody else holds it (Collect).                                    *)
(*                                                                         *)
(* An operator whose name starts with Faulty is not part of the model: it  *)
(* is the operator after it with a plausible bug, kept to show that the    *)
(* properties notice the bug.                                              *)
(***************************************************************************)
EXTENDS Integers, FiniteSets, FiniteSetsExt, SequencesExt

CONSTANTS
    Checksum,   \* the checksums of the instance
    Buffer,     \* the Buffer objects the program may create
    ContentOf,  \* ContentOf[b]: the checksum of the content of object b
    Length,     \* Length[c]: the number of bytes of the buffer of c
    Thread,     \* the threads that call the cache
    SoftCap,    \* self.soft_cap
    MaxRefs,    \* bound: manual refs, and refholders, of one checksum
    NoBuffer    \* Python's None where a Buffer is expected

ASSUME BufferAssumption ==
    /\ IsFiniteSet(Checksum)
    /\ ContentOf \in [Buffer -> Checksum]
    /\ NoBuffer \notin Buffer

ASSUME BoundsAssumption ==
    /\ Length \in [Checksum -> Nat]
    /\ SoftCap \in Nat
    /\ MaxRefs \in Nat

VARIABLES
    strong_cache,      \* checksum -> StrongEntry, for the checksums with an entry
    weak_cache,        \* the object weakly remembered for each checksum
    sizes,             \* the checksums with a size in self._sizes
    scratch_refs,      \* self._scratch_refs
    refholder_counts,  \* logical lifecycle references
    interest,          \* direct interest counted by eviction_cost
    handoff,           \* the buffer a thread has yet to give to buffer_writer
    live,              \* the Buffer objects the program itself holds
    written,           \* checksums given to buffer_writer.register so far
    asked,             \* history: checksums some caller asked to publish
    transferred,       \* history: checksums given to transfer_write
    skipped,           \* history: deferred writes dropped by a scratch attach
    claims             \* history: manual references their owners still hold

cacheVars == <<strong_cache, weak_cache, sizes, scratch_refs, refholder_counts,
               interest>>
historyVars == <<asked, transferred, skipped, claims>>
vars == <<cacheVars, handoff, live, written, historyVars>>

-----------------------------------------------------------------------------
(* State *)

Maybe(S) == S \union {NoBuffer}

\* A live tempref protects; a faded one (interest below the minimum) and a
\* cleared one no longer do, but stay in the entry until eviction.
TempRef == {"none", "live", "faded", "cleared"}

StrongEntry ==
    [buffer : Maybe(Buffer), sized : BOOLEAN, manual_refs : Nat,
     has_refholder_bridge : BOOLEAN, tempref : TempRef,
     remote_registered : BOOLEAN]

TypeOK ==
    /\ \E S \in SUBSET Checksum : strong_cache \in [S -> StrongEntry]
    /\ weak_cache \in [Checksum -> Maybe(Buffer)]
    /\ sizes \subseteq Checksum
    /\ scratch_refs \subseteq Checksum
    /\ refholder_counts \in [Checksum -> Nat]
    /\ interest \in [Checksum -> Nat]
    /\ handoff \in [Thread -> Maybe(Buffer)]
    /\ live \subseteq Buffer
    /\ written \subseteq Checksum
    /\ asked \subseteq Checksum
    /\ transferred \subseteq Checksum
    /\ skipped \subseteq Checksum
    /\ claims \in [Checksum -> Nat]

Init ==
    /\ strong_cache = [c \in {} |-> {}]
    /\ weak_cache = [c \in Checksum |-> NoBuffer]
    /\ sizes = {}
    /\ scratch_refs = {}
    /\ refholder_counts = [c \in Checksum |-> 0]
    /\ interest = [c \in Checksum |-> 0]
    /\ handoff = [t \in Thread |-> NoBuffer]
    /\ live = {}
    /\ written = {}
    /\ asked = {}
    /\ transferred = {}
    /\ skipped = {}
    /\ claims = [c \in Checksum |-> 0]

Cached == DOMAIN strong_cache

\* The strong cache with entry e at c, and without the checksums of D.
StrongWith(c, e) ==
    [d \in Cached \union {c} |-> IF d = c THEN e ELSE strong_cache[d]]
StrongWithout(D) == [d \in Cached \ D |-> strong_cache[d]]

\* The buffers a caller may pass for c: None, or an object it holds.
Offered(c) == {NoBuffer} \union {b \in live : ContentOf[b] = c}

Idle(t) == handoff[t] = NoBuffer

-----------------------------------------------------------------------------
(* Registration and lookup *)

\* An entry that learns its buffer also learns its size; if a claim asked for
\* a remote copy before there was a buffer, the buffer is written now.
FaultyRegisteredEntry(e, b) == [e EXCEPT !.buffer = b]
RegisteredEntry(e, b) == [e EXCEPT !.buffer = b, !.sized = TRUE]
FaultyLateWrite(e, b) == NoBuffer
LateWrite(e, b) == IF e.buffer = NoBuffer /\ e.remote_registered THEN b ELSE NoBuffer

\* Create a Buffer object and compute its checksum, or register one again.
\* Every caller in the repository passes the size.
Register(t, b) ==
    LET c == ContentOf[b]
        e == strong_cache[c]
    IN  /\ Idle(t)
        /\ live' = live \union {b}
        /\ sizes' = sizes \union {c}
        /\ weak_cache' = [weak_cache EXCEPT ![c] = b]
        /\ IF c \in Cached
             THEN /\ strong_cache' = StrongWith(c, RegisteredEntry(e, b))
                  /\ handoff' = [handoff EXCEPT ![t] = LateWrite(e, b)]
             ELSE UNCHANGED <<strong_cache, handoff>>
        /\ UNCHANGED <<scratch_refs, refholder_counts, interest, written, historyVars>>

\* The caller keeps the buffer it gets; an entry without one is promoted.
Get(t, c) ==
    LET strongest == IF c \in Cached THEN strong_cache[c].buffer ELSE NoBuffer
        found == IF strongest # NoBuffer THEN strongest ELSE weak_cache[c]
    IN  /\ Idle(t)
        /\ found # NoBuffer
        /\ live' = live \union {found}
        /\ strong_cache' = IF c \in Cached
                             THEN StrongWith(c, [strong_cache[c] EXCEPT !.buffer = found])
                             ELSE strong_cache
        /\ UNCHANGED <<weak_cache, sizes, scratch_refs, refholder_counts, interest,
                       handoff, written, historyVars>>

-----------------------------------------------------------------------------
(* References *)

NewEntry(c) ==
    [buffer |-> NoBuffer, sized |-> c \in sizes, manual_refs |-> 0,
     has_refholder_bridge |-> FALSE, tempref |-> "none",
     remote_registered |-> FALSE]

CurrentEntry(c) == IF c \in Cached THEN strong_cache[c] ELSE NewEntry(c)

\* The buffer that _ensure_entry_locked knows: its argument, or the weak one.
FaultyKnown(c, b) == b
Known(c, b) == IF b # NoBuffer THEN b ELSE weak_cache[c]

\* The entry that _ensure_entry_locked returns ...
FaultyEnsuredEntry(c, b, scratch) ==
    [CurrentEntry(c) EXCEPT
        !.buffer = Known(c, b), !.remote_registered = @ \/ ~scratch]

EnsuredEntry(c, b, scratch) ==
    [CurrentEntry(c) EXCEPT
        !.buffer = IF @ = NoBuffer THEN Known(c, b) ELSE @,
        !.remote_registered = @ \/ ~scratch]

\* ... and the buffer it wants written once the lock is released.
FaultyWriteBuffer(c, b, scratch) ==
    LET e == CurrentEntry(c)
    IN  IF e.buffer = NoBuffer THEN Known(c, b)
        ELSE IF e.remote_registered THEN NoBuffer
        ELSE e.buffer

WriteBuffer(c, b, scratch) ==
    LET e == CurrentEntry(c)
    IN  IF scratch THEN NoBuffer
        ELSE IF e.buffer = NoBuffer THEN Known(c, b)
        ELSE IF e.remote_registered THEN NoBuffer
        ELSE e.buffer

\* What every method that calls _ensure_entry_locked does to the bookkeeping.
EnsureEntry(t, c, b, scratch) ==
    /\ interest' = [interest EXCEPT ![c] = IF c \in Cached THEN @ ELSE @ + 1]
    /\ handoff' = [handoff EXCEPT ![t] = WriteBuffer(c, b, scratch)]
    /\ asked' = IF scratch THEN asked ELSE asked \union {c}
    /\ skipped' = IF /\ scratch
                     /\ CurrentEntry(c).buffer = NoBuffer
                     /\ CurrentEntry(c).remote_registered
                     /\ Known(c, b) # NoBuffer
                    THEN skipped \union {c} ELSE skipped
    /\ UNCHANGED <<weak_cache, sizes, live, written>>

HasLiveTempref(e) == e.tempref = "live"
FaultyProtected(e) == e.manual_refs # 0
FaultyProtectedByBridge(e) == e.has_refholder_bridge
Protected(e) == e.manual_refs # 0 \/ e.has_refholder_bridge
CanDemote(e) == ~Protected(e) /\ ~HasLiveTempref(e)

\* Give c the entry e, or demote it: the buffer goes back to the weak cache
\* and the cost module's interest ends.
FaultyStoreOrDemote(c, e) ==
    IF CanDemote(e)
      THEN /\ strong_cache' = StrongWithout({c})
           /\ weak_cache' = [weak_cache EXCEPT ![c] = IF e.buffer # NoBuffer THEN e.buffer ELSE @]
           /\ UNCHANGED interest
      ELSE /\ strong_cache' = StrongWith(c, e)
           /\ UNCHANGED <<weak_cache, interest>>

StoreOrDemote(c, e) ==
    IF CanDemote(e)
      THEN /\ strong_cache' = StrongWithout({c})
           /\ weak_cache' = [weak_cache EXCEPT ![c] = IF e.buffer # NoBuffer THEN e.buffer ELSE @]
           /\ interest' = [interest EXCEPT ![c] = @ - 1]
      ELSE /\ strong_cache' = StrongWith(c, e)
           /\ UNCHANGED <<weak_cache, interest>>

Incref(t, c, b, scratch) ==
    LET e == EnsuredEntry(c, b, scratch)
    IN  /\ Idle(t)
        /\ e.manual_refs < MaxRefs
        /\ scratch_refs' = IF scratch THEN scratch_refs \union {c} ELSE scratch_refs \ {c}
        /\ strong_cache' = StrongWith(c, [e EXCEPT !.manual_refs = @ + 1])
        /\ EnsureEntry(t, c, b, scratch)
        /\ claims' = [claims EXCEPT ![c] = @ + 1]
        /\ UNCHANGED <<refholder_counts, transferred>>

\* A decref without a reference to release only warns and returns False.
FaultyDecref(t, c) ==
    /\ Idle(t)
    /\ c \in Cached
    /\ StoreOrDemote(c, [strong_cache[c] EXCEPT !.manual_refs = @ - 1])
    /\ claims' = [claims EXCEPT ![c] = @ - 1]
    /\ UNCHANGED <<sizes, scratch_refs, refholder_counts, handoff, live, written,
                   asked, transferred, skipped>>

Decref(t, c) ==
    /\ Idle(t)
    /\ c \in Cached
    /\ strong_cache[c].manual_refs # 0
    /\ StoreOrDemote(c, [strong_cache[c] EXCEPT !.manual_refs = @ - 1])
    /\ claims' = [claims EXCEPT ![c] = @ - 1]
    /\ UNCHANGED <<sizes, scratch_refs, refholder_counts, handoff, live, written,
                   asked, transferred, skipped>>

\* What a refholder says about scratch: an owner's claim is scratch or not, a
\* neutral claim (scratch=None) only protects.
HolderKind == {"owner", "scratch", "neutral"}

IncrefRefholder(t, c, b, kind) ==
    LET e == EnsuredEntry(c, b, kind # "owner")
    IN  /\ Idle(t)
        /\ refholder_counts[c] < MaxRefs
        /\ scratch_refs' = CASE kind = "scratch" -> scratch_refs \union {c}
                             [] kind = "owner"   -> scratch_refs \ {c}
                             [] OTHER            -> scratch_refs
        /\ strong_cache' = StrongWith(c, [e EXCEPT
                !.has_refholder_bridge = @ \/ refholder_counts[c] = 0])
        /\ refholder_counts' = [refholder_counts EXCEPT ![c] = @ + 1]
        /\ EnsureEntry(t, c, b, kind # "owner")
        /\ UNCHANGED <<transferred, claims>>

DecrefRefholder(t, c) ==
    /\ Idle(t)
    /\ refholder_counts[c] # 0
    /\ refholder_counts' = [refholder_counts EXCEPT ![c] = @ - 1]
    /\ IF refholder_counts[c] = 1 /\ c \in Cached
         THEN StoreOrDemote(c, [strong_cache[c] EXCEPT !.has_refholder_bridge = FALSE])
         ELSE UNCHANGED <<strong_cache, weak_cache, interest>>
    /\ UNCHANGED <<sizes, scratch_refs, handoff, live, written, historyVars>>

\* Final shutdown: no reference survives, live temprefs do.
ForceClearReferenceAccounting(t) ==
    LET cleared == [c \in Cached |-> [strong_cache[c] EXCEPT
                        !.manual_refs = 0, !.has_refholder_bridge = FALSE]]
        demoted == {c \in Cached : CanDemote(cleared[c])}
    IN  /\ Idle(t)
        /\ refholder_counts' = [c \in Checksum |-> 0]
        /\ claims' = [c \in Checksum |-> 0]
        /\ strong_cache' = [c \in Cached \ demoted |-> cleared[c]]
        /\ weak_cache' = [c \in Checksum |->
                IF c \in demoted /\ cleared[c].buffer # NoBuffer
                  THEN cleared[c].buffer ELSE weak_cache[c]]
        /\ interest' = [c \in Checksum |->
                IF c \in demoted THEN interest[c] - 1 ELSE interest[c]]
        /\ UNCHANGED <<sizes, scratch_refs, handoff, live, written,
                       asked, transferred, skipped>>

\* A tempref is scratch, and neutral about scratch status.
Tempref(t, c, b) ==
    /\ Idle(t)
    /\ strong_cache' = StrongWith(c, [EnsuredEntry(c, b, TRUE) EXCEPT !.tempref = "live"])
    /\ EnsureEntry(t, c, b, TRUE)
    /\ UNCHANGED <<scratch_refs, refholder_counts, transferred, claims>>

TransferWrite(t, c, b) ==
    /\ Idle(t)
    /\ scratch_refs' = scratch_refs \ {c}
    /\ strong_cache' = StrongWith(c, EnsuredEntry(c, b, FALSE))
    /\ EnsureEntry(t, c, b, FALSE)
    /\ transferred' = transferred \union {c}
    /\ UNCHANGED <<refholder_counts, claims>>

MarkScratch(t, c) ==
    /\ Idle(t)
    /\ scratch_refs' = scratch_refs \union {c}
    /\ UNCHANGED <<strong_cache, weak_cache, sizes, refholder_counts, interest,
                   handoff, live, written, historyVars>>

\* purge_scratch(c) with D = {c}, and purge_scratch() with D = scratch_refs.
\* Temprefs are the only way a tempref_scratch flag is set.
PurgeScratch(t, D) ==
    LET dropped == {c \in D \intersect Cached :
                        ~Protected(strong_cache[c]) /\ strong_cache[c].tempref # "none"}
    IN  /\ Idle(t)
        /\ strong_cache' = StrongWithout(dropped)
        /\ weak_cache' = [c \in Checksum |->
                IF c \in (D \ Cached) \union dropped THEN NoBuffer ELSE weak_cache[c]]
        /\ interest' = [c \in Checksum |->
                IF c \in dropped THEN interest[c] - 1 ELSE interest[c]]
        /\ UNCHANGED <<sizes, scratch_refs, refholder_counts, handoff, live, written,
                       historyVars>>

SetTempref(c, s) ==
    /\ strong_cache' = StrongWith(c, [strong_cache[c] EXCEPT !.tempref = s])
    /\ UNCHANGED <<weak_cache, sizes, scratch_refs, refholder_counts, interest,
                   handoff, live, written, historyVars>>

\* refresh_tempref restarts the decay; a cleared interest stays zero.
RefreshTempref(t, c) ==
    /\ Idle(t)
    /\ c \in Cached
    /\ strong_cache[c].tempref \in {"live", "faded"}
    /\ SetTempref(c, "live")

\* TempRef.clear() by whoever called tempref().
ClearTempref(t, c) ==
    /\ Idle(t)
    /\ c \in Cached
    /\ strong_cache[c].tempref \in {"live", "faded"}
    /\ SetTempref(c, "cleared")

\* Time passes: current_interest() falls below TEMPREF_MINIMAL_INTEREST.
Fade(c) ==
    /\ c \in Cached
    /\ strong_cache[c].tempref = "live"
    /\ SetTempref(c, "faded")

-----------------------------------------------------------------------------
(* Eviction *)

\* Bytes that the checksums of S account for in the strong cache.
Usage(S) == MapThenSumSet(LAMBDA c : IF strong_cache[c].sized THEN Length[c] ELSE 0, S)

\* First pass: temprefs that faded go, and with them unprotected entries.
Expired == {c \in Cached : strong_cache[c].tempref \in {"faded", "cleared"}}
ExpiredDemoted == {c \in Expired : ~Protected(strong_cache[c])}

\* Candidates with a finite score: unprotected entries of known, nonzero size
\* whose eviction cost is finite.  The checksums in priceless have an infinite
\* one: a dependency without a length, or on a cycle (EvictionCost.tla).
Evictable(S, priceless) == {c \in S \ priceless : /\ ~Protected(strong_cache[c])
                                                 /\ strong_cache[c].sized
                                                 /\ Length[c] > 0}

\* Second pass: candidates leave in the order of their scores until the rest
\* fits.  Scores are products of measured costs and decayed interest, so any
\* order of the candidates is possible; n of them leave.
FaultyPrefix(order, n) == {order[i] : i \in 1..(n - 1)}
Prefix(order, n) == {order[i] : i \in 1..n}
Fits(S, order, n) == Usage(S) - Usage(Prefix(order, n)) <= SoftCap
StopsAfter(S, order, n) ==
    /\ n = Len(order) \/ Fits(S, order, n)
    /\ \A k \in 0..(n - 1) : ~Fits(S, order, k)

\* The entries of D are demoted, faded temprefs go.
Evict(D) ==
    /\ strong_cache' = [c \in Cached \ D |->
            IF c \in Expired THEN [strong_cache[c] EXCEPT !.tempref = "none"]
            ELSE strong_cache[c]]
    /\ weak_cache' = [c \in Checksum |->
            IF c \in D /\ strong_cache[c].buffer # NoBuffer
              THEN strong_cache[c].buffer ELSE weak_cache[c]]
    /\ interest' = [c \in Checksum |-> IF c \in D THEN interest[c] - 1 ELSE interest[c]]

EvictionPass(t, priceless) ==
    LET rest == Cached \ ExpiredDemoted
    IN  /\ Idle(t)
        /\ UNCHANGED <<sizes, scratch_refs, refholder_counts, handoff, live, written,
                       historyVars>>
        /\ \E order \in SetToSeqs(Evictable(rest, priceless)) :
             \E n \in 0..Len(order) :
                /\ StopsAfter(rest, order, n)
                /\ Evict(ExpiredDemoted \union Prefix(order, n))

\* The scores are computed once, when the pass begins, by eviction_cost, which
\* may answer any checksum with an infinite cost.
RunEvictionOnce(t) == \E priceless \in SUBSET Cached : EvictionPass(t, priceless)

-----------------------------------------------------------------------------
(* The surroundings: the writer, the program and the garbage collector *)

\* After the lock is released: buffer_writer.register(write_buffer).
HandOff(t) ==
    /\ ~Idle(t)
    /\ written' = written \union {ContentOf[handoff[t]]}
    /\ handoff' = [handoff EXCEPT ![t] = NoBuffer]
    /\ UNCHANGED <<cacheVars, live, historyVars>>

\* The program drops its last reference to an object.
Drop(b) ==
    /\ b \in live
    /\ live' = live \ {b}
    /\ UNCHANGED <<cacheVars, handoff, written, historyVars>>

Held(b) ==
    \/ b \in live
    \/ \E c \in Cached : strong_cache[c].buffer = b
    \/ \E t \in Thread : handoff[t] = b

\* An object nobody holds disappears from the WeakValueDictionary.
Collect(b) ==
    /\ weak_cache[ContentOf[b]] = b
    /\ ~Held(b)
    /\ weak_cache' = [weak_cache EXCEPT ![ContentOf[b]] = NoBuffer]
    /\ UNCHANGED <<strong_cache, sizes, scratch_refs, refholder_counts, interest,
                   handoff, live, written, historyVars>>

Next ==
    \/ \E t \in Thread :
        \/ HandOff(t)
        \/ ForceClearReferenceAccounting(t)
        \/ RunEvictionOnce(t)
        \/ PurgeScratch(t, scratch_refs)
        \/ \E b \in Buffer : Register(t, b)
        \/ \E c \in Checksum :
            \/ Get(t, c)
            \/ Decref(t, c)
            \/ DecrefRefholder(t, c)
            \/ MarkScratch(t, c)
            \/ PurgeScratch(t, {c})
            \/ RefreshTempref(t, c)
            \/ ClearTempref(t, c)
            \/ \E b \in Offered(c) :
                \/ \E scratch \in BOOLEAN : Incref(t, c, b, scratch)
                \/ \E kind \in HolderKind : IncrefRefholder(t, c, b, kind)
                \/ Tempref(t, c, b)
                \/ TransferWrite(t, c, b)
    \/ \E c \in Checksum : Fade(c)
    \/ \E b \in Buffer : Drop(b) \/ Collect(b)

Spec == Init /\ [][Next]_vars

-----------------------------------------------------------------------------
(* Properties *)

Manual(c) == IF c \in Cached THEN strong_cache[c].manual_refs ELSE 0
Claimed(c) == claims[c] > 0 \/ refholder_counts[c] > 0
BufferAt(c) == IF c \in Cached /\ strong_cache[c].buffer # NoBuffer
                 THEN strong_cache[c].buffer ELSE weak_cache[c]
HandedOver(c) ==
    c \in written \/ \E t \in Thread : handoff[t] # NoBuffer /\ ContentOf[handoff[t]] = c

\* The lifecycle references of a checksum and the bridge that pins its entry
\* never disagree: however increfs, decrefs, eviction, purges and clean-up
\* interleave, a checksum with refholders has a strong entry with a bridge,
\* and an entry without refholders has none (incref_refholder,
\* decref_refholder, _demote_locked).
RefholdersPinned ==
    \A c \in Checksum :
        refholder_counts[c] > 0 <=> c \in Cached /\ strong_cache[c].has_refholder_bridge

\* Manual references live in the entry, so whatever drops an entry would drop
\* them: no demotion, purge or eviction loses one that its owner still has to
\* release (decref returned True exactly once per incref).
ManualRefsKept == \A c \in Checksum : Manual(c) = claims[c]

\* The cost module counts exactly one direct interest for each strong entry,
\* although entries are created in one place and deleted in two
\* (_ensure_entry_locked; _demote_locked and purge_scratch).
InterestMirrorsEntries ==
    \A c \in Checksum : interest[c] = IF c \in Cached THEN 1 ELSE 0

\* get() promotes a weak buffer into an entry without looking at
\* remote_registered.  That is harmless because an entry that waits for its
\* buffer never coexists with a weak one: the promotion cannot swallow a
\* deferred write.
NoDeferredWriteBypassed ==
    \A c \in Cached : strong_cache[c].buffer = NoBuffer => weak_cache[c] = NoBuffer

\* Every buffer the cache pins is counted by _strong_memory_usage and has a
\* finite score: no pinned buffer is invisible to eviction because the entry
\* was created before its size was known.
SizedBuffers ==
    \A c \in Cached : strong_cache[c].buffer # NoBuffer => strong_cache[c].sized

\* Only a non-scratch claim or a transfer write publishes: no tempref, scratch
\* or neutral claim, late registration or promotion hands a buffer to the
\* writer that nobody asked to publish.
PublishedOnRequest == \A c \in Checksum : HandedOver(c) => c \in asked

\* A buffer pinned under a request to publish has been given to the writer or
\* is about to be, whichever of claim and buffer came first; the only way to
\* lose the write is a scratch or neutral claim that attaches the buffer.
PublicationComplete ==
    \A c \in Cached :
        /\ strong_cache[c].remote_registered
        /\ strong_cache[c].buffer # NoBuffer
        => HandedOver(c) \/ c \in skipped

\* register() publishes a buffer that arrives under an existing non-scratch
\* claim: an entry that asks for a remote copy and whose buffer is the one
\* registered last has been handed over.  The contract test
\* test_contract_reference_lifecycle_late_buffer.py states this.
LateBufferPublished ==
    \A c \in Cached :
        /\ strong_cache[c].remote_registered
        /\ strong_cache[c].buffer # NoBuffer
        /\ weak_cache[c] = strong_cache[c].buffer
        => HandedOver(c)

\* A transfer write whose buffer was unknown is only deferred: as soon as the
\* cache has a buffer for the checksum the write has been handed over
\* (docstring of transfer_write).  Writes dropped by a scratch attach are left
\* to LateBufferPublished.
TransferHonoured ==
    \A c \in transferred \ skipped : BufferAt(c) # NoBuffer => HandedOver(c)

\* The cache is content-addressed: the objects it keeps for a checksum have
\* that checksum, and were registered, so that their size is known.
ContentAddressed ==
    /\ \A c \in Checksum : weak_cache[c] # NoBuffer => ContentOf[weak_cache[c]] = c
    /\ \A c \in Cached :
        strong_cache[c].buffer # NoBuffer => ContentOf[strong_cache[c].buffer] = c
    /\ \A b \in live : ContentOf[b] \in sizes
    /\ \A c \in Checksum : BufferAt(c) # NoBuffer => c \in sizes
    /\ \A c \in Cached : strong_cache[c].sized <=> c \in sizes

RegisteredWasAsked == \A c \in Cached : strong_cache[c].remote_registered => c \in asked

\* The inductive invariant behind the theorems of BufferCacheProofs.
IndInv ==
    /\ TypeOK
    /\ RefholdersPinned
    /\ ManualRefsKept
    /\ InterestMirrorsEntries
    /\ NoDeferredWriteBypassed
    /\ ContentAddressed
    /\ RegisteredWasAsked
    /\ PublishedOnRequest
    /\ PublicationComplete

\* While somebody holds a claim on a checksum, a buffer that the cache knows
\* for it never disappears: not by eviction, purge, expiry, garbage collection
\* or the release of another claim.
ClaimedBufferKept ==
    [][\A c \in Checksum :
        Claimed(c) /\ Claimed(c)' /\ BufferAt(c) # NoBuffer => BufferAt(c)' # NoBuffer]_vars

\* One eviction pass brings the strong cache under the soft cap, or leaves
\* nothing that it could still evict: only entries that are protected, have no
\* bytes, or had no finite eviction cost when it began, and it goes past those
\* to the entries after them (run_eviction_once).
PressureRelieved ==
    [][\A t \in Thread, priceless \in SUBSET Cached :
        \/ Evictable(Cached, priceless)' = {}
        \/ Usage(Cached)' <= SoftCap
        \/ ~EvictionPass(t, priceless)]_vars

============================================================================
