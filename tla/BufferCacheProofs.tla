------------------------- MODULE BufferCacheProofs -------------------------
(***************************************************************************)
(* Proofs about BufferCache, for any number of checksums, Buffer objects   *)
(* and threads, any soft cap and any bound on the references.              *)
(*                                                                         *)
(* The usage that an eviction pass lowers is a sum over a set, written as  *)
(* a fold: see SumExists and the lemmas after it.                          *)
(***************************************************************************)
EXTENDS BufferCache, FiniteSetTheorems, WellFoundedInduction, TLAPS

\* The strong cache is a function on the checksums that have an entry.
LEMMA StrongTyped ==
    ASSUME TypeOK
    PROVE  /\ Cached \subseteq Checksum
           /\ strong_cache \in [Cached -> StrongEntry]
BY DEF TypeOK, Cached

\* Writing or deleting entries keeps the strong cache typed.
LEMMA StrongWithTyped ==
    ASSUME TypeOK, NEW c \in Checksum, NEW e \in StrongEntry
    PROVE  /\ StrongWith(c, e) \in [Cached \union {c} -> StrongEntry]
           /\ Cached \union {c} \in SUBSET Checksum
           /\ DOMAIN StrongWith(c, e) = Cached \union {c}
           /\ \A d \in Cached \union {c} :
                StrongWith(c, e)[d] = IF d = c THEN e ELSE strong_cache[d]
BY StrongTyped DEF StrongWith

\* What _ensure_entry_locked returns is an entry.
LEMMA EnsuredTyped ==
    ASSUME TypeOK, NEW c \in Checksum, NEW b \in Offered(c), NEW scratch \in BOOLEAN
    PROVE  /\ EnsuredEntry(c, b, scratch) \in StrongEntry
           /\ CurrentEntry(c) \in StrongEntry
           /\ WriteBuffer(c, b, scratch) \in Maybe(Buffer)
           /\ Known(c, b) \in Maybe(Buffer)
<1>1. CurrentEntry(c) \in StrongEntry
  BY StrongTyped DEF CurrentEntry, NewEntry, StrongEntry, Maybe, TempRef
<1>2. Known(c, b) \in Maybe(Buffer)
  BY DEF Known, Offered, TypeOK, Maybe
<1>3. EnsuredEntry(c, b, scratch) \in StrongEntry
  BY <1>1, <1>2 DEF EnsuredEntry, StrongEntry
<1>4. WriteBuffer(c, b, scratch) \in Maybe(Buffer)
  BY <1>1, <1>2 DEF WriteBuffer, StrongEntry, Maybe
<1> QED BY <1>1, <1>2, <1>3, <1>4

\* The empty cache satisfies the inductive invariant.
THEOREM InitIndInv == Init => IndInv
<1> SUFFICES ASSUME Init PROVE IndInv
  OBVIOUS
<1>1. Cached = {}
  BY DEF Init, Cached
<1>2. TypeOK
  BY <1>1 DEF Init, TypeOK, Maybe, Cached
<1> QED
  BY <1>1, <1>2, BufferAssumption DEF Init, IndInv, RefholdersPinned, ManualRefsKept, Manual,
     InterestMirrorsEntries, NoDeferredWriteBypassed, ContentAddressed, BufferAt,
     RegisteredWasAsked, PublishedOnRequest, HandedOver, PublicationComplete

-----------------------------------------------------------------------------
(* The part of the invariant that does not concern reference counts. *)

DataInv ==
    /\ InterestMirrorsEntries
    /\ NoDeferredWriteBypassed
    /\ ContentAddressed
    /\ RegisteredWasAsked
    /\ PublishedOnRequest
    /\ PublicationComplete

SameData(e, f) ==
    /\ e.buffer = f.buffer
    /\ e.sized = f.sized
    /\ e.remote_registered = f.remote_registered

\* An entry that survives a step keeps its buffer.
KeepsBuffers ==
    \A c \in Cached \intersect Cached' :
        strong_cache[c].buffer # NoBuffer => strong_cache'[c].buffer # NoBuffer

\* Steps that only delete entries, forget or restore weak buffers and drop
\* objects: demotion, eviction, purge, clean-up, expiry, garbage collection.
Shrinks ==
    /\ Cached' \subseteq Cached
    /\ \A c \in Cached' : SameData(strong_cache'[c], strong_cache[c])
    /\ \A c \in Checksum :
        \/ weak_cache'[c] \in {weak_cache[c], NoBuffer}
        \/ c \in Cached \ Cached' /\ weak_cache'[c] = strong_cache[c].buffer
    /\ \A c \in Checksum :
        interest'[c] = IF c \in Cached \ Cached' THEN interest[c] - 1 ELSE interest[c]
    /\ live' \subseteq live
    /\ UNCHANGED <<sizes, handoff, written, asked, skipped>>

\* Dropping entries, references or weak buffers, the way every release, purge and
\* eviction does, keeps the content-related conjuncts of the invariant.
LEMMA ShrinksKeepsData ==
    ASSUME IndInv, TypeOK', Shrinks
    PROVE  DataInv' /\ KeepsBuffers
<1> USE DEF IndInv
<1>1. Cached \subseteq Checksum /\ Cached' \subseteq Checksum
  BY StrongTyped DEF TypeOK, Cached
<1>2. InterestMirrorsEntries'
  BY <1>1 DEF Shrinks, InterestMirrorsEntries, TypeOK
<1>3. NoDeferredWriteBypassed'
  BY <1>1 DEF Shrinks, SameData, NoDeferredWriteBypassed
<1>4. \A c \in Checksum : weak_cache'[c] # NoBuffer =>
         weak_cache'[c] = weak_cache[c] \/ (c \in Cached /\ weak_cache'[c] = strong_cache[c].buffer)
  BY <1>1 DEF Shrinks
<1>5. ContentAddressed'
  <2>1. (\A c \in Checksum : weak_cache[c] # NoBuffer => ContentOf[weak_cache[c]] = c)'
    BY <1>1, <1>4 DEF Shrinks, ContentAddressed
  <2>2. (\A c \in Cached :
        strong_cache[c].buffer # NoBuffer => ContentOf[strong_cache[c].buffer] = c)'
    BY <1>1 DEF Shrinks, SameData, ContentAddressed
  <2>3. (\A b \in live : ContentOf[b] \in sizes)'
    BY DEF Shrinks, ContentAddressed
  <2>4. ASSUME NEW c \in Checksum, BufferAt(c)' # NoBuffer
        PROVE  c \in sizes'
    <3>1. BufferAt(c) # NoBuffer
      BY <2>4, <1>1, <1>4 DEF BufferAt, Shrinks, SameData
    <3> QED BY <3>1 DEF Shrinks, ContentAddressed
  <2>5. (\A c \in Cached : strong_cache[c].sized <=> c \in sizes)'
    BY <1>1 DEF Shrinks, SameData, ContentAddressed
  <2> QED BY <2>1, <2>2, <2>3, <2>4, <2>5 DEF ContentAddressed
<1>6. RegisteredWasAsked'
  BY <1>1 DEF Shrinks, SameData, RegisteredWasAsked
<1>7. \A c \in Checksum : HandedOver(c)' <=> HandedOver(c)
  BY DEF Shrinks, HandedOver
<1>8. PublishedOnRequest'
  BY <1>7 DEF Shrinks, PublishedOnRequest
<1>9. PublicationComplete'
  BY <1>1, <1>7 DEF Shrinks, SameData, PublicationComplete
<1>10. KeepsBuffers
  BY DEF Shrinks, SameData, KeepsBuffers
<1> QED BY <1>2, <1>3, <1>5, <1>6, <1>8, <1>9, <1>10 DEF DataInv

\* What storing an entry does to the strong cache, in the next state.
LEMMA StoreTyped ==
    ASSUME IndInv, NEW c \in Checksum, NEW e \in StrongEntry,
           strong_cache' = StrongWith(c, e)
    PROVE  /\ Cached \subseteq Checksum
           /\ Cached' = Cached \union {c}
           /\ Cached' \in SUBSET Checksum
           /\ strong_cache' \in [Cached' -> StrongEntry]
           /\ strong_cache'[c] = e
           /\ \A d \in Cached \ {c} : strong_cache'[d] = strong_cache[d]
<1>1. TypeOK
  BY DEF IndInv
<1>2. Cached \subseteq Checksum
  BY <1>1, StrongTyped
<1>3. PICK s : s = StrongWith(c, e)
  OBVIOUS
<1>4. /\ s \in [Cached \union {c} -> StrongEntry]
      /\ Cached \union {c} \in SUBSET Checksum
      /\ DOMAIN s = Cached \union {c}
      /\ \A d \in Cached \union {c} : s[d] = IF d = c THEN e ELSE strong_cache[d]
  BY <1>1, <1>3, StrongWithTyped
<1>5. strong_cache' = s
  BY <1>3
<1>6. Cached' = Cached \union {c}
  BY <1>4, <1>5 DEF Cached
<1> QED BY <1>2, <1>4, <1>5, <1>6

\* Steps that run _ensure_entry_locked and store the entry it returned with
\* other reference counts or another tempref.
LEMMA EnsureKeepsData ==
    ASSUME IndInv, TypeOK',
           NEW t \in Thread, NEW c \in Checksum, NEW b \in Offered(c),
           NEW scratch \in BOOLEAN, NEW e \in StrongEntry,
           Idle(t), SameData(e, EnsuredEntry(c, b, scratch)),
           strong_cache' = StrongWith(c, e),
           EnsureEntry(t, c, b, scratch)
    PROVE  DataInv' /\ KeepsBuffers
<1> USE DEF IndInv
<1>0. /\ Cached \subseteq Checksum
      /\ Cached' = Cached \union {c}
      /\ strong_cache'[c] = e
      /\ \A d \in Cached \ {c} : strong_cache'[d] = strong_cache[d]
  BY StoreTyped
<1> DEFINE cur == CurrentEntry(c)
           known == Known(c, b)
           wr == WriteBuffer(c, b, scratch)
<1>1. /\ cur \in StrongEntry
      /\ known \in Maybe(Buffer)
      /\ wr \in Maybe(Buffer)
  BY EnsuredTyped
<1>2. /\ e.buffer = IF cur.buffer = NoBuffer THEN known ELSE cur.buffer
      /\ e.sized = cur.sized
      /\ e.remote_registered = (cur.remote_registered \/ ~scratch)
  BY <1>1 DEF SameData, EnsuredEntry, StrongEntry
<1>3. known # NoBuffer => known \in Buffer /\ ContentOf[known] = c /\ c \in sizes
  BY <1>1 DEF Known, Offered, ContentAddressed, BufferAt, TypeOK, Maybe
<1>4. c \in Cached => cur = strong_cache[c]
  BY DEF CurrentEntry
<1>5. c \notin Cached => /\ cur.buffer = NoBuffer /\ cur.remote_registered = FALSE
                         /\ cur.sized = (c \in sizes)
  BY DEF CurrentEntry, NewEntry
<1>6. cur.buffer # NoBuffer => cur.buffer \in Buffer /\ ContentOf[cur.buffer] = c
  BY <1>1, <1>4, <1>5 DEF ContentAddressed, StrongEntry, Maybe
<1>7. wr # NoBuffer => wr \in Buffer /\ ContentOf[wr] = c /\ ~scratch
  BY <1>3, <1>6 DEF WriteBuffer
<1>8. /\ handoff' = [handoff EXCEPT ![t] = wr]
      /\ interest' = [interest EXCEPT ![c] = IF c \in Cached THEN @ ELSE @ + 1]
      /\ asked' = IF scratch THEN asked ELSE asked \union {c}
      /\ weak_cache' = weak_cache /\ sizes' = sizes /\ live' = live /\ written' = written
  BY DEF EnsureEntry
<1>9. InterestMirrorsEntries'
  BY <1>0, <1>8 DEF InterestMirrorsEntries, TypeOK
<1>10. NoDeferredWriteBypassed'
  <2>1. e.buffer = NoBuffer => weak_cache[c] = NoBuffer
    BY <1>2 DEF Known
  <2> QED BY <2>1, <1>0, <1>8 DEF NoDeferredWriteBypassed
<1>11. ContentAddressed'
  <2>1. (\A d \in Checksum : weak_cache[d] # NoBuffer => ContentOf[weak_cache[d]] = d)'
    BY <1>8 DEF ContentAddressed
  <2>2. (\A d \in Cached :
        strong_cache[d].buffer # NoBuffer => ContentOf[strong_cache[d].buffer] = d)'
    BY <1>0, <1>2, <1>3, <1>6 DEF ContentAddressed
  <2>3. (\A x \in live : ContentOf[x] \in sizes)'
    BY <1>8 DEF ContentAddressed
  <2>4. ASSUME NEW d \in Checksum, BufferAt(d)' # NoBuffer
        PROVE  d \in sizes'
    <3>1. CASE d = c
      BY <3>1, <2>4, <1>0, <1>2, <1>3, <1>4, <1>5, <1>8 DEF BufferAt, ContentAddressed
    <3>2. CASE d # c
      BY <3>2, <2>4, <1>0, <1>8 DEF BufferAt, ContentAddressed
    <3> QED BY <3>1, <3>2
  <2>5. (\A d \in Cached : strong_cache[d].sized <=> d \in sizes)'
    BY <1>0, <1>2, <1>4, <1>5, <1>8 DEF ContentAddressed
  <2> QED BY <2>1, <2>2, <2>3, <2>4, <2>5 DEF ContentAddressed
<1>12. RegisteredWasAsked'
  BY <1>0, <1>2, <1>4, <1>5, <1>8 DEF RegisteredWasAsked
<1>13. \A d \in Checksum : HandedOver(d)' <=> HandedOver(d) \/ (d = c /\ wr # NoBuffer)
  BY <1>7, <1>8 DEF HandedOver, Idle, TypeOK
<1>14. PublishedOnRequest'
  BY <1>7, <1>8, <1>13 DEF PublishedOnRequest
<1>15. PublicationComplete'
  <2>1. ASSUME e.remote_registered, e.buffer # NoBuffer
        PROVE  HandedOver(c)' \/ c \in skipped'
    <3>1. CASE scratch
      <4>1. cur.remote_registered
        BY <2>1, <3>1, <1>2
      <4>2. CASE cur.buffer = NoBuffer
        BY <4>1, <4>2, <2>1, <3>1, <1>2 DEF EnsureEntry
      <4>3. CASE cur.buffer # NoBuffer
        BY <4>1, <4>3, <1>4, <1>5, <1>13 DEF EnsureEntry, PublicationComplete
      <4> QED BY <4>2, <4>3
    <3>2. CASE ~scratch /\ wr = NoBuffer
      <4>1. cur.buffer # NoBuffer /\ cur.remote_registered
        BY <3>2, <2>1, <1>2 DEF WriteBuffer
      <4> QED BY <4>1, <1>4, <1>5, <1>13 DEF EnsureEntry, PublicationComplete
    <3>3. CASE wr # NoBuffer
      BY <3>3, <1>13
    <3> QED BY <3>1, <3>2, <3>3
  <2>2. skipped \subseteq skipped'
    BY DEF EnsureEntry
  <2> QED BY <2>1, <2>2, <1>0, <1>13 DEF PublicationComplete
<1>16. KeepsBuffers
  BY <1>0, <1>2, <1>4 DEF KeepsBuffers
<1> QED BY <1>9, <1>10, <1>11, <1>12, <1>14, <1>15, <1>16 DEF DataInv

-----------------------------------------------------------------------------
(* One lemma per operation. *)

\* register() keeps the invariant: the weak object and the entry get the buffer
\* together, and a deferred write becomes a handoff in the same step.
LEMMA RegisterInv ==
    ASSUME IndInv, NEW t \in Thread, NEW b \in Buffer, Register(t, b)
    PROVE  IndInv' /\ KeepsBuffers
<1> USE DEF IndInv
<1> DEFINE c == ContentOf[b]
           e == strong_cache[c]
<1>0. c \in Checksum /\ b # NoBuffer
  BY BufferAssumption
<1>1. /\ live' = live \union {b}
      /\ sizes' = sizes \union {c}
      /\ weak_cache' = [weak_cache EXCEPT ![c] = b]
      /\ Idle(t)
      /\ UNCHANGED <<scratch_refs, refholder_counts, interest, written, historyVars>>
  BY DEF Register
<1>2. CASE c \notin Cached
  <2>1. UNCHANGED <<strong_cache, handoff>>
    BY <1>2 DEF Register
  <2>2. Cached' = Cached /\ Cached \subseteq Checksum
    BY <2>1, StrongTyped DEF Cached
  <2>3. TypeOK'
    BY <1>0, <1>1, <2>1 DEF TypeOK, Maybe, historyVars
  <2>4. RefholdersPinned' /\ ManualRefsKept' /\ InterestMirrorsEntries'
    BY <1>1, <2>1, <2>2 DEF RefholdersPinned, ManualRefsKept, Manual, InterestMirrorsEntries, historyVars
  <2>5. NoDeferredWriteBypassed'
    BY <1>0, <1>1, <1>2, <2>1, <2>2 DEF NoDeferredWriteBypassed, TypeOK
  <2>6. ContentAddressed'
    BY <1>0, <1>1, <1>2, <2>1, <2>2 DEF ContentAddressed, BufferAt, TypeOK
  <2>7. RegisteredWasAsked' /\ PublishedOnRequest' /\ PublicationComplete'
    BY <1>1, <2>1, <2>2 DEF RegisteredWasAsked, PublishedOnRequest, PublicationComplete,
       HandedOver, historyVars
  <2>8. KeepsBuffers
    BY <2>1 DEF KeepsBuffers
  <2> QED BY <2>3, <2>4, <2>5, <2>6, <2>7, <2>8
<1>3. CASE c \in Cached
  <2> DEFINE f == RegisteredEntry(e, b)
  <2>1. /\ strong_cache' = StrongWith(c, f)
        /\ handoff' = [handoff EXCEPT ![t] = LateWrite(e, b)]
    BY <1>3 DEF Register
  <2>2. e \in StrongEntry /\ Cached \subseteq Checksum
    BY <1>3, StrongTyped
  <2>3. /\ f \in StrongEntry
        /\ f.buffer = b /\ f.sized = TRUE
        /\ f.remote_registered = e.remote_registered
        /\ f.manual_refs = e.manual_refs
        /\ f.has_refholder_bridge = e.has_refholder_bridge
    BY <2>2 DEF RegisteredEntry, StrongEntry, Maybe
  <2>4. /\ Cached' = Cached
        /\ strong_cache' \in [Cached -> StrongEntry]
        /\ strong_cache'[c] = f
        /\ \A d \in Cached \ {c} : strong_cache'[d] = strong_cache[d]
    <3>1. Cached \union {c} = Cached
      BY <1>3
    <3>2. /\ StrongWith(c, f) \in [Cached -> StrongEntry]
          /\ DOMAIN StrongWith(c, f) = Cached
          /\ \A d \in Cached : StrongWith(c, f)[d] = IF d = c THEN f ELSE strong_cache[d]
      <4>1. f \in StrongEntry /\ c \in Checksum /\ TypeOK
        BY <1>0, <2>3
      <4> HIDE DEF e, f, c, IndInv
      <4>2. /\ StrongWith(c, f) \in [Cached \union {c} -> StrongEntry]
            /\ DOMAIN StrongWith(c, f) = Cached \union {c}
            /\ \A d \in Cached \union {c} :
                StrongWith(c, f)[d] = IF d = c THEN f ELSE strong_cache[d]
        BY ONLY <4>1, StrongWithTyped
      <4> QED BY ONLY <4>2, <3>1
    <3> QED BY <1>3, <2>1, <3>2 DEF Cached
  <2>5. TypeOK'
    BY <1>0, <1>1, <2>1, <2>2, <2>4 DEF TypeOK, Maybe, historyVars, LateWrite
  <2>6. RefholdersPinned' /\ ManualRefsKept' /\ InterestMirrorsEntries'
    BY <1>1, <2>3, <2>4 DEF RefholdersPinned, ManualRefsKept, Manual, InterestMirrorsEntries, historyVars
  <2>7. NoDeferredWriteBypassed'
    BY <1>0, <1>1, <2>2, <2>3, <2>4 DEF NoDeferredWriteBypassed, TypeOK
  <2>8. ContentAddressed'
    BY <1>0, <1>1, <2>2, <2>3, <2>4 DEF ContentAddressed, BufferAt, TypeOK
  <2>9. RegisteredWasAsked'
    BY <1>1, <1>3, <2>3, <2>4 DEF RegisteredWasAsked, historyVars
  <2>10. \A d \in Checksum : HandedOver(d)' <=> HandedOver(d) \/ (d = c /\ LateWrite(e, b) # NoBuffer)
    BY <1>0, <1>1, <2>1 DEF HandedOver, Idle, TypeOK, LateWrite
  <2>11. PublishedOnRequest'
    BY <1>1, <1>3, <2>10 DEF PublishedOnRequest, RegisteredWasAsked, LateWrite, historyVars
  <2>12. PublicationComplete'
    <3>1. e.remote_registered => HandedOver(c)' \/ c \in skipped'
      BY <1>0, <1>1, <1>3, <2>10 DEF PublicationComplete, LateWrite, historyVars
    <3> QED BY <1>1, <2>2, <2>3, <2>4, <2>10, <3>1 DEF PublicationComplete, historyVars
  <2>13. KeepsBuffers
    BY <1>0, <2>3, <2>4 DEF KeepsBuffers
  <2> QED BY <2>5, <2>6, <2>7, <2>8, <2>9, <2>11, <2>12, <2>13
<1> QED BY <1>2, <1>3

\* get() never meets an entry without a buffer next to a weak buffer, so it
\* changes nothing but what its caller holds.
LEMMA GetInv ==
    ASSUME IndInv, NEW t \in Thread, NEW c \in Checksum, Get(t, c)
    PROVE  IndInv' /\ KeepsBuffers
<1> USE DEF IndInv
<1>1. c \in Cached => strong_cache[c].buffer # NoBuffer
  BY DEF Get, NoDeferredWriteBypassed
<1>2. strong_cache' = strong_cache
  <2>1. CASE c \in Cached
    <3>1. strong_cache' = StrongWith(c, [strong_cache[c] EXCEPT !.buffer = strong_cache[c].buffer])
      BY <1>1, <2>1 DEF Get
    <3>2. strong_cache[c] \in StrongEntry /\ strong_cache \in [Cached -> StrongEntry]
      BY <2>1, StrongTyped
    <3>3. [strong_cache[c] EXCEPT !.buffer = strong_cache[c].buffer] = strong_cache[c]
      BY <3>2 DEF StrongEntry
    <3>4. StrongWith(c, strong_cache[c]) = strong_cache
      BY <2>1, <3>2 DEF StrongWith
    <3> QED BY <3>1, <3>3, <3>4
  <2>2. CASE c \notin Cached
    BY <2>2 DEF Get
  <2> QED BY <2>1, <2>2
<1>3. PICK found \in Buffer : /\ live' = live \union {found}
                              /\ ContentOf[found] \in sizes
  <2>1. BufferAt(c) \in Buffer /\ ContentOf[BufferAt(c)] = c /\ c \in sizes /\ live' = live \union {BufferAt(c)}
    BY <1>1, StrongTyped DEF Get, BufferAt, ContentAddressed, TypeOK, Maybe, StrongEntry
  <2> QED BY <2>1
<1>4. UNCHANGED <<weak_cache, sizes, scratch_refs, refholder_counts, interest,
                       handoff, written, historyVars>>
  BY DEF Get
<1>5. Cached' = Cached
  BY <1>2 DEF Cached
<1>6. TypeOK'
  BY <1>2, <1>3, <1>4 DEF TypeOK, historyVars
<1>7. ContentAddressed'
  BY <1>2, <1>3, <1>4, <1>5 DEF ContentAddressed, BufferAt
<1> QED
  BY <1>2, <1>4, <1>5, <1>6, <1>7 DEF historyVars, RefholdersPinned, ManualRefsKept, Manual,
     InterestMirrorsEntries, NoDeferredWriteBypassed, RegisteredWasAsked, PublishedOnRequest,
     HandedOver, PublicationComplete, KeepsBuffers

\* The reference counts that the entry of c has, or starts with.
LEMMA EnsuredRefs ==
    ASSUME IndInv, NEW c \in Checksum, NEW b \in Offered(c), NEW scratch \in BOOLEAN
    PROVE  LET e == EnsuredEntry(c, b, scratch)
           IN  /\ e \in StrongEntry
               /\ e.manual_refs = claims[c]
               /\ e.has_refholder_bridge <=> refholder_counts[c] > 0
<1> DEFINE e == EnsuredEntry(c, b, scratch)
           cur == CurrentEntry(c)
<1>1. e \in StrongEntry /\ cur \in StrongEntry
  BY EnsuredTyped DEF IndInv
<1>2. /\ e.manual_refs = cur.manual_refs
      /\ e.has_refholder_bridge = cur.has_refholder_bridge
  BY <1>1 DEF EnsuredEntry, StrongEntry
<1>3. /\ cur.manual_refs = claims[c]
      /\ cur.has_refholder_bridge <=> refholder_counts[c] > 0
  BY DEF CurrentEntry, NewEntry, IndInv, ManualRefsKept, Manual, RefholdersPinned, TypeOK
<1> QED BY <1>1, <1>2, <1>3

\* The bookkeeping of _ensure_entry_locked is typed.
LEMMA EnsureEntryTyped ==
    ASSUME IndInv, NEW t \in Thread, NEW c \in Checksum, NEW b \in Offered(c),
           NEW scratch \in BOOLEAN, EnsureEntry(t, c, b, scratch)
    PROVE  /\ (weak_cache \in [Checksum -> Maybe(Buffer)])'
           /\ (sizes \subseteq Checksum)'
           /\ (interest \in [Checksum -> Nat])'
           /\ (handoff \in [Thread -> Maybe(Buffer)])'
           /\ (live \subseteq Buffer)'
           /\ (written \subseteq Checksum)'
           /\ (asked \subseteq Checksum)'
           /\ (skipped \subseteq Checksum)'
<1> USE DEF IndInv, TypeOK
<1>1. WriteBuffer(c, b, scratch) \in Maybe(Buffer)
  BY EnsuredTyped
<1>2. (interest \in [Checksum -> Nat])'
  <2>1. interest' = [interest EXCEPT ![c] = IF c \in Cached THEN @ ELSE @ + 1]
    BY DEF EnsureEntry
  <2> QED BY <2>1
<1>3. (handoff \in [Thread -> Maybe(Buffer)])'
  BY <1>1 DEF EnsureEntry
<1>4. (skipped \subseteq Checksum)'
  BY DEF EnsureEntry
<1> QED BY <1>2, <1>3, <1>4 DEF EnsureEntry

\* incref: one more manual reference, one more claim.
LEMMA IncrefInv ==
    ASSUME IndInv, NEW t \in Thread, NEW c \in Checksum, NEW b \in Offered(c),
           NEW scratch \in BOOLEAN, Incref(t, c, b, scratch)
    PROVE  IndInv' /\ KeepsBuffers
<1> DEFINE e == EnsuredEntry(c, b, scratch)
           f == [e EXCEPT !.manual_refs = @ + 1]
<1>1. /\ e \in StrongEntry
      /\ e.manual_refs = claims[c]
      /\ e.has_refholder_bridge <=> refholder_counts[c] > 0
  BY EnsuredRefs
<1>2. /\ f \in StrongEntry
      /\ SameData(f, e)
      /\ f.manual_refs = claims[c] + 1
      /\ f.has_refholder_bridge <=> refholder_counts[c] > 0
  BY <1>1 DEF StrongEntry, SameData
<1>3. /\ strong_cache' = StrongWith(c, f)
      /\ EnsureEntry(t, c, b, scratch)
      /\ Idle(t)
      /\ scratch_refs' = IF scratch THEN scratch_refs \union {c} ELSE scratch_refs \ {c}
      /\ claims' = [claims EXCEPT ![c] = @ + 1]
      /\ UNCHANGED <<refholder_counts, transferred>>
  BY DEF Incref
<1>4. /\ (weak_cache \in [Checksum -> Maybe(Buffer)])'
      /\ (sizes \subseteq Checksum)'
      /\ (interest \in [Checksum -> Nat])'
      /\ (handoff \in [Thread -> Maybe(Buffer)])'
      /\ (live \subseteq Buffer)'
      /\ (written \subseteq Checksum)'
      /\ (asked \subseteq Checksum)'
      /\ (skipped \subseteq Checksum)'
  BY <1>3, EnsureEntryTyped
<1> HIDE DEF f, e
<1>5. /\ Cached \subseteq Checksum
      /\ Cached' = Cached \union {c}
      /\ Cached' \in SUBSET Checksum
      /\ strong_cache' \in [Cached' -> StrongEntry]
      /\ strong_cache'[c] = f
      /\ \A d \in Cached \ {c} : strong_cache'[d] = strong_cache[d]
  BY <1>2, <1>3, StoreTyped
<1>6. TypeOK'
  <2>1. (claims \in [Checksum -> Nat])'
    BY <1>3 DEF IndInv, TypeOK
  <2>2. /\ (refholder_counts \in [Checksum -> Nat])'
        /\ (scratch_refs \subseteq Checksum)'
        /\ (transferred \subseteq Checksum)'
    BY <1>3 DEF IndInv, TypeOK
  <2>3. (\E S \in SUBSET Checksum : strong_cache \in [S -> StrongEntry])'
    BY <1>5
  <2> QED BY <1>4, <2>1, <2>2, <2>3 DEF TypeOK
<1>7. DataInv' /\ KeepsBuffers
  BY <1>2, <1>3, <1>6, EnsureKeepsData DEF e
<1>8. RefholdersPinned'
  BY <1>2, <1>3, <1>5 DEF IndInv, RefholdersPinned, TypeOK
<1>9. ManualRefsKept'
  BY <1>2, <1>3, <1>5 DEF IndInv, ManualRefsKept, Manual, TypeOK
<1> QED BY <1>6, <1>7, <1>8, <1>9 DEF IndInv, DataInv

\* incref_refholder: the first refholder sets the bridge.
LEMMA IncrefRefholderInv ==
    ASSUME IndInv, NEW t \in Thread, NEW c \in Checksum, NEW b \in Offered(c),
           NEW kind \in HolderKind, IncrefRefholder(t, c, b, kind)
    PROVE  IndInv' /\ KeepsBuffers
<1> DEFINE scratch == kind # "owner"
           e == EnsuredEntry(c, b, scratch)
           f == [e EXCEPT !.has_refholder_bridge = @ \/ refholder_counts[c] = 0]
<1>0. scratch \in BOOLEAN
  OBVIOUS
<1>1. /\ e \in StrongEntry
      /\ e.manual_refs = claims[c]
      /\ e.has_refholder_bridge <=> refholder_counts[c] > 0
  BY <1>0, EnsuredRefs
<1>2. /\ f \in StrongEntry
      /\ SameData(f, e)
      /\ f.manual_refs = claims[c]
      /\ f.has_refholder_bridge
  <2>1. /\ f \in StrongEntry /\ SameData(f, e) /\ f.manual_refs = claims[c]
        /\ f.has_refholder_bridge = (e.has_refholder_bridge \/ refholder_counts[c] = 0)
    BY <1>1 DEF StrongEntry, SameData
  <2>2. refholder_counts[c] = 0 \/ refholder_counts[c] > 0
    BY DEF IndInv, TypeOK
  <2> QED BY <1>1, <2>1, <2>2
<1>3. /\ strong_cache' = StrongWith(c, f)
      /\ EnsureEntry(t, c, b, scratch)
      /\ Idle(t)
      /\ scratch_refs' \in SUBSET Checksum
      /\ refholder_counts' = [refholder_counts EXCEPT ![c] = @ + 1]
      /\ UNCHANGED <<transferred, claims>>
  BY DEF IncrefRefholder, HolderKind, IndInv, TypeOK
<1>4. /\ (weak_cache \in [Checksum -> Maybe(Buffer)])'
      /\ (sizes \subseteq Checksum)'
      /\ (interest \in [Checksum -> Nat])'
      /\ (handoff \in [Thread -> Maybe(Buffer)])'
      /\ (live \subseteq Buffer)'
      /\ (written \subseteq Checksum)'
      /\ (asked \subseteq Checksum)'
      /\ (skipped \subseteq Checksum)'
  BY <1>0, <1>3, EnsureEntryTyped
<1> HIDE DEF f, e, scratch
<1>5. /\ Cached \subseteq Checksum
      /\ Cached' = Cached \union {c}
      /\ Cached' \in SUBSET Checksum
      /\ strong_cache' \in [Cached' -> StrongEntry]
      /\ strong_cache'[c] = f
      /\ \A d \in Cached \ {c} : strong_cache'[d] = strong_cache[d]
  BY <1>2, <1>3, StoreTyped
<1>6. TypeOK'
  <2>1. (refholder_counts \in [Checksum -> Nat])'
    BY <1>3 DEF IndInv, TypeOK
  <2>2. /\ (claims \in [Checksum -> Nat])'
        /\ (scratch_refs \subseteq Checksum)'
        /\ (transferred \subseteq Checksum)'
    BY <1>3 DEF IndInv, TypeOK
  <2>3. (\E S \in SUBSET Checksum : strong_cache \in [S -> StrongEntry])'
    BY <1>5
  <2> QED BY <1>4, <2>1, <2>2, <2>3 DEF TypeOK
<1>7. DataInv' /\ KeepsBuffers
  BY <1>0, <1>2, <1>3, <1>6, EnsureKeepsData DEF e
<1>8. RefholdersPinned'
  BY <1>2, <1>3, <1>5 DEF IndInv, RefholdersPinned, TypeOK
<1>9. ManualRefsKept'
  BY <1>2, <1>3, <1>5 DEF IndInv, ManualRefsKept, Manual, TypeOK
<1> QED BY <1>6, <1>7, <1>8, <1>9 DEF IndInv, DataInv

\* tempref: a scratch attach changes no reference count.
LEMMA TemprefInv ==
    ASSUME IndInv, NEW t \in Thread, NEW c \in Checksum, NEW b \in Offered(c),
           Tempref(t, c, b)
    PROVE  IndInv' /\ KeepsBuffers
<1> DEFINE e == EnsuredEntry(c, b, TRUE)
           f == [e EXCEPT !.tempref = "live"]
<1>1. /\ e \in StrongEntry
      /\ e.manual_refs = claims[c]
      /\ e.has_refholder_bridge <=> refholder_counts[c] > 0
  BY EnsuredRefs
<1>2. /\ f \in StrongEntry
      /\ SameData(f, e)
      /\ f.manual_refs = claims[c]
      /\ f.has_refholder_bridge <=> refholder_counts[c] > 0
  BY <1>1 DEF StrongEntry, SameData, TempRef
<1>3. /\ strong_cache' = StrongWith(c, f)
      /\ EnsureEntry(t, c, b, TRUE)
      /\ Idle(t)
      /\ UNCHANGED <<scratch_refs, refholder_counts, transferred, claims>>
  BY DEF Tempref
<1>4. /\ (weak_cache \in [Checksum -> Maybe(Buffer)])'
      /\ (sizes \subseteq Checksum)'
      /\ (interest \in [Checksum -> Nat])'
      /\ (handoff \in [Thread -> Maybe(Buffer)])'
      /\ (live \subseteq Buffer)'
      /\ (written \subseteq Checksum)'
      /\ (asked \subseteq Checksum)'
      /\ (skipped \subseteq Checksum)'
  BY <1>3, EnsureEntryTyped
<1> HIDE DEF f, e
<1>5. /\ Cached \subseteq Checksum
      /\ Cached' = Cached \union {c}
      /\ Cached' \in SUBSET Checksum
      /\ strong_cache' \in [Cached' -> StrongEntry]
      /\ strong_cache'[c] = f
      /\ \A d \in Cached \ {c} : strong_cache'[d] = strong_cache[d]
  BY <1>2, <1>3, StoreTyped
<1>6. TypeOK'
  BY <1>3, <1>4, <1>5 DEF IndInv, TypeOK
<1>7. DataInv' /\ KeepsBuffers
  BY <1>2, <1>3, <1>6, EnsureKeepsData DEF e
<1>8. RefholdersPinned'
  BY <1>2, <1>3, <1>5 DEF IndInv, RefholdersPinned
<1>9. ManualRefsKept'
  BY <1>2, <1>3, <1>5 DEF IndInv, ManualRefsKept, Manual
<1> QED BY <1>6, <1>7, <1>8, <1>9 DEF IndInv, DataInv

\* transfer_write asks for publication and adds no reference.
LEMMA TransferWriteInv ==
    ASSUME IndInv, NEW t \in Thread, NEW c \in Checksum, NEW b \in Offered(c),
           TransferWrite(t, c, b)
    PROVE  IndInv' /\ KeepsBuffers
<1> DEFINE e == EnsuredEntry(c, b, FALSE)
<1>1. /\ e \in StrongEntry
      /\ e.manual_refs = claims[c]
      /\ e.has_refholder_bridge <=> refholder_counts[c] > 0
  BY EnsuredRefs
<1>2. SameData(e, e)
  BY DEF SameData
<1>3. /\ strong_cache' = StrongWith(c, e)
      /\ EnsureEntry(t, c, b, FALSE)
      /\ Idle(t)
      /\ scratch_refs' = scratch_refs \ {c}
      /\ transferred' = transferred \union {c}
      /\ UNCHANGED <<refholder_counts, claims>>
  BY DEF TransferWrite
<1>4. /\ (weak_cache \in [Checksum -> Maybe(Buffer)])'
      /\ (sizes \subseteq Checksum)'
      /\ (interest \in [Checksum -> Nat])'
      /\ (handoff \in [Thread -> Maybe(Buffer)])'
      /\ (live \subseteq Buffer)'
      /\ (written \subseteq Checksum)'
      /\ (asked \subseteq Checksum)'
      /\ (skipped \subseteq Checksum)'
  BY <1>3, EnsureEntryTyped
<1> HIDE DEF e
<1>5. /\ Cached \subseteq Checksum
      /\ Cached' = Cached \union {c}
      /\ Cached' \in SUBSET Checksum
      /\ strong_cache' \in [Cached' -> StrongEntry]
      /\ strong_cache'[c] = e
      /\ \A d \in Cached \ {c} : strong_cache'[d] = strong_cache[d]
  BY <1>1, <1>3, StoreTyped
<1>6. TypeOK'
  BY <1>3, <1>4, <1>5 DEF IndInv, TypeOK
<1>7. DataInv' /\ KeepsBuffers
  BY <1>1, <1>2, <1>3, <1>6, EnsureKeepsData DEF e
<1>8. RefholdersPinned'
  BY <1>1, <1>3, <1>5 DEF IndInv, RefholdersPinned
<1>9. ManualRefsKept'
  BY <1>1, <1>3, <1>5 DEF IndInv, ManualRefsKept, Manual
<1> QED BY <1>6, <1>7, <1>8, <1>9 DEF IndInv, DataInv

-----------------------------------------------------------------------------
(* The operations that demote, delete or only touch entries. *)

\* A step that stays within the typed state and shrinks keeps the invariant if
\* it keeps the two reference counts in step with the entries.
LEMMA ShrinksInv ==
    ASSUME IndInv, TypeOK', Shrinks, RefholdersPinned', ManualRefsKept'
    PROVE  IndInv' /\ KeepsBuffers
BY ShrinksKeepsData DEF IndInv, DataInv

\* Deleting the entries of D, each with a positive interest, in one step.
LEMMA DropTyped ==
    ASSUME IndInv, NEW D \in SUBSET Cached,
           Cached' = Cached \ D,
           strong_cache' \in [Cached' -> StrongEntry],
           \A c \in Checksum : weak_cache'[c] \in {weak_cache[c], NoBuffer}
                \/ (c \in D /\ weak_cache'[c] = strong_cache[c].buffer),
           weak_cache' = [c \in Checksum |-> weak_cache'[c]],
           interest' = [c \in Checksum |-> IF c \in D THEN interest[c] - 1 ELSE interest[c]]
    PROVE  /\ Cached \subseteq Checksum
           /\ (\E S \in SUBSET Checksum : strong_cache \in [S -> StrongEntry])'
           /\ (weak_cache \in [Checksum -> Maybe(Buffer)])'
           /\ (interest \in [Checksum -> Nat])'
<1>1. Cached \subseteq Checksum /\ strong_cache \in [Cached -> StrongEntry]
  BY StrongTyped DEF IndInv
<1>2. (\E S \in SUBSET Checksum : strong_cache \in [S -> StrongEntry])'
  BY <1>1
<1>3. \A c \in Checksum : weak_cache'[c] \in Maybe(Buffer)
  BY <1>1 DEF IndInv, TypeOK, StrongEntry, Maybe
<1>4. (weak_cache \in [Checksum -> Maybe(Buffer)])'
  BY <1>3
<1>5. \A c \in Checksum : interest'[c] \in Nat
  BY <1>1 DEF IndInv, InterestMirrorsEntries, TypeOK
<1> QED BY <1>1, <1>2, <1>4, <1>5

\* What StoreOrDemote does with an entry that was cached.
LEMMA StoreOrDemoteEffect ==
    ASSUME IndInv, NEW c \in Cached, NEW e \in StrongEntry,
           SameData(e, strong_cache[c]), StoreOrDemote(c, e),
           live' = live, UNCHANGED <<sizes, handoff, written, asked, skipped>>
    PROVE  /\ Cached \subseteq Checksum
           /\ (\E S \in SUBSET Checksum : strong_cache \in [S -> StrongEntry])'
           /\ (weak_cache \in [Checksum -> Maybe(Buffer)])'
           /\ (interest \in [Checksum -> Nat])'
           /\ Shrinks
           /\ \A d \in Cached \ {c} : d \in Cached' /\ strong_cache'[d] = strong_cache[d]
           /\ IF CanDemote(e) THEN c \notin Cached'
              ELSE c \in Cached' /\ strong_cache'[c] = e
<1>1. Cached \subseteq Checksum /\ strong_cache \in [Cached -> StrongEntry]
  BY StrongTyped DEF IndInv
<1>2. CASE CanDemote(e)
  <2>1. /\ strong_cache' = StrongWithout({c})
        /\ weak_cache' = [weak_cache EXCEPT ![c] = IF e.buffer # NoBuffer THEN e.buffer ELSE @]
        /\ interest' = [interest EXCEPT ![c] = @ - 1]
    BY <1>2 DEF StoreOrDemote
  <2>2. /\ Cached' = Cached \ {c}
        /\ strong_cache' \in [Cached' -> StrongEntry]
        /\ \A d \in Cached' : strong_cache'[d] = strong_cache[d]
    BY <1>1, <2>1 DEF StrongWithout, Cached
  <2>3. /\ interest' = [d \in Checksum |-> IF d \in {c} THEN interest[d] - 1 ELSE interest[d]]
        /\ weak_cache' = [d \in Checksum |-> weak_cache'[d]]
        /\ \A d \in Checksum : weak_cache'[d] \in {weak_cache[d], NoBuffer}
                \/ (d \in {c} /\ weak_cache'[d] = strong_cache[d].buffer)
    BY <1>1, <2>1 DEF IndInv, TypeOK, SameData
  <2>4. Shrinks
    BY <1>1, <2>2, <2>3 DEF Shrinks, SameData
  <2> QED BY <1>2, <2>2, <2>3, <2>4, DropTyped
<1>3. CASE ~CanDemote(e)
  <2>1. strong_cache' = StrongWith(c, e) /\ UNCHANGED <<weak_cache, interest>>
    BY <1>3 DEF StoreOrDemote
  <2>2. /\ Cached' = Cached
        /\ strong_cache' \in [Cached' -> StrongEntry]
        /\ strong_cache'[c] = e
        /\ \A d \in Cached \ {c} : strong_cache'[d] = strong_cache[d]
    BY <1>1, <2>1, StoreTyped
  <2>3. Shrinks
    BY <1>1, <2>1, <2>2 DEF Shrinks, SameData
  <2>4. /\ (\E S \in SUBSET Checksum : strong_cache \in [S -> StrongEntry])'
        /\ (weak_cache \in [Checksum -> Maybe(Buffer)])'
        /\ (interest \in [Checksum -> Nat])'
    BY <1>1, <2>1, <2>2 DEF IndInv, TypeOK
  <2> QED BY <1>1, <1>3, <2>2, <2>3, <2>4
<1> QED BY <1>2, <1>3

\* decref gives up one manual reference together with its claim.
LEMMA DecrefInv ==
    ASSUME IndInv, NEW t \in Thread, NEW c \in Checksum, Decref(t, c)
    PROVE  IndInv' /\ KeepsBuffers
<1> DEFINE e == [strong_cache[c] EXCEPT !.manual_refs = @ - 1]
<1>1. /\ c \in Cached
      /\ strong_cache[c].manual_refs # 0
      /\ StoreOrDemote(c, e)
      /\ claims' = [claims EXCEPT ![c] = @ - 1]
      /\ UNCHANGED <<sizes, scratch_refs, refholder_counts, handoff, live, written,
                     asked, transferred, skipped>>
  BY DEF Decref
<1>2. strong_cache[c] \in StrongEntry
  BY <1>1, StrongTyped DEF IndInv
<1>3. claims[c] = strong_cache[c].manual_refs /\ claims[c] \in Nat \ {0}
  BY <1>1, <1>2 DEF IndInv, ManualRefsKept, Manual, TypeOK
<1>4. /\ e \in StrongEntry
      /\ SameData(e, strong_cache[c])
      /\ e.manual_refs = claims[c] - 1
      /\ e.has_refholder_bridge = strong_cache[c].has_refholder_bridge
  BY <1>2, <1>3 DEF StrongEntry, SameData
<1> HIDE DEF e
<1>5. /\ Cached \subseteq Checksum
      /\ (\E S \in SUBSET Checksum : strong_cache \in [S -> StrongEntry])'
      /\ (weak_cache \in [Checksum -> Maybe(Buffer)])'
      /\ (interest \in [Checksum -> Nat])'
      /\ Shrinks
      /\ \A d \in Cached \ {c} : d \in Cached' /\ strong_cache'[d] = strong_cache[d]
      /\ IF CanDemote(e) THEN c \notin Cached'
         ELSE c \in Cached' /\ strong_cache'[c] = e
  BY <1>1, <1>4, StoreOrDemoteEffect
<1>6. TypeOK'
  <2>1. (claims \in [Checksum -> Nat])'
    BY <1>1, <1>3 DEF IndInv, TypeOK
  <2> QED BY <1>1, <1>5, <2>1 DEF IndInv, TypeOK
<1>7. Cached' \subseteq Cached
  BY <1>5 DEF Shrinks
<1>8. RefholdersPinned'
  BY <1>1, <1>4, <1>5, <1>7 DEF IndInv, RefholdersPinned, CanDemote, Protected
<1>9. ManualRefsKept'
  <2>1. claims'[c] = claims[c] - 1 /\ \A d \in Checksum \ {c} : claims'[d] = claims[d]
    BY <1>1 DEF IndInv, TypeOK
  <2> QED BY <1>3, <1>4, <1>5, <1>7, <2>1
       DEF IndInv, ManualRefsKept, Manual, CanDemote, Protected
<1> QED BY <1>5, <1>6, <1>8, <1>9, ShrinksInv

\* decref_refholder: the last refholder takes the bridge away.
LEMMA DecrefRefholderInv ==
    ASSUME IndInv, NEW t \in Thread, NEW c \in Checksum, DecrefRefholder(t, c)
    PROVE  IndInv' /\ KeepsBuffers
<1> DEFINE e == [strong_cache[c] EXCEPT !.has_refholder_bridge = FALSE]
<1>1. /\ refholder_counts[c] # 0
      /\ refholder_counts' = [refholder_counts EXCEPT ![c] = @ - 1]
      /\ UNCHANGED <<sizes, scratch_refs, handoff, live, written, historyVars>>
  BY DEF DecrefRefholder
<1>2. refholder_counts[c] \in Nat \ {0}
  BY <1>1 DEF IndInv, TypeOK
<1>3. c \in Cached /\ strong_cache[c].has_refholder_bridge
  BY <1>2 DEF IndInv, RefholdersPinned
<1>4. strong_cache[c] \in StrongEntry
  BY <1>3, StrongTyped DEF IndInv
<1>5. /\ refholder_counts'[c] = refholder_counts[c] - 1
      /\ \A d \in Checksum \ {c} : refholder_counts'[d] = refholder_counts[d]
      /\ (refholder_counts \in [Checksum -> Nat])'
  BY <1>1, <1>2 DEF IndInv, TypeOK
<1>6. CASE refholder_counts[c] = 1
  <2>1. /\ e \in StrongEntry
        /\ SameData(e, strong_cache[c])
        /\ e.manual_refs = strong_cache[c].manual_refs
        /\ e.has_refholder_bridge = FALSE
    BY <1>4 DEF StrongEntry, SameData
  <2>2. StoreOrDemote(c, e)
    BY <1>3, <1>6 DEF DecrefRefholder
  <2> HIDE DEF e
  <2>3. /\ Cached \subseteq Checksum
        /\ (\E S \in SUBSET Checksum : strong_cache \in [S -> StrongEntry])'
        /\ (weak_cache \in [Checksum -> Maybe(Buffer)])'
        /\ (interest \in [Checksum -> Nat])'
        /\ Shrinks
        /\ \A d \in Cached \ {c} : d \in Cached' /\ strong_cache'[d] = strong_cache[d]
        /\ IF CanDemote(e) THEN c \notin Cached'
           ELSE c \in Cached' /\ strong_cache'[c] = e
    BY <1>1, <1>3, <2>1, <2>2, StoreOrDemoteEffect DEF historyVars
  <2>4. TypeOK'
    BY <1>1, <1>5, <2>3 DEF IndInv, TypeOK, historyVars
  <2>5. Cached' \subseteq Cached
    BY <2>3 DEF Shrinks
  <2>6. RefholdersPinned'
    BY <1>5, <1>6, <2>1, <2>3, <2>5 DEF IndInv, RefholdersPinned
  <2>7. ManualRefsKept'
    BY <1>1, <1>3, <2>1, <2>3, <2>5
       DEF IndInv, ManualRefsKept, Manual, CanDemote, Protected, historyVars
  <2> QED BY <2>3, <2>4, <2>6, <2>7, ShrinksInv
<1>7. CASE refholder_counts[c] # 1
  <2>1. UNCHANGED <<strong_cache, weak_cache, interest>>
    BY <1>7 DEF DecrefRefholder
  <2>2. Cached' = Cached
    BY <2>1 DEF Cached
  <2>3. TypeOK'
    BY <1>1, <1>5, <2>1 DEF IndInv, TypeOK, historyVars
  <2>4. Shrinks
    BY <1>1, <2>1, <2>2 DEF Shrinks, SameData, historyVars
  <2>5. RefholdersPinned'
    BY <1>2, <1>3, <1>5, <1>7, <2>1, <2>2 DEF IndInv, RefholdersPinned
  <2>6. ManualRefsKept'
    BY <1>1, <2>1, <2>2 DEF IndInv, ManualRefsKept, Manual, historyVars
  <2> QED BY <2>3, <2>4, <2>5, <2>6, ShrinksInv
<1> QED BY <1>6, <1>7

\* force_clear_reference_accounting clears counts, bridges and claims together.
LEMMA ForceClearInv ==
    ASSUME IndInv, NEW t \in Thread, ForceClearReferenceAccounting(t)
    PROVE  IndInv' /\ KeepsBuffers
<1> DEFINE cleared == [c \in Cached |-> [strong_cache[c] EXCEPT
                         !.manual_refs = 0, !.has_refholder_bridge = FALSE]]
           D == {c \in Cached : CanDemote(cleared[c])}
<1>1. Cached \subseteq Checksum /\ strong_cache \in [Cached -> StrongEntry]
  BY StrongTyped DEF IndInv
<1>2. \A c \in Cached : /\ cleared[c] \in StrongEntry
                        /\ SameData(cleared[c], strong_cache[c])
                        /\ cleared[c].manual_refs = 0
                        /\ cleared[c].has_refholder_bridge = FALSE
  BY <1>1 DEF StrongEntry, SameData
<1>3. /\ refholder_counts' = [c \in Checksum |-> 0]
      /\ claims' = [c \in Checksum |-> 0]
      /\ strong_cache' = [c \in Cached \ D |-> cleared[c]]
      /\ weak_cache' = [c \in Checksum |->
            IF c \in D /\ cleared[c].buffer # NoBuffer THEN cleared[c].buffer ELSE weak_cache[c]]
      /\ interest' = [c \in Checksum |-> IF c \in D THEN interest[c] - 1 ELSE interest[c]]
      /\ UNCHANGED <<sizes, scratch_refs, handoff, live, written, asked, transferred, skipped>>
  BY DEF ForceClearReferenceAccounting
<1>4. D \in SUBSET Cached
  OBVIOUS
<1> HIDE DEF cleared, D
<1>5. /\ Cached' = Cached \ D
      /\ strong_cache' \in [Cached' -> StrongEntry]
      /\ \A c \in Cached' : strong_cache'[c] = cleared[c]
  BY <1>2, <1>3 DEF Cached
<1>6. \A c \in Checksum : weak_cache'[c] \in {weak_cache[c], NoBuffer}
            \/ (c \in D /\ weak_cache'[c] = strong_cache[c].buffer)
  BY <1>2, <1>3, <1>4 DEF SameData
<1>7. /\ (\E S \in SUBSET Checksum : strong_cache \in [S -> StrongEntry])'
      /\ (weak_cache \in [Checksum -> Maybe(Buffer)])'
      /\ (interest \in [Checksum -> Nat])'
  <2>1. weak_cache' = [c \in Checksum |-> weak_cache'[c]]
    BY <1>3
  <2> QED BY <1>3, <1>4, <1>5, <1>6, <2>1, DropTyped
<1>8. TypeOK'
  BY <1>3, <1>7 DEF IndInv, TypeOK
<1>9. Shrinks
  BY <1>1, <1>2, <1>3, <1>4, <1>5, <1>6 DEF Shrinks
<1>10. RefholdersPinned' /\ ManualRefsKept'
  BY <1>2, <1>3, <1>4, <1>5 DEF RefholdersPinned, ManualRefsKept, Manual
<1> QED BY <1>8, <1>9, <1>10, ShrinksInv

\* mark_scratch touches only the scratch set.
LEMMA MarkScratchInv ==
    ASSUME IndInv, NEW t \in Thread, NEW c \in Checksum, MarkScratch(t, c)
    PROVE  IndInv' /\ KeepsBuffers
<1>1. /\ scratch_refs' = scratch_refs \union {c}
      /\ UNCHANGED <<strong_cache, weak_cache, sizes, refholder_counts, interest,
                   handoff, live, written, asked, transferred, skipped, claims>>
  BY DEF MarkScratch, historyVars
<1>2. Cached' = Cached
  BY <1>1 DEF Cached
<1>3. TypeOK'
  BY <1>1 DEF IndInv, TypeOK
<1>4. Shrinks
  BY <1>1, <1>2 DEF Shrinks, SameData
<1>5. RefholdersPinned' /\ ManualRefsKept'
  BY <1>1, <1>2 DEF IndInv, RefholdersPinned, ManualRefsKept, Manual
<1> QED BY <1>3, <1>4, <1>5, ShrinksInv

\* purge_scratch drops no entry with a reference.
LEMMA PurgeScratchInv ==
    ASSUME IndInv, NEW t \in Thread, NEW D \in SUBSET Checksum, PurgeScratch(t, D)
    PROVE  IndInv' /\ KeepsBuffers
<1> DEFINE dropped == {c \in D \intersect Cached :
                         ~Protected(strong_cache[c]) /\ strong_cache[c].tempref # "none"}
<1>1. Cached \subseteq Checksum /\ strong_cache \in [Cached -> StrongEntry]
  BY StrongTyped DEF IndInv
<1>2. /\ strong_cache' = StrongWithout(dropped)
      /\ weak_cache' = [c \in Checksum |->
            IF c \in (D \ Cached) \union dropped THEN NoBuffer ELSE weak_cache[c]]
      /\ interest' = [c \in Checksum |->
            IF c \in dropped THEN interest[c] - 1 ELSE interest[c]]
      /\ UNCHANGED <<sizes, scratch_refs, refholder_counts, handoff, live, written,
                     asked, transferred, skipped, claims>>
  BY DEF PurgeScratch, historyVars
<1>3. dropped \in SUBSET Cached /\ \A c \in dropped : ~Protected(strong_cache[c])
  OBVIOUS
<1> HIDE DEF dropped
<1>4. /\ Cached' = Cached \ dropped
      /\ strong_cache' \in [Cached' -> StrongEntry]
      /\ \A c \in Cached' : strong_cache'[c] = strong_cache[c]
  BY <1>1, <1>2 DEF StrongWithout, Cached
<1>5. /\ (\E S \in SUBSET Checksum : strong_cache \in [S -> StrongEntry])'
      /\ (weak_cache \in [Checksum -> Maybe(Buffer)])'
      /\ (interest \in [Checksum -> Nat])'
  <2>1. /\ weak_cache' = [c \in Checksum |-> weak_cache'[c]]
        /\ \A c \in Checksum : weak_cache'[c] \in {weak_cache[c], NoBuffer}
    BY <1>2
  <2> QED BY <1>2, <1>3, <1>4, <2>1, DropTyped
<1>6. TypeOK'
  BY <1>2, <1>5 DEF IndInv, TypeOK
<1>7. Shrinks
  BY <1>1, <1>2, <1>3, <1>4 DEF Shrinks, SameData
<1>8. RefholdersPinned' /\ ManualRefsKept'
  <2>1. \A c \in dropped : strong_cache[c].manual_refs = 0 /\ ~strong_cache[c].has_refholder_bridge
    BY <1>1, <1>3 DEF Protected
  <2> QED BY <1>2, <1>3, <1>4, <2>1 DEF IndInv, RefholdersPinned, ManualRefsKept, Manual
<1> QED BY <1>6, <1>7, <1>8, ShrinksInv

\* Refreshing, clearing and fading a tempref change nothing else.
LEMMA SetTemprefInv ==
    ASSUME IndInv, NEW c \in Cached, NEW s \in TempRef, SetTempref(c, s)
    PROVE  IndInv' /\ KeepsBuffers
<1> DEFINE e == [strong_cache[c] EXCEPT !.tempref = s]
<1>1. /\ strong_cache' = StrongWith(c, e)
      /\ UNCHANGED <<weak_cache, sizes, scratch_refs, refholder_counts, interest,
                     handoff, live, written, asked, transferred, skipped, claims>>
  BY DEF SetTempref, historyVars
<1>2. Cached \subseteq Checksum /\ strong_cache \in [Cached -> StrongEntry]
  BY StrongTyped DEF IndInv
<1>3. /\ e \in StrongEntry
      /\ SameData(e, strong_cache[c])
      /\ e.manual_refs = strong_cache[c].manual_refs
      /\ e.has_refholder_bridge = strong_cache[c].has_refholder_bridge
  BY <1>2 DEF StrongEntry, SameData
<1> HIDE DEF e
<1>4. /\ Cached' = Cached
      /\ strong_cache' \in [Cached' -> StrongEntry]
      /\ strong_cache'[c] = e
      /\ \A d \in Cached \ {c} : strong_cache'[d] = strong_cache[d]
  BY <1>1, <1>2, <1>3, StoreTyped
<1>5. TypeOK'
  BY <1>1, <1>2, <1>4 DEF IndInv, TypeOK
<1>6. Shrinks
  BY <1>1, <1>2, <1>3, <1>4 DEF Shrinks, SameData
<1>7. RefholdersPinned' /\ ManualRefsKept'
  BY <1>1, <1>2, <1>3, <1>4 DEF IndInv, RefholdersPinned, ManualRefsKept, Manual
<1> QED BY <1>5, <1>6, <1>7, ShrinksInv

\* Eviction demotes no protected entry.
LEMMA RunEvictionOnceInv ==
    ASSUME IndInv, NEW t \in Thread, RunEvictionOnce(t)
    PROVE  IndInv' /\ KeepsBuffers
<1> DEFINE rest == Cached \ ExpiredDemoted
<1>1. Cached \subseteq Checksum /\ strong_cache \in [Cached -> StrongEntry]
  BY StrongTyped DEF IndInv
<1>2. PICK priceless \in SUBSET Cached : EvictionPass(t, priceless)
  BY DEF RunEvictionOnce
<1> DEFINE candidates == Evictable(rest, priceless)
<1>e. PICK order \in SetToSeqs(candidates) :
        \E n \in 0..Len(order) : Evict(ExpiredDemoted \union Prefix(order, n))
  BY <1>2 DEF EvictionPass
<1>f. PICK n \in 0..Len(order) : Evict(ExpiredDemoted \union Prefix(order, n))
  BY <1>e
<1> DEFINE D == ExpiredDemoted \union Prefix(order, n)
<1>3. Prefix(order, n) \subseteq candidates
  <2>1. Cardinality(candidates) \in Nat
    <3>1. candidates \subseteq Checksum
      BY <1>1 DEF Evictable
    <3>2. IsFiniteSet(candidates)
      BY <3>1, BufferAssumption, FS_Subset
    <3> QED BY <3>2, FS_CardinalityType
  <2>2. order \in [1..Cardinality(candidates) -> candidates]
    BY DEF SetToSeqs
  <2>3. 1..n \subseteq 1..Cardinality(candidates)
    <3> HIDE DEF candidates
    <3>1. Len(order) = Cardinality(candidates)
      BY <2>1, <2>2
    <3> QED BY <2>1, <3>1
  <2> HIDE DEF candidates
  <2> QED BY <2>2, <2>3 DEF Prefix
<1>4. /\ D \in SUBSET Cached
      /\ \A c \in D : ~Protected(strong_cache[c])
  BY <1>3 DEF ExpiredDemoted, Expired, Evictable
<1>5. /\ Evict(D)
      /\ UNCHANGED <<sizes, scratch_refs, refholder_counts, handoff, live, written,
                     asked, transferred, skipped, claims>>
  BY <1>2, <1>f DEF EvictionPass, historyVars
<1> HIDE DEF D, rest, candidates
<1>6. /\ Cached' = Cached \ D
      /\ strong_cache' \in [Cached' -> StrongEntry]
      /\ \A c \in Cached' : /\ SameData(strong_cache'[c], strong_cache[c])
                            /\ strong_cache'[c].manual_refs = strong_cache[c].manual_refs
                            /\ strong_cache'[c].has_refholder_bridge
                                 = strong_cache[c].has_refholder_bridge
  <2> DEFINE f(c) == IF c \in Expired THEN [strong_cache[c] EXCEPT !.tempref = "none"]
                     ELSE strong_cache[c]
  <2>1. strong_cache' = [c \in Cached \ D |-> f(c)]
    BY <1>5 DEF Evict
  <2>2. \A c \in Cached : /\ f(c) \in StrongEntry
                          /\ SameData(f(c), strong_cache[c])
                          /\ f(c).manual_refs = strong_cache[c].manual_refs
                          /\ f(c).has_refholder_bridge = strong_cache[c].has_refholder_bridge
    BY <1>1 DEF StrongEntry, SameData, TempRef
  <2> HIDE DEF f
  <2> QED BY <2>1, <2>2 DEF Cached
<1>7. /\ weak_cache' = [c \in Checksum |-> weak_cache'[c]]
      /\ \A c \in Checksum : weak_cache'[c] \in {weak_cache[c], NoBuffer}
            \/ (c \in D /\ weak_cache'[c] = strong_cache[c].buffer)
      /\ interest' = [c \in Checksum |-> IF c \in D THEN interest[c] - 1 ELSE interest[c]]
  BY <1>5 DEF Evict
<1>8. /\ (\E S \in SUBSET Checksum : strong_cache \in [S -> StrongEntry])'
      /\ (weak_cache \in [Checksum -> Maybe(Buffer)])'
      /\ (interest \in [Checksum -> Nat])'
  BY <1>4, <1>6, <1>7, DropTyped
<1>9. TypeOK'
  BY <1>5, <1>8 DEF IndInv, TypeOK
<1>10. Shrinks
  BY <1>1, <1>4, <1>5, <1>6, <1>7 DEF Shrinks
<1>11. RefholdersPinned' /\ ManualRefsKept'
  <2>1. \A c \in D : strong_cache[c].manual_refs = 0 /\ ~strong_cache[c].has_refholder_bridge
    BY <1>1, <1>4 DEF Protected
  <2> QED BY <1>4, <1>5, <1>6, <2>1 DEF IndInv, RefholdersPinned, ManualRefsKept, Manual
<1> QED BY <1>9, <1>10, <1>11, ShrinksInv

\* What thread t hands to the writer was asked for, and stays handed over.
LEMMA HandOffInv ==
    ASSUME IndInv, NEW t \in Thread, HandOff(t)
    PROVE  IndInv' /\ KeepsBuffers
<1> USE DEF IndInv
<1>1. /\ written' = written \union {ContentOf[handoff[t]]}
      /\ handoff' = [handoff EXCEPT ![t] = NoBuffer]
      /\ handoff[t] # NoBuffer
      /\ UNCHANGED <<cacheVars, live, historyVars>>
  BY DEF HandOff, Idle
<1>2. ContentOf[handoff[t]] \in Checksum
  BY <1>1, BufferAssumption DEF TypeOK, Maybe
<1>3. Cached' = Cached /\ Cached \subseteq Checksum
  BY <1>1, StrongTyped DEF Cached, cacheVars
<1>4. TypeOK'
  BY <1>1, <1>2 DEF TypeOK, Maybe, cacheVars, historyVars
<1>5. \A c \in Checksum : HandedOver(c)' <=> HandedOver(c)
  BY <1>1 DEF HandedOver, TypeOK
<1>6. PublishedOnRequest' /\ PublicationComplete'
  BY <1>1, <1>3, <1>5 DEF PublishedOnRequest, PublicationComplete, cacheVars, historyVars
<1>7. KeepsBuffers
  BY <1>1 DEF KeepsBuffers, cacheVars
<1> QED
  BY <1>1, <1>3, <1>4, <1>6, <1>7 DEF cacheVars, historyVars, RefholdersPinned, ManualRefsKept,
     Manual, InterestMirrorsEntries, NoDeferredWriteBypassed, ContentAddressed, BufferAt,
     RegisteredWasAsked

\* The program and the garbage collector only drop objects.
LEMMA DropCollectInv ==
    ASSUME IndInv, NEW b \in Buffer, Drop(b) \/ Collect(b)
    PROVE  IndInv' /\ KeepsBuffers
<1>1. /\ live' \subseteq live
      /\ \A c \in Checksum : weak_cache'[c] \in {weak_cache[c], NoBuffer}
      /\ weak_cache' \in [Checksum -> Maybe(Buffer)]
      /\ UNCHANGED <<strong_cache, sizes, scratch_refs, refholder_counts, interest,
                     handoff, written, asked, transferred, skipped, claims>>
  BY DEF Drop, Collect, IndInv, TypeOK, Maybe, cacheVars, historyVars
<1>2. Cached' = Cached
  BY <1>1 DEF Cached
<1>3. TypeOK'
  BY <1>1 DEF IndInv, TypeOK
<1>4. Shrinks
  BY <1>1, <1>2 DEF Shrinks, SameData
<1>5. RefholdersPinned' /\ ManualRefsKept'
  BY <1>1, <1>2 DEF IndInv, RefholdersPinned, ManualRefsKept, Manual
<1> QED BY <1>3, <1>4, <1>5, ShrinksInv

-----------------------------------------------------------------------------
(* Theorems *)

\* Every step of the cache keeps the inductive invariant.
LEMMA NextInv ==
    ASSUME IndInv, [Next]_vars
    PROVE  IndInv' /\ KeepsBuffers
<1>1. CASE UNCHANGED vars
  BY <1>1 DEF vars, cacheVars, historyVars, IndInv, TypeOK, RefholdersPinned, ManualRefsKept,
     Manual, InterestMirrorsEntries, NoDeferredWriteBypassed, ContentAddressed, BufferAt,
     RegisteredWasAsked, PublishedOnRequest, PublicationComplete, HandedOver, Cached, KeepsBuffers
<1>2. ASSUME NEW t \in Thread,
             \/ HandOff(t)
             \/ ForceClearReferenceAccounting(t)
             \/ RunEvictionOnce(t)
             \/ PurgeScratch(t, scratch_refs)
             \/ \E b \in Buffer : Register(t, b)
      PROVE  IndInv' /\ KeepsBuffers
  <2>1. scratch_refs \in SUBSET Checksum
    BY DEF IndInv, TypeOK
  <2> QED BY <1>2, <2>1, HandOffInv, ForceClearInv, RunEvictionOnceInv, PurgeScratchInv, RegisterInv
<1>3. ASSUME NEW t \in Thread, NEW c \in Checksum,
             \/ Get(t, c)
             \/ Decref(t, c)
             \/ DecrefRefholder(t, c)
             \/ MarkScratch(t, c)
             \/ PurgeScratch(t, {c})
             \/ RefreshTempref(t, c)
             \/ ClearTempref(t, c)
      PROVE  IndInv' /\ KeepsBuffers
  <2>1. RefreshTempref(t, c) \/ ClearTempref(t, c) =>
          c \in Cached /\ \E s \in TempRef : SetTempref(c, s)
    BY DEF RefreshTempref, ClearTempref, TempRef
  <2> QED BY <1>3, <2>1, GetInv, DecrefInv, DecrefRefholderInv, MarkScratchInv,
             PurgeScratchInv, SetTemprefInv
<1>4. ASSUME NEW t \in Thread, NEW c \in Checksum, NEW b \in Offered(c),
             \/ \E scratch \in BOOLEAN : Incref(t, c, b, scratch)
             \/ \E kind \in HolderKind : IncrefRefholder(t, c, b, kind)
             \/ Tempref(t, c, b)
             \/ TransferWrite(t, c, b)
      PROVE  IndInv' /\ KeepsBuffers
  BY <1>4, IncrefInv, IncrefRefholderInv, TemprefInv, TransferWriteInv
<1>5. ASSUME NEW c \in Checksum, Fade(c)
      PROVE  IndInv' /\ KeepsBuffers
  BY <1>5, SetTemprefInv DEF Fade, TempRef
<1>6. ASSUME NEW b \in Buffer, Drop(b) \/ Collect(b)
      PROVE  IndInv' /\ KeepsBuffers
  BY <1>6, DropCollectInv
<1> QED BY <1>1, <1>2, <1>3, <1>4, <1>5, <1>6 DEF Next

\* The inductive invariant holds in every reachable state of the cache.
THEOREM SpecIndInv == Spec => []IndInv
<1>1. Init => IndInv
  BY InitIndInv
<1>2. IndInv /\ [Next]_vars => IndInv'
  BY NextInv
<1> QED BY <1>1, <1>2, PTL DEF Spec

\* Every state of the cache is typed.
THEOREM TypeCorrect == Spec => []TypeOK
<1>1. IndInv => TypeOK
  BY DEF IndInv
<1> QED BY <1>1, SpecIndInv, PTL

\* No interleaving of claims, releases, purges, expiry, eviction and forced
\* clean-up loses a refholder or leaves one behind: refholder counts, bridges
\* and the cost module's interest agree in every state.
THEOREM ReferencesAccounted ==
    Spec => [](RefholdersPinned /\ InterestMirrorsEntries)
<1>1. IndInv => RefholdersPinned /\ InterestMirrorsEntries
  BY DEF IndInv
<1> QED BY <1>1, SpecIndInv, PTL

\* Neither does it lose a manual reference: an entry carries as many of them
\* as incref and decref left, whatever evicted, expired or purged meanwhile.
THEOREM ManualReferencesKept == Spec => []ManualRefsKept
<1>1. IndInv => ManualRefsKept
  BY DEF IndInv
<1> QED BY <1>1, SpecIndInv, PTL

\* A buffer pinned under a request is published unless a scratch or neutral
\* claim attached it.
THEOREM PublicationCorrect == Spec => []PublicationComplete
<1>1. IndInv => PublicationComplete
  BY DEF IndInv
<1> QED BY <1>1, SpecIndInv, PTL

\* A buffer that reaches the writer, or is on its way, was asked for by a
\* claim that is not scratch.
THEOREM NothingPublishedUnasked == Spec => []PublishedOnRequest
<1>1. IndInv => PublishedOnRequest
  BY DEF IndInv
<1> QED BY <1>1, SpecIndInv, PTL

\* get() never promotes a weak buffer past a deferred write, and every pinned
\* buffer is visible to the eviction pass.
THEOREM DeferredWritesSafe ==
    Spec => [](NoDeferredWriteBypassed /\ SizedBuffers)
<1>1. ASSUME IndInv PROVE NoDeferredWriteBypassed /\ SizedBuffers
  <2>1. Cached \subseteq Checksum
    BY <1>1, StrongTyped DEF IndInv
  <2> QED BY <1>1, <2>1 DEF IndInv, ContentAddressed, BufferAt, SizedBuffers
<1> QED BY <1>1, SpecIndInv, PTL

\* A buffer known for a claimed checksum stays while the claim does.
THEOREM ClaimedBuffersStay == Spec => ClaimedBufferKept
<1>1. ASSUME IndInv, IndInv', [Next]_vars,
             NEW c \in Checksum, Claimed(c), Claimed(c)', BufferAt(c) # NoBuffer
      PROVE  BufferAt(c)' # NoBuffer
  <2>1. c \in Cached
    BY <1>1 DEF Claimed, IndInv, RefholdersPinned, ManualRefsKept, Manual
  <2>2. c \in Cached'
    BY <1>1 DEF Claimed, IndInv, RefholdersPinned, ManualRefsKept, Manual
  <2>3. strong_cache[c].buffer # NoBuffer
    BY <1>1, <2>1 DEF BufferAt, IndInv, NoDeferredWriteBypassed
  <2>4. KeepsBuffers
    BY <1>1, NextInv
  <2> QED BY <2>1, <2>2, <2>3, <2>4 DEF KeepsBuffers, BufferAt
<1>2. IndInv /\ IndInv' /\ [Next]_vars =>
        [\A c \in Checksum :
           Claimed(c) /\ Claimed(c)' /\ BufferAt(c) # NoBuffer => BufferAt(c)' # NoBuffer]_vars
  BY <1>1
<1> QED BY <1>2, SpecIndInv, PTL DEF Spec, ClaimedBufferKept

-----------------------------------------------------------------------------
(* Sums over sets: the bytes that eviction counts *)

\* A set of numbers that is not empty has a least one.
LEMMA LeastNumber ==
    ASSUME NEW T \in SUBSET Nat, T # {}
    PROVE  \E m \in T : \A n \in T : m <= n
<1> DEFINE U == {0 .. n : n \in T}
<1>1. \A n \in Nat : 0 .. n \in FiniteSubsetsOf(Nat)
  <2> TAKE n \in Nat
  <2>1. IsFiniteSet(0 .. n) /\ 0 .. n \in SUBSET Nat
    BY FS_Interval
  <2> QED BY <2>1 DEF FiniteSubsetsOf
<1>2. U \subseteq FiniteSubsetsOf(Nat) /\ U # {}
  BY <1>1
<1>3. PICK x \in U : \A y \in U : <<y, x>> \notin StrictSubsetOrdering(Nat)
  <2> HIDE DEF U
  <2> QED BY <1>2, FS_StrictSubsetOrderingWellFounded, WFMin
<1>4. PICK m \in T : x = 0 .. m
  OBVIOUS
<1>5. ASSUME NEW n \in T, n < m PROVE FALSE
  <2>1. 0 .. n \in U /\ 0 .. n \subseteq 0 .. m /\ m \in 0 .. m /\ m \notin 0 .. n
    BY <1>5
  <2>2. 0 .. n \in SUBSET Nat /\ 0 .. m \in SUBSET Nat
    OBVIOUS
  <2> QED BY <2>1, <2>2, <1>3, <1>4 DEF StrictSubsetOrdering
<1> QED BY <1>5

LEMMA Induction ==
    ASSUME NEW P \in SUBSET Nat, 0 \in P, \A n \in P : n + 1 \in P
    PROVE  P = Nat
<1> SUFFICES ASSUME Nat \ P # {} PROVE FALSE
  OBVIOUS
<1>1. PICK m \in Nat \ P : \A n \in Nat \ P : m <= n
  BY LeastNumber
<1>2. m # 0 /\ m - 1 \in Nat /\ m - 1 < m
  BY <1>1
<1>3. m - 1 \in P /\ (m - 1) + 1 = m
  BY <1>1, <1>2
<1> QED BY <1>3

\* Induction over the subsets of a finite set.
LEMMA SubsetInduction ==
    ASSUME NEW S, IsFiniteSet(S), NEW P \in SUBSET (SUBSET S),
           \A X \in SUBSET S : (\A Y \in SUBSET X : Y # X => Y \in P) => X \in P
    PROVE  P = SUBSET S
<1> SUFFICES ASSUME (SUBSET S) \ P # {} PROVE FALSE
  OBVIOUS
<1> DEFINE U == (SUBSET S) \ P
<1>1. U \subseteq FiniteSubsetsOf(S) /\ U # {}
  <2>1. FiniteSubsetsOf(S) = SUBSET S
    BY FS_FiniteSubsetsOfFinite
  <2> QED BY <2>1
<1>2. PICK X \in U : \A Y \in U : <<Y, X>> \notin StrictSubsetOrdering(S)
  <2> HIDE DEF U
  <2> QED BY <1>1, FS_StrictSubsetOrderingWellFounded, WFMin
<1>3. ASSUME NEW Y \in SUBSET X, Y # X PROVE Y \in P
  <2>1. X \in SUBSET S /\ Y \in SUBSET S
    OBVIOUS
  <2>2. <<Y, X>> \in StrictSubsetOrdering(S)
    BY <1>3, <2>1 DEF StrictSubsetOrdering
  <2> QED BY <1>2, <2>1, <2>2
<1> QED BY <1>2, <1>3

\* MapThenSumSet, as the recursive function that it takes the value of.
Picked(X) == CHOOSE x \in X : TRUE
Added(g, X, w) == IF X = {} THEN 0 ELSE w[Picked(X)] + g[X \ {Picked(X)}]
Sums(g, D, w) == g = [X \in SUBSET D |-> Added(g, X, w)]

LEMMA PickedIn ==
    ASSUME NEW D, IsFiniteSet(D), NEW X \in SUBSET D, X # {}
    PROVE  /\ Picked(X) \in X /\ Picked(X) \in D
           /\ X \ {Picked(X)} \in SUBSET D /\ X \ {Picked(X)} # X
           /\ Cardinality(X) \in Nat
           /\ Cardinality(X \ {Picked(X)}) = Cardinality(X) - 1
<1>1. Picked(X) \in X
  BY DEF Picked
<1>2. IsFiniteSet(X)
  BY FS_Subset
<1>3. Cardinality(X) \in Nat /\ Cardinality(X \ {Picked(X)}) = Cardinality(X) - 1
  BY <1>1, <1>2, FS_CardinalityType, FS_RemoveElement
<1> QED BY <1>1, <1>3

LEMMA SumExists ==
    ASSUME NEW D, IsFiniteSet(D), NEW w \in [D -> Nat]
    PROVE  \E g \in [SUBSET D -> Nat] : Sums(g, D, w)
<1> DEFINE Good(n, g) == \A X \in SUBSET D : Cardinality(X) < n => g[X] = Added(g, X, w)
           P == {n \in Nat : \E g \in [SUBSET D -> Nat] : Good(n, g)}
<1>1. 0 \in P
  <2>1. \A X \in SUBSET D : Cardinality(X) \in Nat
    BY FS_Subset, FS_CardinalityType
  <2>2. [X \in SUBSET D |-> 0] \in [SUBSET D -> Nat] /\ Good(0, [X \in SUBSET D |-> 0])
    BY <2>1
  <2> QED BY <2>2
<1>2. ASSUME NEW n \in P PROVE n + 1 \in P
  <2>1. PICK g \in [SUBSET D -> Nat] : Good(n, g)
    OBVIOUS
  <2> DEFINE h == [X \in SUBSET D |-> Added(g, X, w)]
  <2>2. ASSUME NEW X \in SUBSET D PROVE Added(g, X, w) \in Nat
    <3>1. CASE X = {}
      BY <3>1 DEF Added
    <3>2. CASE X # {}
      <4>1. w[Picked(X)] \in Nat /\ g[X \ {Picked(X)}] \in Nat
        BY <3>2, PickedIn
      <4> QED BY <3>2, <4>1 DEF Added
    <3> QED BY <3>1, <3>2
  <2>3. h \in [SUBSET D -> Nat] /\ \A X \in SUBSET D : h[X] = Added(g, X, w)
    BY <2>2
  <2> HIDE DEF h
  <2>4. ASSUME NEW X \in SUBSET D, Cardinality(X) < n + 1
        PROVE  h[X] = Added(h, X, w)
    <3>1. CASE X = {}
      BY <2>3, <3>1 DEF Added
    <3>2. CASE X # {}
      <4>1. X \ {Picked(X)} \in SUBSET D /\ Cardinality(X \ {Picked(X)}) < n
        BY <2>4, <3>2, PickedIn
      <4>2. g[X \ {Picked(X)}] = h[X \ {Picked(X)}]
        BY <2>1, <2>3, <4>1
      <4> QED BY <2>3, <3>2, <4>2 DEF Added
    <3> QED BY <3>1, <3>2
  <2>5. Good(n + 1, h)
    BY <2>4
  <2> QED BY <2>3, <2>5
<1>3. P = Nat
  <2>1. P \in SUBSET Nat
    OBVIOUS
  <2> HIDE DEF P
  <2> QED BY <1>1, <1>2, <2>1, Induction
<1>4. PICK g \in [SUBSET D -> Nat] : Good(Cardinality(D) + 1, g)
  <2>1. Cardinality(D) + 1 \in Nat
    BY FS_CardinalityType
  <2> QED BY <1>3, <2>1
<1>5. ASSUME NEW X \in SUBSET D PROVE g[X] = Added(g, X, w)
  <2>1. Cardinality(X) <= Cardinality(D) /\ Cardinality(X) \in Nat /\ Cardinality(D) \in Nat
    BY FS_Subset, FS_CardinalityType
  <2>2. Cardinality(X) < Cardinality(D) + 1
    BY <2>1
  <2> QED BY <1>4, <2>2
<1> QED BY <1>5 DEF Sums

\* Sums of the same numbers agree.
LEMMA SumsAgree ==
    ASSUME NEW D, IsFiniteSet(D), NEW E, IsFiniteSet(E), NEW w, NEW v,
           NEW g, Sums(g, D, w), NEW h, Sums(h, E, v),
           NEW S, S \subseteq D, S \subseteq E, \A x \in S : w[x] = v[x]
    PROVE  g[S] = h[S]
<1> DEFINE P == {X \in SUBSET S : g[X] = h[X]}
<1>1. ASSUME NEW X \in SUBSET S, \A Y \in SUBSET X : Y # X => Y \in P
      PROVE  X \in P
  <2>1. g[X] = Added(g, X, w) /\ h[X] = Added(h, X, v)
    BY DEF Sums
  <2>2. CASE X = {}
    BY <2>1, <2>2 DEF Added
  <2>3. CASE X # {}
    <3>1. Picked(X) \in X /\ X \ {Picked(X)} # X
      BY <2>3, PickedIn
    <3>2. w[Picked(X)] = v[Picked(X)] /\ g[X \ {Picked(X)}] = h[X \ {Picked(X)}]
      BY <1>1, <3>1
    <3> QED BY <2>1, <2>3, <3>2 DEF Added
  <2> QED BY <2>2, <2>3
<1>2. P = SUBSET S
  <2>1. P \in SUBSET (SUBSET S) /\ IsFiniteSet(S)
    BY FS_Subset
  <2> HIDE DEF P
  <2> QED BY <1>1, <2>1, SubsetInduction
<1> QED BY <1>2

\* The order of the terms does not matter.
AnyFirst(g, D, w) == \A X \in SUBSET D : \A x \in X : g[X] = w[x] + g[X \ {x}]

LEMMA SumRemove ==
    ASSUME NEW D, IsFiniteSet(D), NEW w \in [D -> Nat],
           NEW g \in [SUBSET D -> Nat], Sums(g, D, w)
    PROVE  AnyFirst(g, D, w)
<1> DEFINE P == {X \in SUBSET D : \A x \in X : g[X] = w[x] + g[X \ {x}]}
<1>1. ASSUME NEW X \in SUBSET D, \A Y \in SUBSET X : Y # X => Y \in P
      PROVE  X \in P
  <2> SUFFICES ASSUME NEW x \in X PROVE g[X] = w[x] + g[X \ {x}]
    OBVIOUS
  <2> DEFINE y == Picked(X)
  <2>1. y \in X /\ y \in D /\ g[X] = w[y] + g[X \ {y}]
    BY PickedIn DEF Sums, Added
  <2> HIDE DEF y
  <2>2. CASE x = y
    BY <2>1, <2>2
  <2>3. CASE x # y
    <3>1. x \in X \ {y} /\ y \in X \ {x} /\ X \ {x} \in P /\ X \ {y} \in P
      BY <1>1, <2>1, <2>3
    <3>2. (X \ {y}) \ {x} = (X \ {x}) \ {y}
      OBVIOUS
    <3>3. PICK r : r = (X \ {x}) \ {y}
      OBVIOUS
    <3>4. g[X \ {y}] = w[x] + g[r]
      BY <3>1, <3>2, <3>3
    <3>5. g[X \ {x}] = w[y] + g[r]
      BY <3>1, <3>3
    <3>6. w[x] \in Nat /\ w[y] \in Nat /\ g[r] \in Nat
      BY <2>1, <3>3
    <3> QED BY <2>1, <3>4, <3>5, <3>6
  <2> QED BY <2>2, <2>3
<1>2. P = SUBSET D
  <2>1. P \in SUBSET (SUBSET D)
    OBVIOUS
  <2> HIDE DEF P
  <2> QED BY <1>1, <2>1, SubsetInduction
<1> QED BY <1>2 DEF AnyFirst

LEMMA SumSplit ==
    ASSUME NEW D, IsFiniteSet(D), NEW w \in [D -> Nat],
           NEW g \in [SUBSET D -> Nat], Sums(g, D, w), NEW T \in SUBSET D
    PROVE  g[D] = g[T] + g[D \ T]
<1>1. PICK R : R = D \ T
  OBVIOUS
<1> DEFINE Both(X) == X \union R
           P == {X \in SUBSET D : X \subseteq T => g[Both(X)] = g[X] + g[R]}
<1>2. \A X \in SUBSET D : Both(X) \in SUBSET D /\ X \subseteq Both(X)
  BY <1>1
<1>3. AnyFirst(g, D, w)
  <2> HIDE DEF P
  <2> QED BY SumRemove
<1>4. ASSUME NEW X \in SUBSET D, \A Y \in SUBSET X : Y # X => Y \in P
      PROVE  X \in P
  <2> SUFFICES ASSUME X \subseteq T PROVE g[Both(X)] = g[X] + g[R]
    OBVIOUS
  <2>1. g[R] \in Nat
    BY <1>1
  <2>2. CASE X = {}
    <3>1. g[X] = 0
      BY <2>2 DEF Sums, Added
    <3>2. Both(X) = R
      BY <2>2
    <3> HIDE DEF Both
    <3>3. g[Both(X)] = g[R]
      BY <3>2
    <3> QED BY <2>1, <3>1, <3>3
  <2>3. CASE X # {}
    <3>1. PICK x \in X : TRUE
      BY <2>3
    <3>2. PICK Y : Y = X \ {x}
      OBVIOUS
    <3>3. Y \in P /\ Y \subseteq T /\ Y \in SUBSET D
      BY <1>4, <3>1, <3>2
    <3>4. Both(X) \ {x} = Both(Y)
      BY <1>1, <3>1, <3>2
    <3>5. x \in Both(X) /\ Both(X) \in SUBSET D /\ x \in D
      BY <1>1
    <3>6. g[Both(Y)] = g[Y] + g[R]
      BY <3>3
    <3> HIDE DEF Both
    <3>7. g[X] = w[x] + g[Y]
      BY <1>3, <3>2 DEF AnyFirst
    <3>8. g[Both(X)] = w[x] + g[Both(Y)]
      BY <1>3, <3>4, <3>5 DEF AnyFirst
    <3>9. w[x] \in Nat /\ g[Y] \in Nat
      BY <3>3, <3>5
    <3> QED BY <2>1, <3>6, <3>7, <3>8, <3>9
  <2> QED BY <2>2, <2>3
<1>5. P = SUBSET D
  <2>1. P \in SUBSET (SUBSET D)
    OBVIOUS
  <2> HIDE DEF P
  <2> QED BY <1>4, <2>1, SubsetInduction
<1>6. T \in P /\ Both(T) = D
  BY <1>1, <1>5
<1>7. g[Both(T)] = g[T] + g[R]
  BY <1>6
<1> HIDE DEF Both
<1> QED BY <1>1, <1>6, <1>7

-----------------------------------------------------------------------------
(* Eviction relieves the pressure *)

\* The bytes that an entry of a strong cache accounts for.
Weight(cache, c) == IF cache[c].sized THEN Length[c] ELSE 0
UsageIn(cache, S) ==
    MapThenSumSet(LAMBDA c : IF cache[c].sized THEN Length[c] ELSE 0, S)

LEMMA UsageIs ==
    /\ \A S : Usage(S) = UsageIn(strong_cache, S)
    /\ Usage(Cached)' = UsageIn(strong_cache', DOMAIN strong_cache')
<1>1. ASSUME NEW S PROVE Usage(S) = UsageIn(strong_cache, S)
  BY DEF Usage, UsageIn, MapThenSumSet, MapThenFoldSet
<1>2. Usage(Cached)' = UsageIn(strong_cache', DOMAIN strong_cache')
  BY DEF Usage, UsageIn, Cached, MapThenSumSet, MapThenFoldSet
<1> QED BY <1>1, <1>2

LEMMA UsageSum ==
    ASSUME NEW cache, NEW S \in SUBSET Checksum, NEW D \in SUBSET Checksum, S \subseteq D,
           NEW w, \A c \in D : w[c] = Weight(cache, c), NEW g, Sums(g, D, w)
    PROVE  UsageIn(cache, S) = g[S]
<1> DEFINE Plain(f, X) ==
             IF X = {} THEN 0
             ELSE Weight(cache, Picked(X)) + f[X \ {Picked(X)}]
           v == [c \in S |-> Weight(cache, c)]
           Sum(f) == f = [X \in SUBSET S |-> Plain(f, X)]
           h == CHOOSE f : Sum(f)
<1>1. IsFiniteSet(S) /\ IsFiniteSet(D)
  BY BufferAssumption, FS_Subset
<1>2. v \in [S -> Nat]
  BY BoundsAssumption DEF Weight
<1>3. \A f : Sum(f) <=> Sums(f, S, v)
  <2> TAKE f
  <2>1. ASSUME NEW X \in SUBSET S PROVE Plain(f, X) = Added(f, X, v)
    <3>1. X # {} => Picked(X) \in S
      BY <1>1, PickedIn
    <3>2. X # {} => v[Picked(X)] = Weight(cache, Picked(X))
      BY <3>1
    <3> HIDE DEF v
    <3> QED BY <3>2 DEF Added
  <2> HIDE DEF Plain, v
  <2> QED BY <2>1, Zenon DEF Sums
<1>4. Sums(h, S, v)
  <2>1. \E f : Sum(f)
    <3> HIDE DEF Sum, v
    <3> QED BY <1>1, <1>2, <1>3, SumExists
  <2> HIDE DEF Sum, v
  <2> QED BY <1>3, <2>1
<1>5. UsageIn(cache, S) = h[S]
  BY DEF UsageIn, MapThenSumSet, MapThenFoldSet, Weight, Picked
<1>6. \A c \in S : w[c] = v[c]
  OBVIOUS
<1> HIDE DEF h, v
<1>7. g[S] = h[S]
  BY <1>1, <1>4, <1>6, SumsAgree
<1> QED BY <1>5, <1>7

\* What is evicted and what stays add up, whatever else eviction changes in
\* the entries that stay.
AddUp(whole, part, left) ==
    /\ whole = part + left
    /\ part \in Nat /\ left \in Nat

LEMMA UsageSplit ==
    ASSUME NEW cache, NEW after, NEW D \in SUBSET Checksum, NEW T \in SUBSET D,
           \A c \in D \ T : after[c].sized = cache[c].sized
    PROVE  AddUp(UsageIn(cache, D), UsageIn(cache, T), UsageIn(after, D \ T))
<1>1. PICK w : w = [c \in D |-> Weight(cache, c)]
  OBVIOUS
<1>2. w \in [D -> Nat]
  BY <1>1, BoundsAssumption DEF Weight
<1>3. PICK g \in [SUBSET D -> Nat] : Sums(g, D, w)
  BY <1>2, BufferAssumption, FS_Subset, SumExists
<1>4. g[D] = g[T] + g[D \ T]
  BY <1>2, <1>3, BufferAssumption, FS_Subset, SumSplit
<1>5. UsageIn(cache, D) = g[D] /\ UsageIn(cache, T) = g[T]
  <2>1. \A c \in D : w[c] = Weight(cache, c)
    BY <1>1
  <2>2. T \in SUBSET Checksum
    OBVIOUS
  <2> QED BY <1>3, <2>1, <2>2, UsageSum
<1>6. UsageIn(after, D \ T) = g[D \ T]
  <2>1. PICK R : R = D \ T
    OBVIOUS
  <2>2. PICK v : v = [c \in R |-> w[c]]
    OBVIOUS
  <2>3. v \in [R -> Nat] /\ R \in SUBSET Checksum /\ R \subseteq D /\ IsFiniteSet(R) /\ IsFiniteSet(D)
    BY <1>2, <2>1, <2>2, BufferAssumption, FS_Subset
  <2>4. PICK h \in [SUBSET R -> Nat] : Sums(h, R, v)
    BY <2>3, SumExists
  <2>5. \A c \in R : v[c] = Weight(after, c) /\ w[c] = v[c]
    BY <1>1, <2>1, <2>2 DEF Weight
  <2>6. UsageIn(after, R) = h[R]
    BY <2>3, <2>4, <2>5, UsageSum
  <2>7. g[R] = h[R]
    BY <1>3, <2>3, <2>4, <2>5, SumsAgree
  <2> QED BY <2>1, <2>6, <2>7
<1>7. g[T] \in Nat /\ g[D \ T] \in Nat
  BY <1>3
<1> QED BY <1>4, <1>5, <1>6, <1>7 DEF AddUp

\* An order of the candidates, taken to its end, takes all of them.
LEMMA WholeOrder ==
    ASSUME NEW S \in SUBSET Checksum, NEW order \in SetToSeqs(S)
    PROVE  /\ Prefix(order, Cardinality(S)) = S
           /\ \A n \in 0 .. Cardinality(S) : Prefix(order, n) \in SUBSET S
<1>1. IsFiniteSet(S)
  BY BufferAssumption, FS_Subset
<1>2. PICK n \in Nat : n = Cardinality(S)
  BY <1>1, FS_CardinalityType
<1>3. /\ order \in [1 .. n -> S]
      /\ \A i, j \in 1 .. n : i # j => order[i] # order[j]
  BY <1>2 DEF SetToSeqs
<1>4. order \in Injection(1 .. n, S)
  BY <1>3 DEF Injection, IsInjective
<1>5. Cardinality(1 .. n) = n
  <2>1. 1 \in Int /\ n \in Int
    OBVIOUS
  <2> QED BY <2>1, FS_Interval
<1>6. order \in Surjection(1 .. n, S)
  BY <1>1, <1>2, <1>4, <1>5, FS_Injection
<1>7. \A s \in S : \E i \in 1 .. n : order[i] = s
  BY <1>6 DEF Surjection
<1> QED BY <1>2, <1>3, <1>7 DEF Prefix

LEMMA EvictionRelieves ==
    ASSUME IndInv, NEW t \in Thread, NEW priceless \in SUBSET Cached,
           EvictionPass(t, priceless)
    PROVE  Usage(Cached)' <= SoftCap \/ Evictable(Cached, priceless)' = {}
<1> DEFINE rest == Cached \ ExpiredDemoted
           candidates == Evictable(rest, priceless)
<1>d. PICK order \in SetToSeqs(candidates) :
          \E n \in 0..Len(order) : StopsAfter(rest, order, n)
                                  /\ Evict(ExpiredDemoted \union Prefix(order, n))
  BY DEF EvictionPass
<1>e. PICK n \in 0..Len(order) : StopsAfter(rest, order, n)
                                /\ Evict(ExpiredDemoted \union Prefix(order, n))
  BY <1>d
<1>f. Len(order) = Cardinality(candidates)
  <2>1. candidates \subseteq Checksum
    BY StrongTyped DEF IndInv, Evictable
  <2> HIDE DEF candidates
  <2>2. Cardinality(candidates) \in Nat
    BY <2>1, BufferAssumption, FS_Subset, FS_CardinalityType
  <2>3. order \in [1 .. Cardinality(candidates) -> candidates]
    BY <1>d DEF SetToSeqs
  <2> QED BY <2>2, <2>3
<1>1. /\ order \in SetToSeqs(candidates)
      /\ n \in 0 .. Cardinality(candidates)
      /\ n = Cardinality(candidates) \/ Fits(rest, order, n)
      /\ Evict(ExpiredDemoted \union Prefix(order, n))
  BY <1>d, <1>e, <1>f DEF StopsAfter
<1>2. /\ Cached \in SUBSET Checksum
      /\ candidates \in SUBSET rest /\ rest \in SUBSET Cached
  BY StrongTyped DEF IndInv, Evictable
<1>3. /\ Prefix(order, Cardinality(candidates)) = candidates
      /\ Prefix(order, n) \in SUBSET candidates
  <2> HIDE DEF candidates
  <2> QED BY <1>1, <1>2, WholeOrder
<1>4. PICK gone : gone = Prefix(order, n)
  OBVIOUS
<1>5. /\ DOMAIN strong_cache' = rest \ gone
      /\ \A c \in rest \ gone : /\ strong_cache'[c].sized = strong_cache[c].sized
                                /\ Protected(strong_cache'[c]) <=> Protected(strong_cache[c])
  <2>1. strong_cache' = [c \in Cached \ (ExpiredDemoted \union gone) |->
            IF c \in Expired THEN [strong_cache[c] EXCEPT !.tempref = "none"] ELSE strong_cache[c]]
    BY <1>1, <1>4 DEF Evict
  <2>2. Cached \ (ExpiredDemoted \union gone) = rest \ gone
    OBVIOUS
  <2>3. \A c \in Cached : strong_cache[c] \in StrongEntry
    BY StrongTyped DEF IndInv
  <2>4. ASSUME NEW c \in rest \ gone
        PROVE  /\ strong_cache'[c].sized = strong_cache[c].sized
               /\ Protected(strong_cache'[c]) <=> Protected(strong_cache[c])
    <3>1. /\ strong_cache[c] \in StrongEntry
          /\ strong_cache'[c] \in {strong_cache[c], [strong_cache[c] EXCEPT !.tempref = "none"]}
      BY <2>1, <2>2, <2>3
    <3> QED BY <3>1 DEF StrongEntry, Protected
  <2> QED BY <2>1, <2>2, <2>4
<1>6. CASE Fits(rest, order, n)
  <2>1. UsageIn(strong_cache, rest) - UsageIn(strong_cache, gone) <= SoftCap
    BY <1>4, <1>6, UsageIs DEF Fits
  <2>2. PICK R, after : R = rest /\ after = strong_cache' /\ R \in SUBSET Checksum
    BY <1>2
  <2>3. gone \in SUBSET R
    BY <1>2, <1>3, <1>4, <2>2
  <2>4. /\ UsageIn(strong_cache, R) = UsageIn(strong_cache, gone) + UsageIn(after, R \ gone)
        /\ UsageIn(strong_cache, gone) \in Nat /\ UsageIn(after, R \ gone) \in Nat
    <3>1. \A c \in R \ gone : after[c].sized = strong_cache[c].sized
      BY <1>5, <2>2
    <3> HIDE DEF rest, candidates
    <3>2. AddUp(UsageIn(strong_cache, R), UsageIn(strong_cache, gone), UsageIn(after, R \ gone))
      <4>1. R \in SUBSET Checksum
        BY <2>2
      <4> QED BY <2>3, <3>1, <4>1, UsageSplit
    <3> QED BY <3>2 DEF AddUp
  <2>5. Usage(Cached)' = UsageIn(after, R \ gone)
    BY <1>5, <2>2, UsageIs
  <2>6. UsageIn(strong_cache, R) - UsageIn(strong_cache, gone) <= SoftCap /\ SoftCap \in Nat
    BY <2>1, <2>2, BoundsAssumption
  <2>7. Usage(Cached)' <= SoftCap
    <3>1. PICK a \in Nat, b \in Nat : a = UsageIn(strong_cache, gone) /\ b = UsageIn(after, R \ gone)
      BY <2>4
    <3>2. (a + b) - a <= SoftCap /\ Usage(Cached)' = b
      BY <2>4, <2>5, <2>6, <3>1
    <3> QED BY <2>6, <3>2
  <2> QED BY <2>7
<1>7. CASE n = Cardinality(candidates)
  <2>1. gone = candidates
    BY <1>3, <1>4, <1>7
  <2>2. Evictable(Cached, priceless)' = {}
    <3> SUFFICES ASSUME NEW c \in DOMAIN strong_cache', c \notin priceless,
                        ~Protected(strong_cache'[c]), strong_cache'[c].sized, Length[c] > 0
                 PROVE  FALSE
      BY DEF Evictable, Cached
    <3>1. c \in rest \ gone
      BY <1>5
    <3>2. c \in candidates
      BY <1>5, <3>1 DEF Evictable
    <3> QED BY <2>1, <3>1, <3>2
  <2> QED BY <2>2
<1> QED BY <1>1, <1>6, <1>7

\* One pass of run_eviction_once brings the strong cache under its soft cap or
\* leaves nothing that it could evict, whichever costs are infinite: the bytes
\* it subtracts are those of what leaves.
THEOREM EvictionRelievesPressure == Spec => PressureRelieved
<1>1. IndInv /\ [Next]_vars
        => [\A t \in Thread, priceless \in SUBSET Cached :
              \/ Evictable(Cached, priceless)' = {}
              \/ Usage(Cached)' <= SoftCap
              \/ ~EvictionPass(t, priceless)]_vars
  BY EvictionRelieves
<1> QED BY <1>1, SpecIndInv, PTL DEF Spec, PressureRelieved
============================================================================
