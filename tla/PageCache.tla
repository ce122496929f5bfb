----------------------------- MODULE PageCache -----------------------------
(***************************************************************************)
(* The reader's page cache (web/src/io/page-cache.ts) between SQLite's     *)
(* xRead and a ByteSource that may refuse a blocking read.                 *)
(*                                                                         *)
(* A byte is represented by its position in the source, so that a wrong    *)
(* byte is a wrong number.  A read is taken page by page, one step each:   *)
(* the browser runs it without interruption, and nothing else changes the  *)
(* cache in between.                                                       *)
(***************************************************************************)
EXTENDS Integers, Sequences, FiniteSets, SequencesExt

CONSTANTS
    Size,       \* bytes of the source
    PageSize,   \* bytes of a page
    Ceilings,   \* the ceilings a cache may be given, in bytes
    Offsets, Lengths, \* the reads SQLite asks for
    MaxTouches  \* bound: pages looked up in one behaviour

ASSUME PageAssumption ==
    /\ Size \in Nat
    /\ PageSize \in Nat \ {0}
    /\ Ceilings \subseteq Nat
    /\ Offsets \subseteq Nat
    /\ Lengths \subseteq Int
    /\ MaxTouches \in Nat

VARIABLES
    maxBytes, \* the ceiling of this cache
    pages,   \* the Map: per cached page index, where its bytes start and how many
    order,   \* the Map's insertion order, oldest first
    stats,   \* the counters
    reading, \* whether a readSync is under way
    req,     \* its offset, wanted bytes, next page and last page
    out,     \* its buffer: position of the byte at each index, or Unset
    written, \* bytes copied so far
    answer,  \* what the last readSync returned: "none", "bytes" or "null"
    recent,  \* bookkeeping: every page used since a clear, least recently used first
    dropped  \* bookkeeping: pages let go by clear

vars == <<maxBytes, pages, order, stats, reading, req, out, written, answer, recent, dropped>>

Unset == -1

MinOf(a, b) == IF a < b THEN a ELSE b
MaxOf(a, b) == IF a < b THEN b ELSE a

NoStats == [hits |-> 0, misses |-> 0, evictions |-> 0, sourceReads |-> 0]
NoReq == [offset |-> 0, length |-> 0, wanted |-> 0, page |-> 0, last |-> 0]

\* Map.delete, then Map.set: the key goes to the end, if it was there or not.
MoveToEnd(seq, x) == Append(RemoveFirst(seq, x), x)

----------------------------------------------------------------------------
(* ByteSource.readSync, clamped to what the source holds *)

\* Mutant of SourceRead: not clamped at the end of the source.
SourceReadUnclamped(start, length) == [from |-> start, len |-> length]

SourceRead(start, length) ==
    [from |-> start, len |-> MinOf(start + length, Size) - start]

----------------------------------------------------------------------------

\* stats.cachedBytes: the lengths of the pages of a Map, added up.
CachedBytes(map) == SumFunction([i \in DOMAIN map |-> map[i].len])

\* Mutant of Surviving: stops one page late, so one page too many stays.
SurvivingOneMore(seq, map) ==
    LET Rest(k) == SubSeq(seq, k + 1, Len(seq))
        Fits(k) == k >= Len(seq) - 1 \/ CachedBytes(Restrict(map, Range(Rest(k + 1)))) <= maxBytes
    IN Rest(Min({k \in 0..Len(seq) : Fits(k)}))

\* evict: the oldest go until the rest fits, but never the last one.
Surviving(seq, map) ==
    LET Rest(k) == SubSeq(seq, k + 1, Len(seq))
        Fits(k) == k >= Len(seq) - 1 \/ CachedBytes(Restrict(map, Range(Rest(k)))) <= maxBytes
    IN Rest(Min({k \in 0..Len(seq) : Fits(k)}))

\* Mutant of From: the offset into the first page is used in every page.
FromEveryPage(page) == req.offset % PageSize

\* Where in the page the read starts.
From(page) == MaxOf(0, req.offset - req.page * PageSize)

\* How much of the page is copied.
Take(page) == MinOf(page.len - From(page), req.wanted - written)

\* Copy from a page into the buffer, as far as both go.
Copy(page) ==
    /\ out' = [k \in DOMAIN out |->
                  IF written <= k /\ k < written + Take(page)
                  THEN page.from + From(page) + (k - written) ELSE out[k]]
    /\ written' = IF Take(page) <= 0 THEN written ELSE written + Take(page)
    /\ IF Take(page) <= 0 \/ req.page = req.last
       THEN /\ reading' = FALSE
            /\ answer' = "bytes"
            /\ UNCHANGED req
       ELSE /\ req' = [req EXCEPT !.page = @ + 1]
            /\ UNCHANGED <<reading, answer>>

----------------------------------------------------------------------------

\* readSync: nothing to do, or the pages from the first to the last.
Begin(offset, length) ==
    /\ ~reading
    /\ stats.hits + stats.misses < MaxTouches
    /\ written' = 0
    /\ IF length <= 0 \/ offset >= Size
       THEN /\ answer' = "bytes"
            /\ req' = [NoReq EXCEPT !.offset = offset, !.length = length]
            /\ out' = [k \in {} |-> Unset]
            /\ UNCHANGED reading
       ELSE LET wanted == MinOf(length, Size - offset)
            IN /\ reading' = TRUE
               /\ answer' = "none"
               /\ req' = [offset |-> offset, length |-> length, wanted |-> wanted,
                          page |-> offset \div PageSize,
                          last |-> (offset + wanted - 1) \div PageSize]
               /\ out' = [k \in 0..(wanted - 1) |-> Unset]
    /\ UNCHANGED <<maxBytes, pages, order, stats, recent, dropped>>

\* Mutant of Hit: the page is read but not moved to the end of the Map.
HitNoTouch ==
    /\ reading
    /\ req.page \in DOMAIN pages
    /\ recent' = MoveToEnd(recent, req.page)
    /\ stats' = [stats EXCEPT !.hits = @ + 1]
    /\ Copy(pages[req.page])
    /\ UNCHANGED <<maxBytes, pages, order, dropped>>

\* touch: the page moves to the end of the Map.
Hit ==
    /\ reading
    /\ req.page \in DOMAIN pages
    /\ order' = MoveToEnd(order, req.page)
    /\ recent' = MoveToEnd(recent, req.page)
    /\ stats' = [stats EXCEPT !.hits = @ + 1]
    /\ Copy(pages[req.page])
    /\ UNCHANGED <<maxBytes, pages, dropped>>

\* Mutant of Miss: the victims of an eviction leave the order but not the Map.
MissLeaks ==
    /\ reading
    /\ req.page \notin DOMAIN pages
    /\ LET page == SourceRead(req.page * PageSize, PageSize)
           map == [i \in DOMAIN pages \cup {req.page} |->
                      IF i = req.page THEN page ELSE pages[i]]
           seq == Append(order, req.page)
           kept == Surviving(seq, map)
       IN /\ order' = kept
          /\ pages' = map
          /\ stats' = [stats EXCEPT !.misses = @ + 1, !.sourceReads = @ + 1,
                                    !.evictions = @ + Len(seq) - Len(kept)]
          /\ Copy(page)
    /\ recent' = MoveToEnd(recent, req.page)
    /\ UNCHANGED <<maxBytes, dropped>>

\* load: the page is fetched and kept, and the cache is brought under its ceiling.
Miss ==
    /\ reading
    /\ req.page \notin DOMAIN pages
    /\ LET page == SourceRead(req.page * PageSize, PageSize)
           map == [i \in DOMAIN pages \cup {req.page} |->
                      IF i = req.page THEN page ELSE pages[i]]
           seq == Append(order, req.page)
           kept == Surviving(seq, map)
       IN /\ order' = kept
          /\ pages' = Restrict(map, Range(kept))
          /\ stats' = [stats EXCEPT !.misses = @ + 1, !.sourceReads = @ + 1,
                                    !.evictions = @ + Len(seq) - Len(kept)]
          /\ Copy(page)
    /\ recent' = MoveToEnd(recent, req.page)
    /\ UNCHANGED <<maxBytes, dropped>>

\* Mutant of MissNull: a refused read is counted as a read of the source.
MissNullCounted ==
    /\ reading
    /\ req.page \notin DOMAIN pages
    /\ stats' = [stats EXCEPT !.misses = @ + 1, !.sourceReads = @ + 1]
    /\ reading' = FALSE
    /\ answer' = "null"
    /\ UNCHANGED <<maxBytes, pages, order, req, out, written, recent, dropped>>

\* The source cannot serve the read: nothing is kept and the read returns null.
MissNull ==
    /\ reading
    /\ req.page \notin DOMAIN pages
    /\ stats' = [stats EXCEPT !.misses = @ + 1]
    /\ reading' = FALSE
    /\ answer' = "null"
    /\ UNCHANGED <<maxBytes, pages, order, req, out, written, recent, dropped>>

\* clear: every page goes; the counters stay.
Clear ==
    /\ ~reading
    /\ dropped' = dropped + Len(order)
    /\ pages' = [i \in {} |-> 0]
    /\ order' = <<>>
    /\ recent' = <<>>
    /\ UNCHANGED <<maxBytes, stats, reading, req, out, written, answer>>

----------------------------------------------------------------------------

Init ==
    /\ maxBytes \in Ceilings
    /\ pages = [i \in {} |-> 0]
    /\ order = <<>>
    /\ stats = NoStats
    /\ reading = FALSE
    /\ req = NoReq
    /\ out = [k \in {} |-> Unset]
    /\ written = 0
    /\ answer = "none"
    /\ recent = <<>>
    /\ dropped = 0

Next ==
    \/ \E offset \in Offsets, length \in Lengths : Begin(offset, length)
    \/ Hit \/ Miss \/ MissNull \/ Clear

Spec == Init /\ [][Next]_vars

----------------------------------------------------------------------------
(* xRead of the VFS: what SQLite is told of the last answer.  The tail that    *)
(* the answer does not reach is zeroed.                                        *)

\* Mutant of XRead: the length of the request is not compared with the answer.
XReadNoShort == IF answer = "null" THEN "IOERR_READ" ELSE "OK"

XRead ==
    IF answer = "null" THEN "IOERR_READ"
    ELSE IF written < req.length THEN "SHORT_READ" ELSE "OK"

----------------------------------------------------------------------------
(* Properties *)

TypeOK ==
    /\ maxBytes \in Ceilings
    /\ DOMAIN pages \subseteq Nat
    /\ \A i \in DOMAIN pages : pages[i].from \in Nat /\ pages[i].len \in Nat
    /\ Range(order) = DOMAIN pages
    /\ Len(order) = Cardinality(DOMAIN pages)
    /\ reading \in BOOLEAN
    /\ written \in 0..req.wanted
    /\ DOMAIN out = 0..(req.wanted - 1)
    /\ answer \in {"none", "bytes", "null"}

\* A page in the cache holds the bytes of the source it is the page of, all of
\* them that exist (page-cache.ts:64-74).
PagesExact ==
    \A i \in DOMAIN pages :
        /\ pages[i].from = i * PageSize
        /\ pages[i].len = MinOf(PageSize, Size - i * PageSize)

\* A read that returns bytes returns exactly the wanted range of the source, for
\* every alignment to pages and whatever was cached, evicted or refused before
\* (page-cache.ts:94-128).
AnswerExact ==
    answer = "bytes" =>
        /\ written = req.wanted
        /\ \A k \in 0..(req.wanted - 1) : out[k] = req.offset + k

\* SQLite is told OK only of a full read, and SHORT_READ only of one that passes
\* the end of the file: a short read in the middle of it would be read as zeros
\* (vfs.ts:106-118).
XReadHonest ==
    (answer # "none" /\ req.length > 0) =>
        /\ XRead = "OK" => written = req.length
        /\ XRead = "SHORT_READ" => req.offset + req.length > Size

\* The cache keeps under its ceiling unless one page alone is above it
\* (page-cache.ts:76-88, risk R13).
CeilingHeld ==
    CachedBytes(pages) <= maxBytes \/ Cardinality(DOMAIN pages) <= 1

\* What is cached are the pages used last, and what goes first is what was used
\* longest ago (page-cache.ts:36-38, 55-62).
LeastRecentlyUsedGoes ==
    order = SubSeq(recent, Len(recent) - Len(order) + 1, Len(recent))

\* The counters account for the pages: what was read and neither evicted nor
\* cleared is cached
\* (page-cache.ts:39-49, 69-86).
StatsAddUp ==
    /\ stats.sourceReads - stats.evictions - dropped = Len(order)
    /\ stats.sourceReads <= stats.misses

\* What the caller of readSync sees of a read: which one is under way, and the answer.
UnderWay == IF reading THEN {<<req.offset, req.length>>} ELSE {}
Shown ==
    LET length == IF answer = "bytes" THEN written ELSE 0
    IN [kind |-> answer, bytes |-> [k \in 0..(length - 1) |-> out[k]]]

Reads == INSTANCE ByteSource WITH asked <- UnderWay, result <- Shown

\* Behind the cache is a ByteSource like the one it reads from: what is cached, evicted or
\* cleared shows in no answer, and an answer once given stays
\* (source.ts:1-14, page-cache.ts:22-27, 90-128).
ReadsTheSource == Reads!Spec
=============================================================================
