-------------------------- MODULE PageCacheProofs --------------------------
(***************************************************************************)
(* Proofs about PageCache for every size of source, page and ceiling, and  *)
(* every read: a cached page is the page of the source it stands for, so a *)
(* read that returns bytes returns exactly the bytes it was asked for;     *)
(* what is kept are the pages used last, under the ceiling; the counters   *)
(* account for every page; and behind the cache is a ByteSource.           *)
(*                                                                         *)
(* The invariant of the loop (ReadInv) says that the bytes before the      *)
(* current page are copied and right, and that the current page overlaps   *)
(* what is left.  That of the Map (OrderInv) says that its keys, in their  *)
(* order, are the last of the pages ever used: evict cuts it from the      *)
(* front (Evicted), a hit moves a page to the end (HitOrder), a miss       *)
(* appends one (MissOrder).  The counters (CountInv) need both.            *)
(***************************************************************************)
EXTENDS PageCache, SequenceTheorems, FiniteSetTheorems, TLAPS

\* The loop of readSync, before the page req.page is looked up.
ReadInv ==
    reading =>
        /\ req.page <= req.last
        /\ req.page * PageSize < req.offset + req.wanted
        /\ req.offset < req.page * PageSize + PageSize
        /\ req.last = (req.offset + req.wanted - 1) \div PageSize
        /\ written = MaxOf(0, req.page * PageSize - req.offset)
        /\ \A k \in 0..(written - 1) : out[k] = req.offset + k

\* The types the argument needs.
ReadType ==
    /\ req \in [offset: Nat, length: Int, wanted: Nat, page: Nat, last: Int]
    /\ written \in Nat
    /\ reading \in BOOLEAN
    /\ reading => req.offset + req.wanted <= Size /\ req.wanted > 0
    /\ DOMAIN out = 0..(req.wanted - 1)

\* The pages, the loop and the answer.
CacheInv ==
    /\ PagesExact
    /\ ReadType
    /\ ReadInv
    /\ answer \in {"none", "bytes", "null"}
    /\ (answer # "none" => ~reading)
    /\ AnswerExact

----------------------------------------------------------------------------

\* A page starts at or before each of its bytes and ends after it.
LEMMA DivBounds ==
    ASSUME NEW n \in Nat, NEW p \in Nat \ {0}
    PROVE  /\ n \div p \in Nat
           /\ (n \div p) * p <= n
           /\ n < (n \div p) * p + p
  BY Z3

\* A later page starts no earlier than an earlier one ends.
LEMMA PagesApart ==
    ASSUME NEW i \in Nat, NEW j \in Nat, NEW p \in Nat
    PROVE  /\ i * p \in Nat
           /\ (i + 1) * p = i * p + p
           /\ i < j => i * p + p <= j * p
  BY Z3
\* What the source returns for a page that begins inside it is that page.
LEMMA SourcePage ==
    ASSUME NEW i \in Nat, i * PageSize < Size
    PROVE  /\ SourceRead(i * PageSize, PageSize).from = i * PageSize
           /\ SourceRead(i * PageSize, PageSize).len = MinOf(PageSize, Size - i * PageSize)
  BY PageAssumption, PagesApart DEF SourceRead, MinOf

\* The indices below a bound are below a larger one.
LEMMA Below ==
    ASSUME NEW a \in Int, NEW b \in Int, a <= b
    PROVE  \A k \in 0..(a - 1) : k \in 0..(b - 1)
  OBVIOUS

\* How much of a page starting at base is taken for the range from offset to upto,
\* when all before the page is copied, and where in the page it starts.
LEMMA Overlap ==
    ASSUME NEW base \in Nat, NEW p \in Nat \ {0}, NEW size \in Nat,
           NEW offset \in Nat, NEW upto \in Nat,
           upto <= size, base < upto, offset < base + p, offset < upto,
           NEW before, before = MaxOf(0, base - offset),
           NEW skip, skip = MaxOf(0, offset - base),
           NEW take, take = MinOf(MinOf(p, size - base) - skip, (upto - offset) - before)
    PROVE  /\ before \in Nat /\ skip \in Nat
           /\ take \in Nat /\ take > 0
           /\ before + take = MinOf(base + p, upto) - offset
           /\ base + skip - before = offset
  BY Z3 DEF MinOf, MaxOf

\* Copying the right page keeps the loop and the answer right.
LEMMA CopyStep ==
    ASSUME ReadType, ReadInv, reading, answer = "none",
           NEW page,
           page.from = req.page * PageSize,
           page.len = MinOf(PageSize, Size - req.page * PageSize),
           Copy(page)
    PROVE  /\ ReadType' /\ ReadInv' /\ AnswerExact'
           /\ answer' \in {"none", "bytes", "null"}
           /\ (answer' # "none" => ~reading')
<1> DEFINE base == req.page * PageSize
           upto == req.offset + req.wanted
<1>1. /\ base \in Nat /\ upto \in Nat
      /\ req.page \in Nat /\ req.offset \in Nat /\ req.wanted \in Nat
      /\ upto <= Size
      /\ PageSize \in Nat \ {0}
      /\ base < upto
      /\ req.offset < base + PageSize
      /\ written = MaxOf(0, base - req.offset)
  BY PagesApart, PageAssumption DEF ReadType, ReadInv
<1>2. From(page) = MaxOf(0, req.offset - base)
  BY DEF From
<1>3. /\ Take(page) > 0
      /\ Take(page) \in Nat
      /\ written + Take(page) = MinOf(base + PageSize, upto) - req.offset
      /\ page.from + From(page) - written = req.offset
  <2> HIDE DEF base, upto
  <2>1. page.from = base /\ page.len = MinOf(PageSize, Size - base)
    BY DEF base
  <2>2. req.wanted = upto - req.offset
    BY <1>1 DEF upto
  <2>3. Take(page) = MinOf(page.len - From(page), req.wanted - written)
    BY DEF Take
  <2>4. Take(page) = MinOf(MinOf(PageSize, Size - base) - From(page),
                           (upto - req.offset) - written)
    BY <2>1, <2>2, <2>3
  <2>5. req.offset < upto /\ Size \in Nat
    BY <1>1, PageAssumption DEF ReadType, upto
  <2> QED
    BY <1>1, <1>2, <2>1, <2>4, <2>5, Overlap
<1>4. /\ written' = written + Take(page)
      /\ written' \in Nat
      /\ DOMAIN out' = DOMAIN out
      /\ \A k \in 0..(written' - 1) : k \in DOMAIN out => out'[k] = req.offset + k
  <2>1. /\ written' = written + Take(page)
        /\ out' = [k \in DOMAIN out |->
                    IF written <= k /\ k < written + Take(page)
                    THEN page.from + From(page) + (k - written) ELSE out[k]]
    BY <1>3 DEF Copy
  <2>2. written \in Nat /\ page.from \in Int /\ From(page) \in Int
    BY <1>1, <1>2 DEF ReadType, MaxOf
  <2>3. ASSUME NEW k \in 0..(written' - 1), k \in DOMAIN out
        PROVE  out'[k] = req.offset + k
    <3>1. CASE written <= k
      <4>1. Take(page) \in Nat /\ req.offset \in Int /\ k \in Int /\ k < written + Take(page)
        BY <1>1, <1>3, <2>1, <2>2, <2>3
      <4>2. out'[k] = page.from + From(page) + (k - written)
        BY <2>1, <2>3, <3>1, <4>1
      <4> QED
        BY <1>3, <2>2, <4>1, <4>2
    <3>2. CASE k < written
      BY <1>1, <1>3, <2>1, <2>2, <2>3, <3>2 DEF ReadInv
    <3> QED
      BY <2>2, <2>3, <3>1, <3>2
  <2> QED
    BY <1>3, <2>1, <2>2, <2>3
<1>5. DOMAIN out = 0..(req.wanted - 1)
  BY DEF ReadType
<1>6. CASE req.page = req.last
  <2>1. upto <= base + PageSize
    <3>1. upto - 1 \in Nat /\ req.last = (upto - 1) \div PageSize
      BY <1>1 DEF ReadInv
    <3>2. upto - 1 < ((upto - 1) \div PageSize) * PageSize + PageSize
      BY <3>1, DivBounds, PageAssumption
    <3> QED
      BY <1>1, <1>6, <3>1, <3>2
  <2>2. written' = req.wanted
    <3> HIDE DEF base
    <3> QED
      BY <1>1, <1>3, <1>4, <2>1 DEF MinOf
  <2>3. reading' = FALSE /\ answer' = "bytes" /\ req' = req
    BY <1>3, <1>6 DEF Copy
  <2> QED
    BY <1>1, <1>4, <1>5, <2>2, <2>3 DEF ReadType, ReadInv, AnswerExact
<1>7. CASE req.page # req.last
  <2>1. req.page + 1 <= req.last /\ req.last \in Nat
    BY <1>1, <1>7 DEF ReadInv, ReadType
  <2>2. base + PageSize <= upto - 1
    <3>1. upto - 1 \in Nat /\ req.last = (upto - 1) \div PageSize
      BY <1>1 DEF ReadInv
    <3>2. req.last * PageSize <= upto - 1
      BY <3>1, DivBounds, PageAssumption
    <3>3. base + PageSize <= req.last * PageSize /\ req.last * PageSize \in Nat
      BY <1>1, <2>1, PagesApart
    <3> QED
      BY <1>1, <3>1, <3>2, <3>3
  <2>3. written' = (base + PageSize) - req.offset
    <3> HIDE DEF base, upto
    <3> QED
      BY <1>1, <1>3, <1>4, <2>2 DEF MinOf
  <2>4. /\ reading' = reading /\ answer' = answer
        /\ req' = [req EXCEPT !.page = @ + 1]
    <3>1. ~(Take(page) <= 0 \/ req.page = req.last)
      BY <1>3, <1>7
    <3>2. /\ req' = [req EXCEPT !.page = req.page + 1]
          /\ reading' = reading /\ answer' = answer
      BY <3>1, Zenon DEF Copy
    <3> QED
      BY <3>2
  <2>5. /\ req'.page = req.page + 1 /\ req'.offset = req.offset /\ req'.wanted = req.wanted
        /\ req'.last = req.last /\ req'.length = req.length
        /\ req' \in [offset: Nat, length: Int, wanted: Nat, page: Nat, last: Int]
    <3>1. req \in [offset: Nat, length: Int, wanted: Nat, page: Nat, last: Int]
      BY DEF ReadType
    <3>2. req' = [req EXCEPT !.page = req.page + 1]
      BY <2>4
    <3> QED
      BY <3>1, <3>2
  <2>6. req'.page * PageSize = base + PageSize
    BY <1>1, <2>5, PagesApart
  <2>7. written' = MaxOf(0, req'.page * PageSize - req'.offset)
    BY <1>1, <2>3, <2>5, <2>6 DEF MaxOf
  <2>8. ReadType'
    BY <1>4, <1>5, <2>4, <2>5 DEF ReadType
  <2>9. ReadInv'
    <3>1. \A k \in 0..(written' - 1) : out'[k] = req'.offset + k
      <4>1. written' <= req.wanted /\ req.wanted \in Int /\ written' \in Int
        BY <1>1, <1>4, <2>2, <2>3
      <4>2. \A k \in 0..(written' - 1) : k \in 0..(req.wanted - 1)
        BY <4>1, Below
      <4> QED
        BY <1>4, <1>5, <2>5, <4>2
    <3>2. req'.last = (req'.offset + req'.wanted - 1) \div PageSize
      BY <2>5 DEF ReadInv
    <3>3. req'.page * PageSize < req'.offset + req'.wanted
      BY <1>1, <2>2, <2>5, <2>6
    <3>4. req'.offset < req'.page * PageSize + PageSize
      BY <1>1, <2>5, <2>6
    <3>5. req'.page <= req'.last
      BY <2>1, <2>5
    <3> QED
      BY <2>7, <3>1, <3>2, <3>3, <3>4, <3>5 DEF ReadInv
  <2> QED
    BY <2>4, <2>8, <2>9 DEF AnswerExact
<1> QED
  BY <1>6, <1>7

----------------------------------------------------------------------------
(* Sequences without duplicates: the insertion order of a Map. *)

\* A set of numbers that is not empty has a least one.
LEMMA LeastOfSome ==
    ASSUME NEW T, T \subseteq Nat, T # {}
    PROVE  \E k \in T : \A j \in T : k <= j
<1>1. \E k \in T : \A j \in T : ~(<<j, k>> \in OpToRel(<, Nat))
  BY NatLessThanWellFounded, WFMin
<1>2. PICK k \in T : \A j \in T : ~(<<j, k>> \in OpToRel(<, Nat))
  BY <1>1
<1>3. \A j \in T : ~(j < k)
  <2>1. \A j \in T : <<j, k>> \in Nat \X Nat
    OBVIOUS
  <2> QED
    BY <1>2, <2>1 DEF OpToRel
<1> QED
  BY <1>3

\* The last elements of t are s.
Suffix(s, t) ==
    /\ Len(s) <= Len(t)
    /\ \A n \in 1..Len(s) : s[n] = t[Len(t) - Len(s) + n]

\* What SubSeq cuts out of a sequence.
LEMMA Cut ==
    ASSUME NEW S, NEW t \in Seq(S), NEW i \in 1..(Len(t) + 1), NEW j \in (i - 1)..Len(t)
    PROVE  /\ SubSeq(t, i, j) \in Seq(S)
           /\ Len(SubSeq(t, i, j)) = j - i + 1
           /\ \A n \in 1..(j - i + 1) : SubSeq(t, i, j)[n] = t[i + n - 1]
<1>1. Len(t) \in Nat /\ i \in Int /\ j \in Int /\ i >= 1 /\ j <= Len(t) /\ i - 1 <= j
  BY LenProperties
<1>2. \A n \in i..j : t[n] \in S
  BY <1>1, ElementOfSeq
<1>3. /\ SubSeq(t, i, j) \in Seq(S)
      /\ Len(SubSeq(t, i, j)) = IF i <= j THEN j - i + 1 ELSE 0
      /\ \A n \in 1 .. j - i + 1 : SubSeq(t, i, j)[n] = t[i + n - 1]
  BY <1>1, <1>2, SubSeqProperties
<1>4. (IF i <= j THEN j - i + 1 ELSE 0) = j - i + 1
  BY <1>1
<1> QED
  BY <1>3, <1>4

\* Suffix is what SubSeq cuts off.
LEMMA SuffixIsSubSeq ==
    ASSUME NEW S, NEW s \in Seq(S), NEW t \in Seq(S)
    PROVE  /\ Suffix(s, t) => s = SubSeq(t, Len(t) - Len(s) + 1, Len(t))
           /\ \A k \in 0..Len(t) : /\ SubSeq(t, k + 1, Len(t)) \in Seq(S)
                                   /\ Len(SubSeq(t, k + 1, Len(t))) = Len(t) - k
                                   /\ Suffix(SubSeq(t, k + 1, Len(t)), t)
<1>1. Len(s) \in Nat /\ Len(t) \in Nat /\ DOMAIN s = 1..Len(s) /\ DOMAIN t = 1..Len(t)
  BY LenProperties
<1>2. ASSUME NEW k \in 0..Len(t)
      PROVE  /\ SubSeq(t, k + 1, Len(t)) \in Seq(S)
             /\ Len(SubSeq(t, k + 1, Len(t))) = Len(t) - k
             /\ \A n \in 1..(Len(t) - k) : SubSeq(t, k + 1, Len(t))[n] = t[k + n]
  <2> DEFINE cut == SubSeq(t, k + 1, Len(t))
  <2>1. k + 1 \in 1..(Len(t) + 1) /\ Len(t) \in (k + 1 - 1)..Len(t)
    BY <1>1
  <2>2. /\ cut \in Seq(S) /\ Len(cut) = Len(t) - (k + 1) + 1
        /\ \A n \in 1..(Len(t) - (k + 1) + 1) : cut[n] = t[k + 1 + n - 1]
    BY <2>1, Cut
  <2> HIDE DEF cut
  <2>3. /\ cut \in Seq(S) /\ Len(cut) = Len(t) - k
        /\ \A n \in 1..(Len(t) - k) : cut[n] = t[k + n]
    <3>1. Len(t) - (k + 1) + 1 = Len(t) - k
      BY <1>1
    <3>2. \A n \in 1..(Len(t) - k) : k + 1 + n - 1 = k + n
      BY <1>1
    <3> QED
      BY <2>2, <3>1, <3>2
  <2> QED
    BY <2>3 DEF cut
<1>3. ASSUME Suffix(s, t)
      PROVE  s = SubSeq(t, Len(t) - Len(s) + 1, Len(t))
  <2> DEFINE k == Len(t) - Len(s)
             cut == SubSeq(t, k + 1, Len(t))
  <2>1. k \in 0..Len(t)
    BY <1>1, <1>3 DEF Suffix
  <2>2. /\ cut \in Seq(S) /\ Len(cut) = Len(t) - k
        /\ \A n \in 1..(Len(t) - k) : cut[n] = t[k + n]
    BY <1>2, <2>1
  <2>3. Len(cut) = Len(s) /\ \A n \in 1..Len(s) : s[n] = cut[n]
    <3> HIDE DEF cut
    <3> QED
      BY <1>1, <1>3, <2>2 DEF Suffix
  <2> HIDE DEF cut
  <2>4. s = cut
    BY <2>2, <2>3, SeqEqual
  <2> QED
    BY <2>4 DEF cut
<1>4. ASSUME NEW k \in 0..Len(t)
      PROVE  Suffix(SubSeq(t, k + 1, Len(t)), t)
  <2> DEFINE cut == SubSeq(t, k + 1, Len(t))
  <2>1. Len(cut) = Len(t) - k /\ \A n \in 1..(Len(t) - k) : cut[n] = t[k + n]
    BY <1>2
  <2> HIDE DEF cut
  <2>2. Suffix(cut, t)
    BY <1>1, <2>1 DEF Suffix
  <2> QED
    BY <2>2 DEF cut
<1> QED
  BY <1>2, <1>3, <1>4

\* A suffix of a suffix is one, and holds nothing that the whole does not hold.
LEMMA SuffixTransitive ==
    ASSUME NEW S, NEW r \in Seq(S), NEW s \in Seq(S), NEW t \in Seq(S),
           Suffix(r, s), Suffix(s, t)
    PROVE  Suffix(r, t)
<1>1. Len(r) \in Nat /\ Len(s) \in Nat /\ Len(t) \in Nat
  BY LenProperties
<1> QED
  BY <1>1 DEF Suffix

LEMMA SuffixElements ==
    ASSUME NEW S, NEW s \in Seq(S), NEW t \in Seq(S), Suffix(s, t)
    PROVE  /\ Range(s) \subseteq Range(t)
           /\ IsInjective(t) => IsInjective(s)
<1>1. Len(s) \in Nat /\ Len(t) \in Nat /\ DOMAIN s = 1..Len(s) /\ DOMAIN t = 1..Len(t)
  BY LenProperties
<1>2. \A n \in DOMAIN s : Len(t) - Len(s) + n \in DOMAIN t /\ s[n] = t[Len(t) - Len(s) + n]
  BY <1>1 DEF Suffix
<1>3. Range(s) \subseteq Range(t)
  BY <1>2 DEF Range
<1>4. ASSUME IsInjective(t), NEW a \in DOMAIN s, NEW b \in DOMAIN s, s[a] = s[b]
      PROVE  a = b
  <2>1. Len(t) - Len(s) + a = Len(t) - Len(s) + b
    BY <1>2, <1>4 DEF IsInjective
  <2> QED
    BY <1>1, <2>1
<1> QED
  BY <1>3, <1>4 DEF IsInjective

\* As many elements as places.
LEMMA InjectiveLength ==
    ASSUME NEW S, NEW s \in Seq(S), IsInjective(s)
    PROVE  Cardinality(Range(s)) = Len(s)
<1>1. Len(s) \in Nat /\ DOMAIN s = 1..Len(s) /\ s \in [1..Len(s) -> S]
  BY LenProperties
<1>2. s \in [1..Len(s) -> Range(s)]
  BY <1>1 DEF Range
<1>3. s \in Bijection(1..Len(s), Range(s))
  BY <1>1, <1>2 DEF Bijection, Injection, Surjection, Range
<1>4. ExistsBijection(1..Len(s), Range(s))
  BY <1>3 DEF ExistsBijection
<1> QED
  BY <1>1, <1>4, FS_CountingElements

\* Map.delete takes one key out and leaves the order of the others.
LEMMA RemoveFirstAt ==
    ASSUME NEW S, NEW s \in Seq(S), IsInjective(s), NEW i \in 1..Len(s)
    PROVE  /\ RemoveFirst(s, s[i]) \in Seq(S)
           /\ Len(RemoveFirst(s, s[i])) = Len(s) - 1
           /\ \A n \in 1..(Len(s) - 1) :
                RemoveFirst(s, s[i])[n] = IF n < i THEN s[n] ELSE s[n + 1]
<1>1. Len(s) \in Nat /\ DOMAIN s = 1..Len(s) /\ i \in Nat /\ \A n \in 1..Len(s) : s[n] \in S
  BY LenProperties, ElementOfSeq
<1>2. {j \in 1..Len(s) : s[j] = s[i]} = {i}
  BY <1>1 DEF IsInjective
<1>3. Min({i}) = i
  BY <1>1 DEF Min
<1>4. RemoveFirst(s, s[i]) = SubSeq(s, 1, i - 1) \o SubSeq(s, i + 1, Len(s))
  <2>1. SelectInSeq(s, LAMBDA v : v = s[i]) = i
    BY <1>2, <1>3 DEF SelectInSeq
  <2> QED
    BY <2>1 DEF RemoveFirst, RemoveAt
<1> DEFINE a == SubSeq(s, 1, i - 1)
           b == SubSeq(s, i + 1, Len(s))
<1>5. a \in Seq(S) /\ Len(a) = i - 1 /\ \A n \in 1..(i - 1) : a[n] = s[n]
  <2>1. 1 \in 1..(Len(s) + 1) /\ i - 1 \in (1 - 1)..Len(s)
    BY <1>1
  <2>2. /\ a \in Seq(S) /\ Len(a) = (i - 1) - 1 + 1
        /\ \A n \in 1..((i - 1) - 1 + 1) : a[n] = s[1 + n - 1]
    BY <2>1, Cut
  <2> HIDE DEF a
  <2> QED
    BY <1>1, <2>2
<1>6. b \in Seq(S) /\ Len(b) = Len(s) - i /\ \A n \in 1..(Len(s) - i) : b[n] = s[i + n]
  <2>1. i + 1 \in 1..(Len(s) + 1) /\ Len(s) \in (i + 1 - 1)..Len(s)
    BY <1>1
  <2>2. /\ b \in Seq(S) /\ Len(b) = Len(s) - (i + 1) + 1
        /\ \A n \in 1..(Len(s) - (i + 1) + 1) : b[n] = s[i + 1 + n - 1]
    BY <2>1, Cut
  <2> HIDE DEF b
  <2>3. Len(s) - (i + 1) + 1 = Len(s) - i
    BY <1>1
  <2>4. \A n \in 1..(Len(s) - i) : i + 1 + n - 1 = i + n
    BY <1>1
  <2> QED
    BY <2>2, <2>3, <2>4
<1> HIDE DEF a, b
<1>7. /\ a \o b \in Seq(S)
      /\ Len(a \o b) = Len(a) + Len(b)
      /\ \A n \in 1 .. Len(a) + Len(b) :
            (a \o b)[n] = IF n <= Len(a) THEN a[n] ELSE b[n - Len(a)]
  BY <1>5, <1>6, ConcatProperties
<1>8. RemoveFirst(s, s[i]) = a \o b
  BY <1>4 DEF a, b
<1>9. ASSUME NEW n \in 1..(Len(s) - 1)
      PROVE  (a \o b)[n] = IF n < i THEN s[n] ELSE s[n + 1]
  <2>1. CASE n < i
    BY <1>1, <1>5, <1>6, <1>7, <2>1
  <2>2. CASE ~(n < i)
    <3>1. n - Len(a) \in 1..(Len(s) - i) /\ i + (n - Len(a)) = n + 1
      BY <1>1, <1>5, <2>2
    <3>2. (a \o b)[n] = b[n - Len(a)]
      BY <1>1, <1>5, <1>6, <1>7, <2>2
    <3> QED
      BY <1>6, <2>2, <3>1, <3>2
  <2> QED
    BY <2>1, <2>2
<1>10. a \o b \in Seq(S) /\ Len(a \o b) = Len(s) - 1
  BY <1>1, <1>5, <1>6, <1>7
<1> QED
  BY <1>8, <1>9, <1>10

LEMMA RemoveFirstNone ==
    ASSUME NEW S, NEW s \in Seq(S), NEW x, x \notin Range(s)
    PROVE  RemoveFirst(s, x) = s
<1>1. DOMAIN s = 1..Len(s)
  BY LenProperties
<1> QED
  BY <1>1 DEF RemoveFirst, Range

\* Map.delete, then Map.set: the same keys and the new one, each once, the new one last.
LEMMA Moved ==
    ASSUME NEW S, NEW s \in Seq(S), IsInjective(s), NEW x \in S
    PROVE  /\ MoveToEnd(s, x) \in Seq(S)
           /\ IsInjective(MoveToEnd(s, x))
           /\ Range(MoveToEnd(s, x)) = Range(s) \cup {x}
           /\ Len(MoveToEnd(s, x)) = IF x \in Range(s) THEN Len(s) ELSE Len(s) + 1
<1> DEFINE r == RemoveFirst(s, x)
           m == Append(r, x)
<1>1. Len(s) \in Nat /\ DOMAIN s = 1..Len(s)
  BY LenProperties
<1>2. CASE x \notin Range(s)
  <2>1. r = s
    BY <1>2, RemoveFirstNone
  <2>2. /\ m \in Seq(S) /\ Len(m) = Len(s) + 1 /\ DOMAIN m = 1..(Len(s) + 1)
        /\ \A n \in 1..Len(s) : m[n] = s[n]
        /\ m[Len(s) + 1] = x
    BY <2>1, AppendProperties, LenProperties
  <2> HIDE DEF m
  <2>3. \A n \in 1..(Len(s) + 1) : n \in 1..Len(s) \/ n = Len(s) + 1
    BY <1>1
  <2>4. Range(m) = Range(s) \cup {x}
    <3>1. \A n \in 1..Len(s) : n \in 1..(Len(s) + 1)
      BY <1>1
    <3>2. Len(s) + 1 \in 1..(Len(s) + 1)
      BY <1>1
    <3> QED
      BY <1>1, <2>2, <2>3, <3>1, <3>2 DEF Range
  <2>5. IsInjective(m)
    <3>1. \A n \in 1..Len(s) : s[n] # x
      BY <1>1, <1>2 DEF Range
    <3> QED
      BY <1>1, <2>2, <2>3, <3>1 DEF IsInjective
  <2> QED
    BY <1>2, <2>2, <2>4, <2>5 DEF m, MoveToEnd
<1>3. CASE x \in Range(s)
  <2>1. PICK i \in 1..Len(s) : s[i] = x
    BY <1>1, <1>3 DEF Range
  <2>2. /\ r \in Seq(S) /\ Len(r) = Len(s) - 1
        /\ \A n \in 1..(Len(s) - 1) : r[n] = IF n < i THEN s[n] ELSE s[n + 1]
    BY <2>1, RemoveFirstAt
  <2> HIDE DEF r
  <2>3. /\ m \in Seq(S) /\ Len(m) = Len(s) /\ DOMAIN m = 1..Len(s)
        /\ \A n \in 1..(Len(s) - 1) : m[n] = r[n]
        /\ m[Len(s)] = x
    <3>1. /\ m \in Seq(S) /\ Len(m) = Len(r) + 1 /\ DOMAIN m = 1..Len(m)
          /\ \A n \in 1..Len(r) : m[n] = r[n]
          /\ m[Len(r) + 1] = x
      BY <2>2, AppendProperties, LenProperties
    <3>2. Len(r) + 1 = Len(s)
      BY <1>1, <2>2
    <3> QED
      BY <2>2, <3>1, <3>2
  <2> HIDE DEF m
  <2>4. ASSUME NEW n \in 1..Len(s)
        PROVE  \/ n = Len(s) /\ m[n] = s[i]
               \/ n < Len(s) /\ n < i /\ m[n] = s[n]
               \/ n < Len(s) /\ n >= i /\ n + 1 \in 1..Len(s) /\ m[n] = s[n + 1]
    <3>1. CASE n = Len(s)
      BY <2>1, <2>3, <3>1
    <3>2. CASE n < Len(s)
      <4>1. n \in 1..(Len(s) - 1) /\ n + 1 \in 1..Len(s)
        BY <1>1, <3>2
      <4>2. m[n] = IF n < i THEN s[n] ELSE s[n + 1]
        BY <2>2, <2>3, <4>1
      <4> QED
        BY <2>1, <3>2, <4>1, <4>2
    <3>3. n = Len(s) \/ n < Len(s)
      <4>1. \A k \in Nat : \A j \in 1..k : j = k \/ j < k
        OBVIOUS
      <4> QED
        BY <1>1, <4>1
    <3> QED
      BY <3>1, <3>2, <3>3, Zenon
  <2>5. ASSUME NEW n \in 1..Len(s)
        PROVE  s[n] \in Range(m)
    <3>1. CASE n = i
      BY <1>1, <2>1, <2>3, <3>1 DEF Range
    <3>2. CASE n < i
      <4>1. m[n] = s[n]
        BY <2>1, <2>4, <3>2
      <4> QED
        BY <2>3, <4>1 DEF Range
    <3>3. CASE n > i
      <4>1. n - 1 \in 1..Len(s) /\ n - 1 < Len(s) /\ n - 1 >= i /\ (n - 1) + 1 = n
        BY <1>1, <2>1, <3>3
      <4>2. m[n - 1] = s[n]
        BY <2>1, <2>4, <4>1
      <4> QED
        BY <2>3, <4>1, <4>2 DEF Range
    <3> QED
      BY <2>1, <3>1, <3>2, <3>3
  <2>6. \A n \in 1..Len(s) : m[n] \in Range(s)
    BY <1>1, <2>1, <2>4 DEF Range
  <2>7. Range(m) = Range(s)
    BY <1>1, <2>3, <2>5, <2>6 DEF Range
  <2>9. ASSUME NEW a \in 1..Len(s), NEW b \in 1..Len(s), m[a] = m[b]
        PROVE  a = b
    <3>1. \A p, q \in 1..Len(s) : s[p] = s[q] => p = q
      BY <1>1 DEF IsInjective
    <3> QED
      BY <2>1, <2>4, <2>9, <3>1
  <2>10. IsInjective(m)
    BY <2>3, <2>9 DEF IsInjective
  <2> QED
    BY <1>3, <2>3, <2>7, <2>10 DEF m, r, MoveToEnd
<1> QED
  BY <1>2, <1>3

\* Two keys at the end stay in step when the same key moves in both.
LEMMA SuffixMoved ==
    ASSUME NEW S, NEW s \in Seq(S), NEW t \in Seq(S), NEW x \in S,
           IsInjective(t), Suffix(s, t)
    PROVE  Suffix(MoveToEnd(s, x), MoveToEnd(t, x))
<1>1. /\ Len(s) \in Nat /\ DOMAIN s = 1..Len(s)
      /\ Len(t) \in Nat /\ DOMAIN t = 1..Len(t)
      /\ Len(s) <= Len(t)
  BY LenProperties DEF Suffix
<1>2. IsInjective(s) /\ Range(s) \subseteq Range(t)
  BY SuffixElements
<1> DEFINE d == Len(t) - Len(s)
           rs == RemoveFirst(s, x)
           rt == RemoveFirst(t, x)
<1>3. \A n \in 1..Len(s) : d + n \in 1..Len(t) /\ s[n] = t[d + n]
  BY <1>1 DEF Suffix
<1>4. rs \in Seq(S) /\ rt \in Seq(S) /\ Suffix(rs, rt)
  <2>1. CASE x \in Range(s)
    <3>1. PICK i \in 1..Len(s) : s[i] = x
      BY <1>1, <2>1 DEF Range
    <3>2. /\ rs \in Seq(S) /\ Len(rs) = Len(s) - 1
          /\ \A n \in 1..(Len(s) - 1) : rs[n] = IF n < i THEN s[n] ELSE s[n + 1]
      BY <1>2, <3>1, RemoveFirstAt
    <3>3. d + i \in 1..Len(t) /\ t[d + i] = x
      BY <1>3, <3>1
    <3>4. /\ rt \in Seq(S) /\ Len(rt) = Len(t) - 1
          /\ \A n \in 1..(Len(t) - 1) : rt[n] = IF n < d + i THEN t[n] ELSE t[n + 1]
      BY <3>3, RemoveFirstAt
    <3> HIDE DEF rs, rt
    <3>5. ASSUME NEW n \in 1..(Len(s) - 1)
          PROVE  rs[n] = rt[d + n]
      <4>1. /\ d + n \in 1..(Len(t) - 1) /\ (d + n < d + i <=> n < i)
            /\ n \in 1..Len(s) /\ n + 1 \in 1..Len(s) /\ (d + n) + 1 = d + (n + 1)
        BY <1>1, <3>1
      <4>2. rt[d + n] = IF n < i THEN t[d + n] ELSE t[d + (n + 1)]
        BY <3>4, <4>1
      <4> HIDE DEF d
      <4> QED
        BY <1>3, <3>2, <4>1, <4>2
    <3>6. Len(rt) - Len(rs) = d
      BY <1>1, <3>2, <3>4
    <3> QED
      BY <1>1, <3>2, <3>4, <3>5, <3>6 DEF Suffix
  <2>2. CASE x \in Range(t) \ Range(s)
    <3>1. PICK j \in 1..Len(t) : t[j] = x
      BY <1>1, <2>2 DEF Range
    <3>2. rs = s
      BY <2>2, RemoveFirstNone
    <3>3. /\ rt \in Seq(S) /\ Len(rt) = Len(t) - 1
          /\ \A n \in 1..(Len(t) - 1) : rt[n] = IF n < j THEN t[n] ELSE t[n + 1]
      BY <3>1, RemoveFirstAt
    <3>4. j <= d
      <4>1. ASSUME j > d PROVE FALSE
        <5>1. j - d \in 1..Len(s) /\ d + (j - d) = j
          BY <1>1, <3>1, <4>1
        <5>2. s[j - d] = x
          BY <1>3, <3>1, <5>1
        <5> QED
          BY <1>1, <2>2, <5>1, <5>2 DEF Range
      <4> QED
        BY <1>1, <3>1, <4>1
    <3> HIDE DEF rs, rt
    <3>5. ASSUME NEW n \in 1..Len(s)
          PROVE  rs[n] = rt[(Len(rt) - Len(rs)) + n]
      <4>1. /\ (Len(rt) - Len(rs)) + n \in 1..(Len(t) - 1)
            /\ ~((Len(rt) - Len(rs)) + n < j)
            /\ (Len(rt) - Len(rs)) + n + 1 = d + n
        BY <1>1, <3>1, <3>2, <3>3, <3>4
      <4> HIDE DEF d
      <4> QED
        BY <1>3, <3>2, <3>3, <4>1
    <3>6. Len(rs) <= Len(rt)
      BY <1>1, <3>1, <3>2, <3>3, <3>4
    <3> QED
      BY <3>2, <3>3, <3>5, <3>6 DEF Suffix
  <2>3. CASE x \notin Range(t)
    BY <1>2, <2>3, RemoveFirstNone
  <2> QED
    BY <2>1, <2>2, <2>3
<1> HIDE DEF rs, rt, d
<1>5. /\ Len(rs) \in Nat /\ Len(rt) \in Nat
      /\ Len(Append(rs, x)) = Len(rs) + 1 /\ Len(Append(rt, x)) = Len(rt) + 1
      /\ \A n \in 1..Len(rs) : Append(rs, x)[n] = rs[n]
      /\ \A n \in 1..Len(rt) : Append(rt, x)[n] = rt[n]
      /\ Append(rs, x)[Len(rs) + 1] = x /\ Append(rt, x)[Len(rt) + 1] = x
  BY <1>4, AppendProperties, LenProperties
<1>6. ASSUME NEW n \in 1..(Len(rs) + 1)
      PROVE  Append(rs, x)[n] = Append(rt, x)[(Len(rt) + 1) - (Len(rs) + 1) + n]
  <2>1. (Len(rt) + 1) - (Len(rs) + 1) + n = Len(rt) - Len(rs) + n
    BY <1>5
  <2>2. CASE n \in 1..Len(rs)
    <3>1. Len(rt) - Len(rs) + n \in 1..Len(rt)
      BY <1>4, <1>5, <2>2 DEF Suffix
    <3> QED
      BY <1>4, <1>5, <2>1, <2>2, <3>1 DEF Suffix
  <2>3. CASE n = Len(rs) + 1
    <3>1. (Len(rt) + 1) - (Len(rs) + 1) + n = Len(rt) + 1
      BY <1>5, <2>3
    <3> QED
      BY <1>5, <2>3, <3>1
  <2>4. n \in 1..Len(rs) \/ n = Len(rs) + 1
    BY <1>5
  <2> QED
    BY <2>2, <2>3, <2>4
<1>7. Suffix(Append(rs, x), Append(rt, x))
  <2>1. Len(Append(rs, x)) <= Len(Append(rt, x))
    BY <1>4, <1>5 DEF Suffix
  <2> QED
    BY <1>5, <1>6, <2>1 DEF Suffix
<1> QED
  BY <1>7 DEF rs, rt, MoveToEnd

----------------------------------------------------------------------------
(* The order of the pages in the cache. *)

\* The keys of the Map, and that they are the last of the pages ever used.
OrderInv ==
    /\ order \in Seq(Nat)
    /\ recent \in Seq(Nat)
    /\ IsInjective(recent)
    /\ Suffix(order, recent)
    /\ Range(order) = DOMAIN pages
    /\ \A i \in DOMAIN pages : i * PageSize < Size
    /\ CeilingHeld

\* evict leaves the newest pages, at least one, and no more than fit unless it is one.
LEMMA Evicted ==
    ASSUME NEW S, NEW seq \in Seq(S), NEW map, Len(seq) > 0
    PROVE  /\ Surviving(seq, map) \in Seq(S)
           /\ Suffix(Surviving(seq, map), seq)
           /\ Len(Surviving(seq, map)) \in 1..Len(seq)
           /\ \/ Len(Surviving(seq, map)) = 1
              \/ CachedBytes(Restrict(map, Range(Surviving(seq, map)))) <= maxBytes
<1> DEFINE Rest(k) == SubSeq(seq, k + 1, Len(seq))
           Fits(k) == k >= Len(seq) - 1
                        \/ CachedBytes(Restrict(map, Range(Rest(k)))) <= maxBytes
           fitting == {k \in 0..Len(seq) : Fits(k)}
           least == Min(fitting)
<1>1. Len(seq) \in Nat
  BY LenProperties
<1>2. Len(seq) - 1 \in fitting /\ fitting \subseteq Nat
  BY <1>1
<1>3. least \in fitting /\ \A k \in fitting : least <= k
  <2> HIDE DEF fitting
  <2>1. \E k \in fitting : \A j \in fitting : k <= j
    BY <1>2, LeastOfSome
  <2> QED
    BY <2>1 DEF Min
<1>4. least \in 0..(Len(seq) - 1) /\ least \in 0..Len(seq) /\ Fits(least)
  <2>1. least <= Len(seq) - 1
    BY <1>2, <1>3
  <2>2. least \in 0..Len(seq) /\ Fits(least)
    BY <1>3
  <2> HIDE DEF least, Fits
  <2> QED
    BY <1>1, <2>1, <2>2
<1>5. Surviving(seq, map) = Rest(least)
  BY DEF Surviving
<1> HIDE DEF least
<1>6. /\ Rest(least) \in Seq(S) /\ Len(Rest(least)) = Len(seq) - least
      /\ Suffix(Rest(least), seq)
  BY <1>4, SuffixIsSubSeq
<1>7. Len(Rest(least)) \in 1..Len(seq)
  BY <1>1, <1>4, <1>6
<1>8. CASE least >= Len(seq) - 1
  <2>1. Len(seq) - least = 1
    <3>1. least \in 0..(Len(seq) - 1)
      BY <1>4
    <3> QED
      BY <1>1, <1>8, <3>1
  <2>2. Len(Rest(least)) = 1
    BY <1>6, <2>1
  <2> QED
    BY <1>5, <1>6, <1>7, <2>2
<1>9. CASE CachedBytes(Restrict(map, Range(Rest(least)))) <= maxBytes
  BY <1>5, <1>6, <1>7, <1>9
<1> QED
  BY <1>4, <1>8, <1>9

\* A page found in the cache becomes the newest.
LEMMA HitOrder ==
    ASSUME OrderInv, req.page \in Nat, Hit
    PROVE  OrderInv' /\ Len(order') = Len(order)
<1>1. /\ pages' = pages /\ maxBytes' = maxBytes
      /\ order' = MoveToEnd(order, req.page) /\ recent' = MoveToEnd(recent, req.page)
      /\ req.page \in Range(order)
  BY DEF Hit, OrderInv
<1>2. IsInjective(order)
  BY SuffixElements DEF OrderInv
<1>3. /\ order' \in Seq(Nat) /\ Range(order') = Range(order) /\ Len(order') = Len(order)
      /\ recent' \in Seq(Nat) /\ IsInjective(recent')
  <2>1. order \in Seq(Nat) /\ recent \in Seq(Nat) /\ IsInjective(recent)
    BY DEF OrderInv
  <2>2. /\ MoveToEnd(order, req.page) \in Seq(Nat)
        /\ Range(MoveToEnd(order, req.page)) = Range(order) \cup {req.page}
        /\ Len(MoveToEnd(order, req.page)) = Len(order)
    BY <1>1, <1>2, <2>1, Moved
  <2>3. MoveToEnd(recent, req.page) \in Seq(Nat) /\ IsInjective(MoveToEnd(recent, req.page))
    BY <2>1, Moved
  <2> QED
    BY <1>1, <2>2, <2>3
<1>4. Suffix(order', recent')
  BY <1>1, SuffixMoved DEF OrderInv
<1>5. CeilingHeld'
  BY <1>1 DEF OrderInv, CeilingHeld
<1> QED
  BY <1>1, <1>3, <1>4, <1>5 DEF OrderInv

\* A page that is loaded becomes the newest, and the oldest go until the rest fits.
LEMMA MissOrder ==
    ASSUME OrderInv, req.page \in Nat, req.page * PageSize < Size, Miss
    PROVE  /\ OrderInv'
           /\ \A i \in DOMAIN pages' : i \in DOMAIN pages \cup {req.page}
           /\ Len(order') \in 1..(Len(order) + 1)
           /\ stats' = [stats EXCEPT !.misses = @ + 1, !.sourceReads = @ + 1,
                                     !.evictions = @ + (Len(order) + 1) - Len(order')]
<1> DEFINE page == SourceRead(req.page * PageSize, PageSize)
           map == [i \in DOMAIN pages \cup {req.page} |->
                      IF i = req.page THEN page ELSE pages[i]]
           seq == Append(order, req.page)
           kept == Surviving(seq, map)
<1>1. /\ order' = kept /\ pages' = Restrict(map, Range(kept)) /\ maxBytes' = maxBytes
      /\ recent' = MoveToEnd(recent, req.page)
      /\ req.page \notin Range(order)
      /\ stats' = [stats EXCEPT !.misses = @ + 1, !.sourceReads = @ + 1,
                                !.evictions = @ + Len(seq) - Len(kept)]
  BY DEF Miss, OrderInv
<1>2. seq = MoveToEnd(order, req.page)
  BY <1>1, RemoveFirstNone DEF MoveToEnd, OrderInv
<1>3. IsInjective(order)
  BY SuffixElements DEF OrderInv
<1>4. /\ seq \in Seq(Nat) /\ IsInjective(seq) /\ Range(seq) = Range(order) \cup {req.page}
      /\ Len(seq) = Len(order) + 1
  <2>1. order \in Seq(Nat) /\ req.page \notin Range(order)
    BY <1>1 DEF OrderInv
  <2>2. /\ MoveToEnd(order, req.page) \in Seq(Nat)
        /\ IsInjective(MoveToEnd(order, req.page))
        /\ Range(MoveToEnd(order, req.page)) = Range(order) \cup {req.page}
        /\ Len(MoveToEnd(order, req.page)) = IF req.page \in Range(order)
                                               THEN Len(order) ELSE Len(order) + 1
    BY <1>3, <2>1, Moved, Zenon
  <2> QED
    BY <1>2, <2>1, <2>2, Zenon
<1>5. /\ recent' \in Seq(Nat) /\ IsInjective(recent') /\ Suffix(seq, recent')
  BY <1>1, <1>2, Moved, SuffixMoved DEF OrderInv
<1>6. Len(order) \in Nat /\ Len(seq) > 0
  <2>1. Len(order) \in Nat
    BY LenProperties DEF OrderInv
  <2> QED
    BY <1>4, <2>1
<1> HIDE DEF map, seq
<1>7. /\ kept \in Seq(Nat) /\ Suffix(kept, seq) /\ Len(kept) \in 1..Len(seq)
      /\ Len(kept) = 1 \/ CachedBytes(Restrict(map, Range(kept))) <= maxBytes
  BY <1>4, <1>6, Evicted
<1> HIDE DEF kept
<1>8. Suffix(kept, recent')
  BY <1>4, <1>5, <1>7, SuffixTransitive
<1>9. IsInjective(kept) /\ Range(kept) \subseteq Range(seq)
  BY <1>4, <1>7, SuffixElements
<1>10. DOMAIN pages' = Range(kept)
  BY <1>1 DEF Restrict
<1>11. CeilingHeld'
  <2>1. Cardinality(Range(kept)) = Len(kept)
    BY <1>7, <1>9, InjectiveLength
  <2>2. CASE Len(kept) = 1
    BY <1>10, <2>1, <2>2 DEF CeilingHeld
  <2>3. CASE CachedBytes(Restrict(map, Range(kept))) <= maxBytes
    <3>1. CachedBytes(pages') <= maxBytes'
      BY <1>1, <2>3
    <3> QED
      BY <3>1 DEF CeilingHeld, CachedBytes
  <2> QED
    BY <1>7, <2>2, <2>3
<1>12. \A i \in DOMAIN pages' : i \in DOMAIN pages \cup {req.page}
  BY <1>4, <1>9, <1>10 DEF OrderInv
<1>13. \A i \in DOMAIN pages' : i * PageSize < Size
  BY <1>12 DEF OrderInv
<1>14. OrderInv'
  BY <1>1, <1>5, <1>7, <1>8, <1>10, <1>11, <1>13 DEF OrderInv
<1>15. stats' = [stats EXCEPT !.misses = @ + 1, !.sourceReads = @ + 1,
                              !.evictions = @ + (Len(order) + 1) - Len(order')]
  BY <1>1, <1>4
<1>16. Len(order') \in 1..(Len(order) + 1)
  BY <1>1, <1>4, <1>7
<1> QED
  BY <1>12, <1>14, <1>15, <1>16

\* What is left alone stays in order, and a cleared cache has none.
LEMMA QuietOrder ==
    ASSUME OrderInv,
           \/ MissNull \/ Clear \/ UNCHANGED vars
           \/ \E offset \in Offsets, length \in Lengths : Begin(offset, length)
    PROVE  OrderInv'
<1>1. CASE Clear
  <2>1. /\ order' = <<>> /\ recent' = <<>> /\ pages' = [i \in {} |-> 0]
        /\ maxBytes' = maxBytes
    BY <1>1 DEF Clear
  <2>2. DOMAIN pages' = {} /\ Range(order') = {} /\ Len(order') = 0 /\ Len(recent') = 0
    BY <2>1 DEF Range
  <2>3. CeilingHeld'
    BY <2>2, FS_EmptySet DEF CeilingHeld
  <2> QED
    BY <2>1, <2>2, <2>3 DEF OrderInv, Suffix, IsInjective
<1>2. CASE ~Clear
  <2>1. UNCHANGED <<order, recent, pages, maxBytes>>
    BY <1>2 DEF MissNull, Begin, vars
  <2> QED
    BY <2>1 DEF OrderInv, CeilingHeld
<1> QED
  BY <1>1, <1>2

----------------------------------------------------------------------------

\* readSync begins with nothing copied and the page its offset lies in.
LEMMA BeginStep ==
    ASSUME CacheInv, NEW offset \in Offsets, NEW length \in Lengths, Begin(offset, length)
    PROVE  CacheInv'
<1>1. offset \in Nat /\ length \in Int /\ Size \in Nat /\ PageSize \in Nat \ {0}
  BY PageAssumption
<1>2. PagesExact'
  BY DEF CacheInv, PagesExact, Begin
<1>3. CASE length <= 0 \/ offset >= Size
  <2>1. /\ answer' = "bytes" /\ reading' = reading /\ written' = 0 /\ ~reading
        /\ req' = [NoReq EXCEPT !.offset = offset, !.length = length]
        /\ out' = [k \in {} |-> Unset]
    BY <1>3 DEF Begin
  <2>2. req' = [offset |-> offset, length |-> length, wanted |-> 0, page |-> 0, last |-> 0]
    BY <2>1 DEF NoReq
  <2>3. 0..(0 - 1) = {} /\ DOMAIN out' = {}
    BY <2>1
  <2>4. req'.wanted = 0
    BY <2>2
  <2>5. ReadType'
    <3>1. DOMAIN out' = 0..(req'.wanted - 1)
      BY <2>3, <2>4
    <3>2. req' \in [offset: Nat, length: Int, wanted: Nat, page: Nat, last: Int]
      BY <1>1, <2>2
    <3>3. reading' = FALSE
      BY <2>1 DEF CacheInv, ReadType
    <3> QED
      BY <2>1, <3>1, <3>2, <3>3 DEF ReadType
  <2> QED
    BY <1>2, <2>1, <2>3, <2>4, <2>5 DEF CacheInv, ReadInv, AnswerExact
<1>4. CASE ~(length <= 0 \/ offset >= Size)
  <2> DEFINE wanted == MinOf(length, Size - offset)
             first == offset \div PageSize
             final == (offset + wanted - 1) \div PageSize
  <2>1. wanted \in Nat /\ wanted > 0 /\ offset + wanted <= Size /\ offset + wanted - 1 \in Nat
    BY <1>1, <1>4 DEF MinOf
  <2>2. /\ first \in Nat /\ first * PageSize <= offset
        /\ offset < first * PageSize + PageSize
    BY <1>1, DivBounds
  <2>3. /\ final \in Nat /\ final * PageSize <= offset + wanted - 1
        /\ offset + wanted - 1 < final * PageSize + PageSize
    <3> HIDE DEF wanted
    <3> QED
      BY <1>1, <2>1, DivBounds
  <2>4. first <= final
    <3>1. final * PageSize \in Nat /\ first * PageSize \in Nat
      BY <1>1, <2>2, <2>3, PagesApart
    <3>2. final < first => final * PageSize + PageSize <= first * PageSize
      BY <1>1, <2>2, <2>3, PagesApart
    <3> HIDE DEF wanted, first, final
    <3> QED
      BY <1>1, <2>1, <2>2, <2>3, <3>1, <3>2
  <2>5. first * PageSize \in Nat
    BY <1>1, <2>2, PagesApart
  <2>6. /\ reading' = TRUE /\ answer' = "none" /\ written' = 0
        /\ req' = [offset |-> offset, length |-> length, wanted |-> wanted,
                   page |-> first, last |-> final]
        /\ out' = [k \in 0..(wanted - 1) |-> Unset]
    BY <1>4 DEF Begin
  <2> HIDE DEF wanted, first
  <2>7. ReadType'
    BY <1>1, <2>1, <2>2, <2>3, <2>6 DEF ReadType
  <2>8. ReadInv'
    BY <1>1, <2>1, <2>2, <2>3, <2>4, <2>5, <2>6 DEF ReadInv, MaxOf
  <2> QED
    BY <1>2, <2>6, <2>7, <2>8 DEF CacheInv, AnswerExact
<1> QED
  BY <1>3, <1>4

\* A page found in the cache is the right one.
LEMMA HitStep == CacheInv /\ Hit => CacheInv'
<1> SUFFICES ASSUME CacheInv, Hit PROVE CacheInv'
  OBVIOUS
<1>1. PagesExact'
  BY DEF CacheInv, PagesExact, Hit
<1>2. /\ pages[req.page].from = req.page * PageSize
      /\ pages[req.page].len = MinOf(PageSize, Size - req.page * PageSize)
  BY DEF CacheInv, PagesExact, Hit
<1>3. Copy(pages[req.page]) /\ reading /\ answer = "none"
  BY DEF Hit, CacheInv
<1> QED
  BY <1>1, <1>2, <1>3, CopyStep DEF CacheInv

\* No page is asked for that begins past the end of the source.
LEMMA PageInside ==
    ASSUME CacheInv, reading
    PROVE  req.page \in Nat /\ req.page * PageSize < Size
<1>1. /\ req.page \in Nat /\ req.offset \in Nat /\ req.wanted \in Nat
      /\ req.offset + req.wanted <= Size
      /\ req.page * PageSize < req.offset + req.wanted
  BY DEF CacheInv, ReadType, ReadInv
<1>2. req.page * PageSize \in Nat
  BY <1>1, PageAssumption, PagesApart
<1> QED
  BY <1>1, <1>2, PageAssumption

\* A page that is loaded is the right one, and those that stay are what they were.
LEMMA MissStep == CacheInv /\ OrderInv /\ Miss => CacheInv' /\ OrderInv'
<1> SUFFICES ASSUME CacheInv, OrderInv, Miss PROVE CacheInv' /\ OrderInv'
  OBVIOUS
<1> DEFINE page == SourceRead(req.page * PageSize, PageSize)
           map == [i \in DOMAIN pages \cup {req.page} |->
                      IF i = req.page THEN page ELSE pages[i]]
           kept == Surviving(Append(order, req.page), map)
<1>1. req.page \in Nat /\ req.page * PageSize < Size
  BY PageInside DEF Miss
<1>2. /\ page.from = req.page * PageSize
      /\ page.len = MinOf(PageSize, Size - req.page * PageSize)
  BY <1>1, SourcePage
<1>3. Copy(page) /\ reading /\ answer = "none"
  BY DEF Miss, CacheInv
<1>4. OrderInv' /\ \A i \in DOMAIN pages' : i \in DOMAIN pages \cup {req.page}
  BY <1>1, MissOrder
<1>5. PagesExact'
  <2>1. pages' = Restrict(map, Range(kept))
    BY DEF Miss
  <2>2. \A i \in DOMAIN map :
            /\ map[i].from = i * PageSize
            /\ map[i].len = MinOf(PageSize, Size - i * PageSize)
    <3> HIDE DEF page
    <3> QED
      BY <1>2 DEF CacheInv, PagesExact
  <2>3. \A i \in DOMAIN pages' : i \in DOMAIN map
    BY <1>4
  <2> HIDE DEF map, kept
  <2> QED
    BY <2>1, <2>2, <2>3 DEF PagesExact, Restrict
<1> QED
  BY <1>2, <1>3, <1>4, <1>5, CopyStep DEF CacheInv

\* A read the source refuses returns no bytes, and a cleared cache no pages.
LEMMA QuietStep ==
    ASSUME CacheInv, MissNull \/ Clear \/ UNCHANGED vars
    PROVE  CacheInv'
<1>1. CASE MissNull
  BY <1>1 DEF MissNull, CacheInv, PagesExact, ReadType, ReadInv, AnswerExact
<1>2. CASE Clear
  <2>1. PagesExact'
    BY <1>2 DEF Clear, PagesExact
  <2> QED
    BY <1>2, <2>1 DEF Clear, CacheInv, ReadType, ReadInv, AnswerExact
<1>3. CASE UNCHANGED vars
  BY <1>3 DEF vars, CacheInv, PagesExact, ReadType, ReadInv, AnswerExact
<1> QED
  BY <1>1, <1>2, <1>3

\* Init holds nothing, and every step keeps the invariant.
THEOREM CacheInvariance == Spec => [](CacheInv /\ OrderInv)
<1>1. Init => CacheInv /\ OrderInv
  <2> SUFFICES ASSUME Init PROVE CacheInv /\ OrderInv
    OBVIOUS
  <2>1. 0..(0 - 1) = {} /\ DOMAIN out = {} /\ DOMAIN pages = {}
    BY DEF Init
  <2>2. ReadType
    <3>1. req = [offset |-> 0, length |-> 0, wanted |-> 0, page |-> 0, last |-> 0]
      BY DEF Init, NoReq
    <3>2. DOMAIN out = 0..(req.wanted - 1)
      BY <2>1, <3>1
    <3>3. req \in [offset: Nat, length: Int, wanted: Nat, page: Nat, last: Int]
      BY <3>1
    <3> QED
      BY <3>2, <3>3 DEF Init, ReadType
  <2>3. CacheInv
    BY <2>1, <2>2 DEF Init, CacheInv, PagesExact, ReadInv, AnswerExact
  <2>4. OrderInv
    <3>1. /\ order = <<>> /\ recent = <<>> /\ Len(order) = 0 /\ Len(recent) = 0
          /\ Range(order) = {}
      BY DEF Init, Range
    <3>2. CeilingHeld
      BY <2>1, FS_EmptySet DEF CeilingHeld
    <3> QED
      BY <2>1, <3>1, <3>2 DEF OrderInv, Suffix, IsInjective
  <2> QED
    BY <2>3, <2>4
<1>2. CacheInv /\ OrderInv /\ [Next]_vars => CacheInv' /\ OrderInv'
  <2> SUFFICES ASSUME CacheInv, OrderInv, [Next]_vars PROVE CacheInv' /\ OrderInv'
    OBVIOUS
  <2>1. req.page \in Nat
    BY DEF CacheInv, ReadType
  <2>2. CASE Hit
    BY <2>1, <2>2, HitStep, HitOrder
  <2>3. CASE Miss
    BY <2>3, MissStep
  <2>4. CASE \/ MissNull \/ Clear \/ UNCHANGED vars
             \/ \E offset \in Offsets, length \in Lengths : Begin(offset, length)
    BY <2>4, BeginStep, QuietStep, QuietOrder
  <2> QED
    BY <2>2, <2>3, <2>4 DEF Next
<1> QED
  BY <1>1, <1>2, PTL DEF Spec

\* A cached page is the page of the source it stands for.
THEOREM PagesOfTheSource == Spec => []PagesExact
<1>1. CacheInv => PagesExact
  BY DEF CacheInv
<1> QED
  BY <1>1, CacheInvariance, PTL

\* A read that returns bytes returns the wanted range of the source, all of it.
THEOREM ReadsAreExact == Spec => []AnswerExact
<1>1. CacheInv => AnswerExact
  BY DEF CacheInv
<1> QED
  BY <1>1, CacheInvariance, PTL

\* The request keeps saying how much of it lies inside the source.
Wanted ==
    /\ req \in [offset: Nat, length: Int, wanted: Nat, page: Nat, last: Int]
    /\ req.length > 0 =>
          req.wanted = IF req.offset >= Size THEN 0 ELSE MinOf(req.length, Size - req.offset)
    /\ req.length <= 0 => req.wanted = 0

\* No step changes that.
LEMMA WantedStep == Wanted /\ ReadType' /\ [Next]_vars => Wanted'
<1> SUFFICES ASSUME Wanted, ReadType', [Next]_vars PROVE Wanted'
  OBVIOUS
<1>1. ASSUME NEW offset \in Offsets, NEW length \in Lengths, Begin(offset, length)
      PROVE  Wanted'
  <2>1. offset \in Nat /\ length \in Int /\ Size \in Nat
    BY PageAssumption
  <2>2. CASE length <= 0 \/ offset >= Size
    <3>1. req' = [offset |-> offset, length |-> length, wanted |-> 0, page |-> 0, last |-> 0]
      BY <1>1, <2>2 DEF Begin, NoReq
    <3> QED
      BY <2>1, <2>2, <3>1 DEF Wanted
  <2>3. CASE ~(length <= 0 \/ offset >= Size)
    <3>1. /\ req'.offset = offset /\ req'.length = length
          /\ req'.wanted = MinOf(length, Size - offset)
      BY <1>1, <2>3 DEF Begin
    <3> QED
      BY <2>1, <2>3, <3>1 DEF Wanted, ReadType
  <2> QED
    BY <2>2, <2>3
<1>2. ASSUME NEW page, Copy(page)
      PROVE  Wanted'
  <2>1. req' = req \/ req' = [req EXCEPT !.page = req.page + 1]
    BY <1>2 DEF Copy
  <2>2. req'.offset = req.offset /\ req'.length = req.length /\ req'.wanted = req.wanted
    BY <2>1 DEF Wanted
  <2> QED
    BY <2>2 DEF Wanted, ReadType
<1>3. CASE Hit
  BY <1>2, <1>3 DEF Hit
<1>4. CASE Miss
  BY <1>2, <1>4 DEF Miss
<1>5. CASE MissNull \/ Clear \/ UNCHANGED vars
  BY <1>5 DEF MissNull, Clear, vars, Wanted
<1> QED
  BY <1>1, <1>3, <1>4, <1>5 DEF Next

\* It does at every step.
THEOREM WantedInvariance == Spec => []Wanted
<1>1. Init => Wanted
  BY DEF Init, NoReq, Wanted
<1>2. CacheInv => ReadType
  BY DEF CacheInv
<1> QED
  BY <1>1, <1>2, WantedStep, CacheInvariance, PTL DEF Spec

\* SQLite is told OK only of a full read, and SHORT_READ only past the end.
THEOREM ShortOnlyAtTheEnd == Spec => []XReadHonest
<1>1. CacheInv /\ Wanted => XReadHonest
  <2> SUFFICES ASSUME CacheInv, Wanted, answer # "none", req.length > 0
               PROVE  /\ XRead = "OK" => written = req.length
                      /\ XRead = "SHORT_READ" => req.offset + req.length > Size
    BY DEF XReadHonest
  <2>1. req.offset \in Nat /\ req.length \in Int /\ req.wanted \in Nat /\ Size \in Nat
    BY PageAssumption DEF Wanted
  <2>2. CASE answer = "bytes"
    <3>1. written = req.wanted
      BY <2>2 DEF CacheInv, AnswerExact
    <3> QED
      BY <2>1, <2>2, <3>1 DEF Wanted, XRead, MinOf
  <2>3. CASE answer = "null"
    BY <2>3 DEF XRead
  <2>4. answer \in {"bytes", "null"}
    BY DEF CacheInv
  <2> QED
    BY <2>2, <2>3, <2>4
<1> QED
  BY <1>1, WantedInvariance, CacheInvariance, PTL

----------------------------------------------------------------------------
(* What is kept, and what is counted. *)

\* What is cached keeps under its ceiling unless it is a single page.
THEOREM UnderTheCeiling == Spec => []CeilingHeld
<1>1. OrderInv => CeilingHeld
  BY DEF OrderInv
<1> QED
  BY <1>1, CacheInvariance, PTL

\* What is cached are the pages used last.
THEOREM EvictionIsLRU == Spec => []LeastRecentlyUsedGoes
<1>1. OrderInv => LeastRecentlyUsedGoes
  BY SuffixIsSubSeq DEF OrderInv, LeastRecentlyUsedGoes
<1> QED
  BY <1>1, CacheInvariance, PTL

\* The counters, and how far the copying has come.
CountInv ==
    /\ stats \in [hits: Nat, misses: Nat, evictions: Nat, sourceReads: Nat]
    /\ dropped \in Nat
    /\ written <= req.wanted
    /\ StatsAddUp

\* A page copied leaves the counters to its action and stays within what is wanted.
LEMMA CopyCounts ==
    ASSUME CacheInv', reading, reading' \/ answer' = "bytes"
    PROVE  written' <= req'.wanted
<1>1. /\ req' \in [offset: Nat, length: Int, wanted: Nat, page: Nat, last: Int]
      /\ reading' \in BOOLEAN /\ PageSize \in Nat /\ written' \in Nat
  BY PageAssumption DEF CacheInv, ReadType
<1>2. CASE answer' = "bytes"
  BY <1>1, <1>2 DEF CacheInv, AnswerExact
<1>3. CASE reading'
  <2>1. /\ req'.page * PageSize < req'.offset + req'.wanted
        /\ written' = MaxOf(0, req'.page * PageSize - req'.offset)
        /\ req'.wanted > 0
    BY <1>3 DEF CacheInv, ReadInv, ReadType
  <2>2. req'.page * PageSize \in Nat
    BY <1>1, PagesApart
  <2>3. req'.offset \in Nat /\ req'.wanted \in Nat
    BY <1>1
  <2> QED
    BY <2>1, <2>2, <2>3 DEF MaxOf
<1> QED
  BY <1>2, <1>3

LEMMA CountStep ==
    ASSUME CacheInv, OrderInv, CacheInv', CountInv, [Next]_vars
    PROVE  CountInv'
<1>1. Len(order) \in Nat
  BY LenProperties DEF OrderInv
<1>2. ASSUME NEW page, reading, Copy(page) PROVE reading' \/ answer' = "bytes"
  BY <1>2 DEF Copy
<1>3. CASE Hit
  <2>1. Len(order') = Len(order) /\ dropped' = dropped
        /\ stats' = [stats EXCEPT !.hits = @ + 1]
    BY <1>3, HitOrder DEF Hit, CacheInv, ReadType
  <2>2. written' <= req'.wanted
    BY <1>2, <1>3, CopyCounts DEF Hit
  <2>3. stats \in [hits: Nat, misses: Nat, evictions: Nat, sourceReads: Nat]
    BY DEF CountInv
  <2>4. /\ stats'.misses = stats.misses /\ stats'.sourceReads = stats.sourceReads
        /\ stats'.evictions = stats.evictions
        /\ stats' \in [hits: Nat, misses: Nat, evictions: Nat, sourceReads: Nat]
    BY <2>1, <2>3
  <2> QED
    BY <1>1, <2>1, <2>2, <2>4 DEF CountInv, StatsAddUp
<1>4. CASE Miss
  <2>1. req.page \in Nat /\ req.page * PageSize < Size
    BY <1>4, PageInside DEF Miss
  <2>2. /\ Len(order') \in 1..(Len(order) + 1) /\ dropped' = dropped
        /\ stats' = [stats EXCEPT !.misses = @ + 1, !.sourceReads = @ + 1,
                                  !.evictions = @ + (Len(order) + 1) - Len(order')]
    BY <1>4, <2>1, MissOrder DEF Miss
  <2>3. written' <= req'.wanted
    BY <1>2, <1>4, CopyCounts DEF Miss
  <2>4. stats \in [hits: Nat, misses: Nat, evictions: Nat, sourceReads: Nat]
    BY DEF CountInv
  <2>5. /\ stats'.misses = stats.misses + 1 /\ stats'.sourceReads = stats.sourceReads + 1
        /\ stats'.evictions = stats.evictions + (Len(order) + 1) - Len(order')
        /\ stats' = [hits |-> stats.hits, misses |-> stats'.misses,
                     evictions |-> stats'.evictions, sourceReads |-> stats'.sourceReads]
    BY <2>2, <2>4
  <2>6. /\ stats'.evictions \in Nat
        /\ stats' \in [hits: Nat, misses: Nat, evictions: Nat, sourceReads: Nat]
    BY <1>1, <2>2, <2>4, <2>5
  <2>7. StatsAddUp'
    BY <1>1, <2>2, <2>4, <2>5 DEF CountInv, StatsAddUp
  <2> QED
    BY <2>2, <2>3, <2>6, <2>7 DEF CountInv
<1>5. CASE MissNull
  <2>1. /\ stats' = [stats EXCEPT !.misses = @ + 1]
        /\ UNCHANGED <<req, written, order, dropped>>
    BY <1>5 DEF MissNull
  <2>2. stats \in [hits: Nat, misses: Nat, evictions: Nat, sourceReads: Nat]
    BY DEF CountInv
  <2>3. /\ stats'.misses = stats.misses + 1 /\ stats'.sourceReads = stats.sourceReads
        /\ stats'.evictions = stats.evictions
        /\ stats' \in [hits: Nat, misses: Nat, evictions: Nat, sourceReads: Nat]
    BY <2>1, <2>2
  <2> QED
    BY <1>1, <2>1, <2>2, <2>3 DEF CountInv, StatsAddUp
<1>6. CASE Clear
  <2>1. /\ dropped' = dropped + Len(order) /\ Len(order') = 0
        /\ UNCHANGED <<stats, req, written>>
    BY <1>6 DEF Clear
  <2> QED
    BY <1>1, <2>1 DEF CountInv, StatsAddUp
<1>7. ASSUME NEW offset \in Offsets, NEW length \in Lengths, Begin(offset, length)
      PROVE  CountInv'
  <2>1. written' = 0 /\ UNCHANGED <<stats, dropped, order>>
    BY <1>7 DEF Begin
  <2>2. req'.wanted \in Nat
    BY DEF CacheInv, ReadType
  <2> QED
    BY <2>1, <2>2 DEF CountInv, StatsAddUp
<1>8. CASE UNCHANGED vars
  BY <1>8 DEF vars, CountInv, StatsAddUp
<1> QED
  BY <1>3, <1>4, <1>5, <1>6, <1>7, <1>8 DEF Next

\* Init counts nothing, and every step keeps the account.
THEOREM CountInvariance == Spec => []CountInv
<1>1. Init => CountInv
  <2> SUFFICES ASSUME Init PROVE CountInv
    OBVIOUS
  <2>1. /\ stats = [hits |-> 0, misses |-> 0, evictions |-> 0, sourceReads |-> 0]
        /\ Len(order) = 0 /\ dropped = 0 /\ written = 0 /\ req.wanted = 0
    BY DEF Init, NoStats, NoReq
  <2> QED
    BY <2>1 DEF CountInv, StatsAddUp
<1>2. CacheInv /\ OrderInv /\ (CacheInv /\ OrderInv)' /\ CountInv /\ [Next]_vars => CountInv'
  BY CountStep
<1> QED
  BY <1>1, <1>2, CacheInvariance, PTL DEF Spec

\* The counters account for every page that was read.
THEOREM EveryPageCounted == Spec => []StatsAddUp
<1>1. CountInv => StatsAddUp
  BY DEF CountInv
<1> QED
  BY <1>1, CountInvariance, PTL

\* Every variable keeps to its type; the Map and its order agree on what is cached.
THEOREM TypeCorrect == Spec => []TypeOK
<1>1. Init => maxBytes \in Ceilings
  BY DEF Init
<1>2. maxBytes \in Ceilings /\ [Next]_vars => (maxBytes \in Ceilings)'
  BY DEF Next, Begin, Hit, Miss, MissNull, Clear, vars
<1>3. CacheInv /\ OrderInv /\ CountInv /\ maxBytes \in Ceilings => TypeOK
  <2> SUFFICES ASSUME CacheInv, OrderInv, CountInv, maxBytes \in Ceilings PROVE TypeOK
    OBVIOUS
  <2>1. IsInjective(order) /\ Cardinality(DOMAIN pages) = Len(order) /\ DOMAIN pages \subseteq Nat
    BY SuffixElements, InjectiveLength, RangeOfSeq DEF OrderInv
  <2>2. ASSUME NEW i \in DOMAIN pages
        PROVE  pages[i].from \in Nat /\ pages[i].len \in Nat
    <3>1. i * PageSize \in Nat /\ i * PageSize < Size /\ Size \in Nat /\ PageSize \in Nat
      BY <2>1, PagesApart, PageAssumption DEF OrderInv
    <3>2. pages[i].from = i * PageSize /\ pages[i].len = MinOf(PageSize, Size - i * PageSize)
      BY DEF CacheInv, PagesExact
    <3> QED
      BY <3>1, <3>2 DEF MinOf
  <2>3. written \in 0..req.wanted
    BY DEF CacheInv, ReadType, CountInv
  <2> QED
    BY <2>1, <2>2, <2>3 DEF TypeOK, OrderInv, CacheInv, ReadType
<1> QED
  BY <1>1, <1>2, <1>3, CacheInvariance, CountInvariance, PTL DEF Spec

----------------------------------------------------------------------------
(* Behind the cache is a ByteSource. *)

\* No bytes are the same nothing, whatever the buffer holds.
LEMMA EmptyBytes ==
    ASSUME NEW f
    PROVE  [k \in 0..(0 - 1) |-> f[k]] = Reads!NoBytes
<1>1. Reads!NoBytes = [k \in {} |-> 0 + k]
  BY PageAssumption DEF Reads!NoBytes, Reads!Bytes
<1>2. [k \in 0..(0 - 1) |-> f[k]] = [k \in {} |-> f[k]]
  OBVIOUS
<1>3. [k \in {} |-> f[k]] = [k \in {} |-> 0 + k]
  OBVIOUS
<1> QED
  BY <1>1, <1>2, <1>3

\* As many bytes as are wanted, each the one of its position, are the bytes of the range.
LEMMA RangeBytes ==
    ASSUME NEW offset \in Nat, NEW length \in Int, length > 0, offset < Size,
           NEW f, \A k \in 0..(MinOf(length, Size - offset) - 1) : f[k] = offset + k
    PROVE  [k \in 0..(MinOf(length, Size - offset) - 1) |-> f[k]] = Reads!Bytes(offset, length)
<1> DEFINE end == IF offset + length < Size THEN offset + length ELSE Size
           wanted == MinOf(length, Size - offset)
<1>1. end - offset = wanted
  BY PageAssumption DEF MinOf
<1>2. Reads!Bytes(offset, length) = [k \in 0..(end - offset - 1) |-> offset + k]
  BY DEF Reads!Bytes
<1>3. \A k \in 0..(wanted - 1) : f[k] = offset + k
  OBVIOUS
<1> HIDE DEF end, wanted
<1>4. Reads!Bytes(offset, length) = [k \in 0..(wanted - 1) |-> offset + k]
  BY <1>1, <1>2
<1>5. [k \in 0..(wanted - 1) |-> f[k]] = [k \in 0..(wanted - 1) |-> offset + k]
  BY <1>3
<1>6. [k \in 0..(wanted - 1) |-> f[k]] = Reads!Bytes(offset, length)
  BY <1>4, <1>5
<1> QED
  BY <1>6 DEF wanted

\* A page copied is a step within a read, or the one that serves it.
LEMMA CopyReads ==
    ASSUME CacheInv, CacheInv', Wanted, Wanted', reading, NEW page, Copy(page)
    PROVE  Reads!Next \/ UNCHANGED <<UnderWay, Shown>>
<1>1. req'.offset = req.offset /\ req'.length = req.length
  <2>1. req' = req \/ req' = [req EXCEPT !.page = req.page + 1]
    BY DEF Copy
  <2> QED
    BY <2>1 DEF Wanted
<1>2. /\ answer = "none" /\ req.length > 0 /\ req.offset < Size
      /\ req.offset \in Nat /\ req.length \in Int /\ Size \in Nat
  <2>1. answer = "none" /\ req.wanted > 0 /\ req.offset + req.wanted <= Size
    BY DEF CacheInv, ReadType
  <2>2. req.offset \in Nat /\ req.length \in Int /\ req.wanted \in Nat /\ Size \in Nat
    BY PageAssumption DEF Wanted
  <2>3. req.length > 0
    BY <2>1, <2>2 DEF Wanted
  <2> QED
    BY <2>1, <2>2, <2>3
<1>3. Shown = Reads!Answer("none", Reads!NoBytes)
  BY <1>2, EmptyBytes DEF Shown, Reads!Answer
<1>4. CASE reading'
  <2>1. answer' = "none"
    BY <1>4 DEF CacheInv
  <2>2. Shown' = Reads!Answer("none", Reads!NoBytes)
    BY <2>1, EmptyBytes DEF Shown, Reads!Answer
  <2> QED
    BY <1>1, <1>3, <1>4, <2>2 DEF UnderWay
<1>5. CASE ~reading'
  <2>1. answer' = "bytes"
    BY <1>5 DEF Copy
  <2>2. /\ written' = req'.wanted /\ req'.wanted = MinOf(req.length, Size - req.offset)
        /\ \A k \in 0..(req'.wanted - 1) : out'[k] = req.offset + k
    BY <1>1, <1>2, <2>1 DEF CacheInv, AnswerExact, Wanted
  <2>3. [k \in 0..(written' - 1) |-> out'[k]] = Reads!Bytes(req.offset, req.length)
    <3>1. /\ written' = MinOf(req.length, Size - req.offset)
          /\ \A k \in 0..(MinOf(req.length, Size - req.offset) - 1) : out'[k] = req.offset + k
      BY <2>2
    <3>2. [k \in 0..(MinOf(req.length, Size - req.offset) - 1) |-> out'[k]]
            = Reads!Bytes(req.offset, req.length)
      BY <1>2, <3>1, RangeBytes
    <3> QED
      BY <3>1, <3>2
  <2>4. Shown' = Reads!Answer("bytes", Reads!Bytes(req.offset, req.length))
    BY <2>1, <2>3 DEF Shown, Reads!Answer
  <2> DEFINE read == <<req.offset, req.length>>
  <2>5. read[1] = req.offset /\ read[2] = req.length
    OBVIOUS
  <2>6. read \in UnderWay /\ UnderWay' = {}
    BY <1>5 DEF UnderWay
  <2>7. Reads!Serve(read)
    BY <2>4, <2>5, <2>6 DEF Reads!Serve
  <2> QED
    BY <2>6, <2>7 DEF Reads!Next
<1> QED
  BY <1>4, <1>5

\* readSync begins as a read under way, or answers an empty range at once.
LEMMA BeginReads ==
    ASSUME CacheInv, NEW offset \in Offsets, NEW length \in Lengths, Begin(offset, length)
    PROVE  Reads!Next
<1>1. ~reading /\ UnderWay = {}
  BY DEF Begin, UnderWay
<1>2. CASE length <= 0 \/ offset >= Size
  <2>1. answer' = "bytes" /\ written' = 0 /\ reading' = reading
    BY <1>2 DEF Begin
  <2>2. UnderWay' = UnderWay
    BY <1>1, <2>1 DEF UnderWay
  <2>3. Shown' = Reads!Answer("bytes", Reads!NoBytes)
    BY <2>1, EmptyBytes DEF Shown, Reads!Answer
  <2>4. Reads!AskNothing(offset, length)
    BY <1>2, <2>2, <2>3 DEF Reads!AskNothing
  <2> QED
    BY <1>1, <2>4 DEF Reads!Next
<1>3. CASE ~(length <= 0 \/ offset >= Size)
  <2>1. answer' = "none" /\ reading' = TRUE /\ req'.offset = offset /\ req'.length = length
    BY <1>3 DEF Begin
  <2>2. UnderWay' = {<<offset, length>>}
    BY <2>1 DEF UnderWay
  <2>3. Shown' = Reads!Answer("none", Reads!NoBytes)
    BY <2>1, EmptyBytes DEF Shown, Reads!Answer
  <2>4. length > 0 /\ offset < Size
    BY <1>3, PageAssumption
  <2>5. Reads!Ask(offset, length)
    BY <2>2, <2>3, <2>4 DEF Reads!Ask
  <2> QED
    BY <1>1, <2>5 DEF Reads!Next
<1> QED
  BY <1>2, <1>3

\* Every step of the cache is a step of the source it stands for, or shows nothing.
LEMMA StepReads ==
    ASSUME CacheInv, CacheInv', Wanted, Wanted', [Next]_vars
    PROVE  Reads!Next \/ UNCHANGED <<UnderWay, Shown>>
<1>1. ASSUME NEW offset \in Offsets, NEW length \in Lengths, Begin(offset, length)
      PROVE  Reads!Next
  BY <1>1, BeginReads
<1>2. CASE Hit
  BY <1>2, CopyReads DEF Hit
<1>3. CASE Miss
  BY <1>3, CopyReads DEF Miss
<1>4. CASE MissNull
  <2>1. reading /\ reading' = FALSE /\ answer' = "null"
    BY <1>4 DEF MissNull
  <2>2. UnderWay # {} /\ UnderWay' = {}
    BY <2>1 DEF UnderWay
  <2>3. Shown' = Reads!Answer("null", Reads!NoBytes)
    BY <2>1, EmptyBytes DEF Shown, Reads!Answer
  <2>4. Reads!Refuse
    BY <2>2, <2>3 DEF Reads!Refuse
  <2> QED
    BY <2>4 DEF Reads!Next
<1>5. CASE Clear \/ UNCHANGED vars
  <2>1. UNCHANGED <<reading, req, answer, written, out>>
    BY <1>5 DEF Clear, vars
  <2>2. UnderWay' = UnderWay
    BY <2>1 DEF UnderWay
  <2>3. Shown' = Shown
    BY <2>1 DEF Shown
  <2> QED
    BY <2>2, <2>3
<1> QED
  BY <1>1, <1>2, <1>3, <1>4, <1>5 DEF Next

\* Behind the cache is a ByteSource, for every source and every ceiling.
THEOREM CacheIsTransparent == Spec => ReadsTheSource
<1>1. Init => Reads!Init
  <2> SUFFICES ASSUME Init PROVE Reads!Init
    OBVIOUS
  <2>1. reading = FALSE /\ answer = "none"
    BY DEF Init
  <2>2. Shown = Reads!Answer("none", Reads!NoBytes)
    BY <2>1, EmptyBytes DEF Shown, Reads!Answer
  <2> QED
    BY <2>1, <2>2 DEF Reads!Init, UnderWay
<1>2. CacheInv /\ CacheInv' /\ Wanted /\ Wanted' /\ [Next]_vars
        => [Reads!Next]_<<UnderWay, Shown>>
  BY StepReads
<1>3. CacheInv /\ OrderInv => CacheInv
  OBVIOUS
<1> QED
  BY <1>1, <1>2, <1>3, CacheInvariance, WantedInvariance, PTL
     DEF Spec, ReadsTheSource, Reads!Spec
=============================================================================
