--------------------------- MODULE IndexerProofs ---------------------------
(***************************************************************************)
(* Proofs about Indexer, for every corpus, of any length, and every        *)
(* interval between two progress marks.                                    *)
(*                                                                         *)
(* The documents collected are those of the lines read, in the order of    *)
(* the file (Collected).  Pass 2 keeps the rows it has written before all  *)
(* that it has not (Sorted), and as many documents written as rows, so     *)
(* that at its end nothing is left over (Counted).                         *)
(***************************************************************************)
EXTENDS Indexer, FiniteSetTheorems, TLAPS

Doc == [line: Nat, importance: Int]

Types ==
    /\ file \in Seq(Lines) /\ Len(file) <= MaxLines
    /\ stage \in {"detect", "import", "pass1", "pass2", "done", "failed"}
    /\ at \in 0..Len(file)
    /\ docs \in Seq(Doc)
    /\ skipped \in 0..at
    /\ explicit \in BOOLEAN
    /\ staged \in 0..Len(docs)
    /\ inserted \in Seq(Doc)
    /\ extractRow \in Row /\ indexRow \in Row
    /\ before \in Leftovers

\* What each stage has behind it.
Stages ==
    /\ stage \in {"detect", "import"} => staged = 0
    /\ stage \notin {"pass2", "done"} => inserted = <<>>
    /\ stage \in {"pass2", "done"} => staged = Len(docs)
    /\ stage \in {"pass1", "pass2", "done"} => at = Len(file)
    /\ stage = "done" => Len(inserted) = staged

\* The documents are those of the lines read, in the order of the file.
Collected ==
    /\ \A n \in DOMAIN docs : docs[n].line \in 1..at /\ file[docs[n].line].kind = "doc"
    /\ \A m, n \in DOMAIN docs : m < n => docs[m].line < docs[n].line
    /\ \A l \in 1..at : file[l].kind = "doc" => \E n \in DOMAIN docs : docs[n].line = l

\* Without an importance of its own no document has one that is not its position.
Defaulted == ~explicit => \A n \in DOMAIN docs : docs[n].importance = 1 - n

Of(kinds) == {l \in 1..at : file[l].kind \in kinds}

Tallied ==
    /\ Len(docs) = Cardinality(Of({"doc"}))
    /\ skipped = Cardinality(Of({"malformed", "hollow"}))

ImportInv == Types /\ Stages /\ Collected /\ Defaulted /\ Tallied

----------------------------------------------------------------------------
(* The import *)

LEMMA ImportInit == IndexerInit => ImportInv
<1> SUFFICES ASSUME IndexerInit PROVE ImportInv
  OBVIOUS
<1> USE LinesAssumption DEF IndexerInit
<1>1. Types
  <2>1. PICK n \in 0..MaxLines : file \in [1..n -> Lines]
    OBVIOUS
  <2>2. file \in Seq(Lines) /\ Len(file) = n
    BY <2>1
  <2>3. before \in Leftovers /\ extractRow \in Row /\ indexRow \in Row
    OBVIOUS
  <2>4. docs \in Seq(Doc) /\ inserted \in Seq(Doc) /\ Len(docs) = 0
    OBVIOUS
  <2>5. /\ stage = "detect" /\ at = 0 /\ skipped = 0 /\ explicit = FALSE /\ staged = 0
    OBVIOUS
  <2> HIDE DEF IndexerInit
  <2>6. at \in 0..Len(file) /\ skipped \in 0..at /\ staged \in 0..Len(docs)
    BY <2>2, <2>4, <2>5
  <2>7. Len(file) <= MaxLines
    BY <2>1, <2>2
  <2> QED
    BY <2>2, <2>3, <2>4, <2>5, <2>6, <2>7 DEF Types
<1>2. Of({"doc"}) = {} /\ Of({"malformed", "hollow"}) = {}
  BY DEF Of
<1>3. Tallied
  BY <1>2, FS_EmptySet DEF Tallied
<1> QED
  BY <1>1, <1>3 DEF ImportInv, Stages, Collected, Defaulted

LEMMA RowTypes ==
    ASSUME NEW row \in Row, NEW n \in Nat, NEW total \in Nat
    PROVE  MarkEvery(row, n, total) \in Row /\ Completed(row) \in Row
  BY DEF MarkEvery, Marked, Completed, Row

LEMMA TypesStep ==
    ASSUME Types, Stages, [IndexerNext]_indexerVars
    PROVE  Types' /\ Stages'
<1> USE LinesAssumption DEF Types, Stages
<1>1. CASE Detect
  BY <1>1 DEF Detect
<1>2. CASE ReadFails
  BY <1>2 DEF ReadFails
<1>3. CASE SkipLine
  BY <1>3 DEF SkipLine
<1>4. CASE TakeDocument
  <2>1. [line |-> at + 1, importance |-> Importance(Line, Len(docs))] \in Doc
    BY <1>4 DEF TakeDocument, Doc, Importance, Line
  <2>2. docs' \in Seq(Doc) /\ Len(docs') = Len(docs) + 1
    BY <1>4, <2>1 DEF TakeDocument
  <2>3. explicit' \in BOOLEAN
    BY <1>4 DEF TakeDocument
  <2>4. extractRow' \in Row
    <3>1. Len(docs) + 1 \in Nat
      OBVIOUS
    <3>2. extractRow' = MarkEvery(extractRow, Len(docs) + 1, Len(docs) + 1)
      BY <1>4 DEF TakeDocument
    <3> QED
      BY <3>1, <3>2, RowTypes
  <2>5. skipped' \in 0..at' /\ staged' \in 0..Len(docs') /\ at' \in 0..Len(file')
    BY <1>4, <2>2 DEF TakeDocument
  <2> QED
    BY <1>4, <2>2, <2>3, <2>4, <2>5 DEF TakeDocument
<1>5. CASE EndOfFile
  BY <1>5, RowTypes DEF EndOfFile
<1>6. CASE StageDocument
  <2>1. indexRow' \in Row
    <3>1. staged + 1 \in Nat
      OBVIOUS
    <3>2. indexRow' = MarkEvery(indexRow, staged + 1, staged + 1)
      BY <1>6 DEF StageDocument
    <3> QED
      BY <3>1, <3>2, RowTypes
  <2> QED
    BY <1>6, <2>1 DEF StageDocument
<1>7. CASE EndPass1
  BY <1>7 DEF EndPass1
<1>8. CASE InsertDocument
  <2>1. PICK n \in 1..staged : inserted' = Append(inserted, docs[n])
    BY <1>8 DEF InsertDocument
  <2>2. inserted' \in Seq(Doc)
    BY <2>1
  <2>3. indexRow' \in Row
    <3>1. Len(inserted) + 1 \in Nat /\ staged \in Nat
      OBVIOUS
    <3>2. indexRow' = MarkEvery(indexRow, Len(inserted) + 1, staged)
      BY <1>8 DEF InsertDocument
    <3> QED
      BY <3>1, <3>2, RowTypes
  <2> QED
    BY <1>8, <2>2, <2>3 DEF InsertDocument
<1>9. CASE EndPass2
  BY <1>9, RowTypes DEF EndPass2
<1>10. CASE UNCHANGED indexerVars
  BY <1>10 DEF indexerVars
<1> QED
  BY <1>1, <1>2, <1>3, <1>4, <1>5, <1>6, <1>7, <1>8, <1>9, <1>10 DEF IndexerNext, Import, Build

\* Moving past one line counts it with its kind.
LEMMA OneLine ==
    ASSUME Types, at < Len(file), at' = at + 1, UNCHANGED file, NEW kinds
    PROVE  Cardinality(Of(kinds)') =
               IF Line.kind \in kinds THEN Cardinality(Of(kinds)) + 1 ELSE Cardinality(Of(kinds))
<1>1. IsFiniteSet(Of(kinds)) /\ at + 1 \notin Of(kinds)
  <2>1. IsFiniteSet(1..at)
    BY FS_Interval DEF Types
  <2> QED
    BY <2>1, FS_Subset DEF Of, Types
<1>2. Of(kinds)' = IF Line.kind \in kinds THEN Of(kinds) \cup {at + 1} ELSE Of(kinds)
  BY DEF Of, Line, Types
<1> QED
  BY <1>1, <1>2, FS_AddElement

LEMMA ImportStep ==
    ASSUME ImportInv, [IndexerNext]_indexerVars
    PROVE  ImportInv'
<1> USE DEF ImportInv
<1>1. Types' /\ Stages'
  BY TypesStep
<1>2. CASE SkipLine
  <2>1. at' = at + 1 /\ UNCHANGED <<file, docs, explicit>> /\ at < Len(file)
    BY <1>2 DEF SkipLine
  <2>2. at \in Nat /\ Line.kind # "doc"
    BY <1>2 DEF SkipLine, Types
  <2>3. Collected'
    BY <2>1, <2>2 DEF Collected, Line
  <2>4. Defaulted'
    BY <2>1 DEF Defaulted
  <2>5. Tallied'
    BY <1>2, <2>1, OneLine DEF SkipLine, Tallied
  <2> QED
    BY <1>1, <2>3, <2>4, <2>5
<1>3. CASE TakeDocument
  <2>1. /\ at' = at + 1 /\ UNCHANGED <<file, skipped>> /\ at < Len(file) /\ Line.kind = "doc"
        /\ Len(docs') = Len(docs) + 1 /\ DOMAIN docs' = 1..Len(docs) + 1
        /\ \A n \in 1..Len(docs) : docs'[n] = docs[n]
        /\ docs'[Len(docs) + 1] = [line |-> at + 1, importance |-> Importance(Line, Len(docs))]
    BY <1>3 DEF TakeDocument, Types
  <2>2. DOMAIN docs = 1..Len(docs) /\ Len(docs) \in Nat
    BY DEF Types
  <2>3. Collected'
    <3>1. \A n \in DOMAIN docs' :
             docs'[n].line \in 1..at' /\ file'[docs'[n].line].kind = "doc"
      BY <2>1, <2>2 DEF Collected, Types, Line
    <3>2. \A m, n \in DOMAIN docs' : m < n => docs'[m].line < docs'[n].line
      <4>1. \A m \in 1..Len(docs) : docs'[m].line <= at /\ docs'[m].line \in Nat
        BY <2>1, <2>2 DEF Collected, Types
      <4> QED
        BY <2>1, <2>2, <4>1 DEF Collected, Types
    <3>3. \A l \in 1..at' : file'[l].kind = "doc" => \E n \in DOMAIN docs' : docs'[n].line = l
      <4> SUFFICES ASSUME NEW l \in 1..at', file[l].kind = "doc"
                   PROVE  \E n \in DOMAIN docs' : docs'[n].line = l
        BY <2>1
      <4>1. CASE l = at + 1
        <5>1. Len(docs) + 1 \in DOMAIN docs'
          BY <2>1, <2>2
        <5> QED
          BY <2>1, <4>1, <5>1
      <4>2. CASE l # at + 1
        <5>1. PICK n \in DOMAIN docs : docs[n].line = l
          BY <2>1, <4>2 DEF Collected, Types
        <5>2. n \in DOMAIN docs' /\ docs'[n].line = l
          BY <2>1, <2>2, <5>1
        <5> QED
          BY <5>2
      <4> QED
        BY <4>1, <4>2
    <3> QED
      BY <3>1, <3>2, <3>3 DEF Collected
  <2>4. Defaulted'
    <3> SUFFICES ASSUME ~explicit', NEW n \in 1..Len(docs) + 1
                 PROVE  docs'[n].importance = 1 - n
      BY <2>1 DEF Defaulted
    <3>1. ~explicit /\ Line.importance = Default
      BY <1>3 DEF TakeDocument, Types
    <3>2. CASE n = Len(docs) + 1
      BY <2>1, <2>2, <3>1, <3>2 DEF Importance
    <3>3. CASE n # Len(docs) + 1
      BY <2>1, <2>2, <3>1, <3>3 DEF Defaulted
    <3> QED
      BY <3>2, <3>3
  <2>5. Tallied'
    BY <2>1, OneLine DEF Tallied
  <2> QED
    BY <1>1, <2>3, <2>4, <2>5
<1>4. CASE UNCHANGED <<file, at, docs, skipped, explicit>>
  BY <1>1, <1>4 DEF Collected, Defaulted, Tallied, Of
<1> QED
  BY <1>2, <1>3, <1>4 DEF IndexerNext, Import, Build, Detect, ReadFails, EndOfFile, StageDocument,
     EndPass1, InsertDocument, EndPass2, indexerVars
----------------------------------------------------------------------------
(* Pass 2 *)

\* The order of the results.
Precedes(d, e) ==
    d.importance > e.importance \/ (d.importance = e.importance /\ d.line < e.line)

\* Every row is a staged document, and comes before all that are not written yet.
Sorted ==
    /\ \A r \in DOMAIN inserted : \E n \in 1..staged : inserted[r] = docs[n]
    /\ \A r \in DOMAIN inserted, m \in 1..staged : ~Written(m) => Precedes(inserted[r], docs[m])
    /\ \A r, s \in DOMAIN inserted : r < s => Precedes(inserted[r], inserted[s])

Done == {n \in 1..staged : Written(n)}

\* As many documents are written as there are rows.
Counted == Cardinality(Done) = Len(inserted)

BuildInv == ImportInv /\ Sorted /\ Counted

LEMMA DocTypes ==
    ASSUME Types, NEW n \in 1..Len(docs)
    PROVE  docs[n].line \in Nat /\ docs[n].importance \in Int
<1>1. docs \in Seq(Doc)
  BY DEF Types
<1>2. docs[n] \in Doc
  BY <1>1
<1> QED
  BY <1>2 DEF Doc

\* While nothing is inserted there is nothing to say.
LEMMA NoRows ==
    ASSUME inserted = <<>>
    PROVE  Sorted /\ Counted
<1>1. Done = {}
  BY DEF Done, Written
<1> QED
  BY <1>1, FS_EmptySet DEF Sorted, Counted

\* One insertion: the document that comes first of those left over.
LEMMA InsertKeeps ==
    ASSUME BuildInv, InsertDocument
    PROVE  Sorted' /\ Counted'
<1> USE DEF BuildInv, ImportInv
<1>1. PICK n \in 1..staged :
          /\ ~Written(n)
          /\ \A m \in 1..staged : ~Written(m) => Before(n, m)
          /\ inserted' = Append(inserted, docs[n])
  BY DEF InsertDocument
<1>2. /\ UNCHANGED <<docs, staged>> /\ staged = Len(docs) /\ Len(docs) \in Nat
      /\ Len(inserted) \in Nat /\ DOMAIN inserted = 1..Len(inserted)
  BY DEF InsertDocument, Stages, Types
<1>3. /\ DOMAIN inserted' = 1..Len(inserted) + 1 /\ Len(inserted') = Len(inserted) + 1
      /\ \A r \in 1..Len(inserted) : inserted'[r] = inserted[r]
      /\ inserted'[Len(inserted) + 1] = docs[n]
  BY <1>1, <1>2 DEF Types
<1>4. \A m \in 1..staged : Written(m)' <=> Written(m) \/ docs[m] = docs[n]
  BY <1>2, <1>3 DEF Written
<1>5. \A m \in 1..staged : docs[m] = docs[n] => m = n
  <2>1. \A m \in 1..staged : docs[m].line \in Nat /\ m \in DOMAIN docs
    BY <1>2, DocTypes DEF Types
  <2>2. \A m \in 1..staged : m < n \/ n < m => docs[m].line # docs[n].line
    BY <2>1 DEF Collected
  <2> QED
    BY <1>2, <2>2
<1>6. \A m \in 1..staged : ~Written(m) /\ m # n => Precedes(docs[n], docs[m])
  <2>1. \A m \in 1..staged : docs[m].importance \in Int /\ m \in DOMAIN docs
    BY <1>2, DocTypes DEF Types
  <2> QED
    BY <1>1, <2>1 DEF Before, Precedes, Collected
<1>7. Sorted'
  <2>1. \A r \in DOMAIN inserted' : \E m \in 1..staged' : inserted'[r] = docs'[m]
    BY <1>1, <1>2, <1>3 DEF Sorted
  <2>2. ASSUME NEW r \in DOMAIN inserted', NEW m \in 1..staged, ~Written(m)'
        PROVE  Precedes(inserted'[r], docs[m])
    BY <1>2, <1>3, <1>4, <1>6, <2>2 DEF Sorted
  <2>3. ASSUME NEW r \in DOMAIN inserted', NEW s \in DOMAIN inserted', r < s
        PROVE  Precedes(inserted'[r], inserted'[s])
    BY <1>1, <1>2, <1>3, <2>3 DEF Sorted
  <2> QED
    BY <1>2, <2>1, <2>2, <2>3 DEF Sorted
<1>8. Counted'
  <2>1. Done' = Done \cup {n} /\ n \notin Done
    BY <1>1, <1>2, <1>4, <1>5 DEF Done
  <2>2. IsFiniteSet(Done)
    <3>1. IsFiniteSet(1..staged) /\ Done \in SUBSET (1..staged)
      BY <1>2, FS_Interval DEF Done
    <3> QED
      BY <3>1, FS_Subset
  <2> QED
    BY <1>3, <2>1, <2>2, FS_AddElement DEF Counted
<1> QED
  BY <1>7, <1>8

LEMMA BuildInit == IndexerInit => BuildInv
  BY ImportInit, NoRows DEF IndexerInit, BuildInv

LEMMA BuildStep ==
    ASSUME BuildInv, [IndexerNext]_indexerVars
    PROVE  BuildInv'
<1> USE DEF BuildInv
<1>1. ImportInv'
  BY ImportStep
<1>2. CASE InsertDocument
  BY <1>1, <1>2, InsertKeeps
<1>3. CASE stage' \notin {"pass2", "done"}
  <2>1. inserted' = <<>>
    BY <1>1, <1>3 DEF ImportInv, Stages
  <2>2. Done' = {}
    BY <2>1 DEF Done, Written
  <2> QED
    BY <1>1, <2>1, <2>2, FS_EmptySet DEF Sorted, Counted
<1>4. CASE UNCHANGED <<docs, staged, inserted>>
  BY <1>1, <1>4 DEF Sorted, Counted, Done, Written
<1> QED
  BY <1>2, <1>3, <1>4 DEF IndexerNext, Import, Build, Detect, ReadFails, SkipLine, TakeDocument,
     EndOfFile, StageDocument, EndPass1, EndPass2, indexerVars

\* Every reachable state satisfies the inductive invariant.
THEOREM IndexerInvariance == IndexerSpec => []BuildInv
  BY BuildInit, BuildStep, PTL DEF IndexerSpec

----------------------------------------------------------------------------

LEMMA TypeInv ==
    ASSUME BuildInv
    PROVE  IndexerTypeOK
<1> USE DEF BuildInv, ImportInv, Types
<1>1. \A n \in DOMAIN docs : docs[n] \in Document
  <2>1. ASSUME NEW n \in DOMAIN docs PROVE docs[n].line \in 1..MaxLines
    BY LinesAssumption DEF Collected
  <2>2. ASSUME NEW n \in DOMAIN docs PROVE docs[n] \in Doc
    OBVIOUS
  <2> QED
    BY <2>1, <2>2 DEF Doc, Document
<1>2. \A r \in DOMAIN inserted : inserted[r] \in Document
  BY <1>1 DEF Sorted
<1> QED
  BY <1>1, <1>2 DEF IndexerTypeOK

\* Every reachable state is well typed.
THEOREM IndexerTyping == IndexerSpec => []IndexerTypeOK
<1>1. BuildInv => IndexerTypeOK
  BY TypeInv
<1> QED
  BY <1>1, IndexerInvariance, PTL

\* The rows are sorted by importance, and by their place in the file where that
\* does not tell.
THEOREM ResultsSorted == IndexerSpec => []ResultOrder
<1>1. BuildInv => ResultOrder
  BY DEF BuildInv, Sorted, Precedes, ResultOrder
<1> QED
  BY <1>1, IndexerInvariance, PTL

LEMMA FileOrderInv ==
    ASSUME BuildInv
    PROVE  SourceOrderKept
<1> SUFFICES ASSUME ~explicit, NEW r \in DOMAIN inserted, NEW s \in DOMAIN inserted, r < s
             PROVE  inserted[r].line < inserted[s].line
  BY DEF SourceOrderKept, Signal
<1> USE DEF BuildInv, ImportInv
<1>1. PICK m \in 1..staged : inserted[r] = docs[m]
  BY DEF Sorted
<1>2. PICK n \in 1..staged : inserted[s] = docs[n]
  BY DEF Sorted
<1>3. docs[m].importance = 1 - m /\ docs[n].importance = 1 - n
  BY DEF Defaulted, Types
<1>4. Precedes(docs[m], docs[n])
  BY <1>1, <1>2 DEF Sorted
<1> QED
  BY <1>1, <1>2, <1>3, <1>4 DEF Precedes, Collected, Types

\* Where no document has an importance of its own, the rows are in the order of the
\* file.
THEOREM FileOrder == IndexerSpec => []SourceOrderKept
<1>1. BuildInv => SourceOrderKept
  BY FileOrderInv
<1> QED
  BY <1>1, IndexerInvariance, PTL

LEMMA AllIndexedInv ==
    ASSUME BuildInv
    PROVE  EveryDocumentOnce
<1> SUFFICES ASSUME stage = "done" PROVE EveryDocumentOnce
  BY DEF EveryDocumentOnce
<1> USE DEF BuildInv, ImportInv
<1>1. /\ staged = Len(docs) /\ Len(inserted) = staged /\ staged \in Nat
      /\ at = Len(file) /\ DOMAIN file = 1..at /\ DOMAIN docs = 1..staged
  BY DEF Stages, Types
<1>2. Of({"doc"}) = Usable
  BY <1>1 DEF Of, Usable
<1>3. Of({"malformed", "hollow"}) = {n \in DOMAIN file : file[n].kind \in {"malformed", "hollow"}}
  BY <1>1 DEF Of
<1>4. Done = 1..staged
  <2>1. IsFiniteSet(1..staged) /\ Cardinality(1..staged) = staged
    <3>1. /\ IsFiniteSet(1..staged)
          /\ Cardinality(1..staged) = IF 1 > staged THEN 0 ELSE staged - 1 + 1
      <4>1. staged \in Int /\ 1 \in Int
        BY <1>1
      <4> QED
        BY <4>1, FS_Interval, Zenon
    <3> QED
      BY <1>1, <3>1
  <2>2. Done \in SUBSET (1..staged)
    BY DEF Done
  <2> QED
    BY <1>1, <2>1, <2>2, FS_Subset DEF Counted
<1>5. {inserted[r].line : r \in DOMAIN inserted} = Usable
  <2>1. ASSUME NEW r \in DOMAIN inserted PROVE inserted[r].line \in Usable
    BY <1>1 DEF Sorted, Collected, Usable
  <2>2. ASSUME NEW l \in Usable
        PROVE  \E r \in DOMAIN inserted : inserted[r].line = l
    <3>1. PICK n \in 1..staged : docs[n].line = l
      BY <1>1 DEF Usable, Collected
    <3> QED
      BY <1>4, <3>1 DEF Done, Written
  <2> QED
    BY <2>1, <2>2
<1> QED
  BY <1>1, <1>2, <1>3, <1>5 DEF EveryDocumentOnce, Tallied

\* A finished index holds every usable document once, and the count of the lines
\* that were none is right.
THEOREM AllIndexed == IndexerSpec => []EveryDocumentOnce
<1>1. BuildInv => EveryDocumentOnce
  BY AllIndexedInv
<1> QED
  BY <1>1, IndexerInvariance, PTL
----------------------------------------------------------------------------
(* The journal *)

LEMMA Euclid ==
    ASSUME NEW d \in Nat \ {0}, NEW a \in Nat
    PROVE  \E q \in Int, r \in 0..d - 1 : a = d * q + r /\ a % d = r
<1>1. \E q, r : q = a \div d /\ r = a % d
  OBVIOUS
<1>2. PICK q, r : q = a \div d /\ r = a % d
  BY <1>1, Zenon
<1>3. q \in Int /\ r \in 0..d - 1
  BY <1>2, SMT
<1>4. a = d * q + r
  BY <1>2, <1>3, SMT
<1> QED
  BY <1>2, <1>3, <1>4, Zenon

\* The last mark at or below n documents, in the recurrence that MarkEvery follows.
LEMMA NextResidue ==
    ASSUME NEW d \in Nat \ {0}, NEW a \in Nat, (a + 1) % d # 0
    PROVE  (a + 1) % d = (a % d) + 1
<1>1. PICK q \in Int, r \in 0..d - 1 : a = d * q + r /\ a % d = r
  BY Euclid
<1>2. PICK s \in Int, m \in 0..d - 1 : a + 1 = d * s + m /\ (a + 1) % d = m
  <2>1. a + 1 \in Nat
    OBVIOUS
  <2> QED
    BY <2>1, Euclid
<1>3. PICK k \in Int : k = s - q
  OBVIOUS
<1>4. d * k = r + 1 - m
  <2>1. d * q + r + 1 = d * s + m
    BY <1>1, <1>2
  <2>2. d * (s - q) = d * s - d * q
    OBVIOUS
  <2>3. d * q \in Int /\ d * s \in Int
    OBVIOUS
  <2> QED
    BY <1>3, <2>1, <2>2, <2>3
<1>5. (k >= 1 => d * k >= d) /\ (k <= -1 => d * k <= -d) /\ (k = 0 => d * k = 0)
  BY <1>3
<1>6. m = r + 1
  BY <1>2, <1>3, <1>4, <1>5
<1> QED
  BY <1>1, <1>2, <1>6

LEMMA SmallResidue ==
    ASSUME NEW d \in Nat \ {0}, NEW a \in Nat
    PROVE  /\ a < d => a % d = a
           /\ d % d = 0
  BY SMT

\* One more document, with or without a mark.
LEMMA MarkShows ==
    ASSUME NEW row \in Row, NEW n \in Nat, NEW total \in Nat, NEW stale,
           row.position = LastMark(n, stale)
    PROVE  MarkEvery(row, n + 1, total).position = LastMark(n + 1, stale)
<1> USE LinesAssumption
<1>1. CASE (n + 1) % JournalEvery = 0
  <2>1. MarkEvery(row, n + 1, total).position = n + 1
    BY <1>1 DEF MarkEvery, Marked, Row
  <2>2. ~(n + 1 < JournalEvery)
    BY <1>1, SmallResidue
  <2> QED
    BY <1>1, <2>1, <2>2 DEF LastMark
<1>2. CASE (n + 1) % JournalEvery # 0
  <2>1. MarkEvery(row, n + 1, total) = row
    BY <1>2 DEF MarkEvery
  <2>2. n + 1 # JournalEvery
    BY <1>2, SmallResidue
  <2>3. (n + 1) % JournalEvery = (n % JournalEvery) + 1
    BY <1>2, NextResidue
  <2>4. n % JournalEvery \in Int /\ JournalEvery \in Nat
    OBVIOUS
  <2> QED
    BY <2>1, <2>2, <2>3, <2>4 DEF LastMark
<1> QED
  BY <1>1, <1>2

\* Zero documents show nothing of their own.
LEMMA NothingShown == \A stale : LastMark(0, stale) = stale
  BY LinesAssumption DEF LastMark

LEMMA JournalInit == IndexerInit => JournalKeepsUp
  BY NothingShown, LinesAssumption DEF IndexerInit, JournalKeepsUp

LEMMA JournalStep ==
    ASSUME BuildInv, JournalKeepsUp, [IndexerNext]_indexerVars
    PROVE  JournalKeepsUp'
<1> USE LinesAssumption
<1>1. /\ extractRow \in Row /\ indexRow \in Row /\ Len(docs) \in Nat /\ staged \in Nat
      /\ Len(inserted) \in Nat
  BY DEF BuildInv, ImportInv, Types
<1> DEFINE PassOne == LastMark(staged, before.index.position)
<1>2. CASE TakeDocument
  <2>1. Len(docs') = Len(docs) + 1
    BY <1>2 DEF TakeDocument, BuildInv, ImportInv, Types
  <2>2. extractRow'.position = LastMark(Len(docs) + 1, before.extract.position)
    BY <1>1, <1>2, MarkShows DEF TakeDocument, JournalKeepsUp
  <2>3. Len(inserted) = 0
    BY <1>2 DEF TakeDocument, BuildInv, ImportInv, Stages
  <2> QED
    BY <1>2, <2>1, <2>2, <2>3 DEF TakeDocument, JournalKeepsUp, LastMark
<1>3. CASE StageDocument
  <2>1. Len(inserted) = 0 /\ UNCHANGED <<inserted, extractRow, docs, before>>
    BY <1>3 DEF StageDocument, BuildInv, ImportInv, Stages
  <2>2. indexRow.position = LastMark(staged, before.index.position)
    BY <2>1, NothingShown DEF JournalKeepsUp
  <2>3. indexRow'.position = LastMark(staged + 1, before.index.position)
    BY <1>1, <1>3, <2>2, MarkShows DEF StageDocument
  <2>4. indexRow'.position = LastMark(Len(inserted'), LastMark(staged', before'.index.position))
    BY <1>3, <2>1, <2>3, NothingShown DEF StageDocument
  <2> QED
    BY <2>1, <2>4 DEF JournalKeepsUp
<1>4. CASE InsertDocument
  <2>1. /\ indexRow' = MarkEvery(indexRow, Len(inserted) + 1, staged)
        /\ UNCHANGED <<docs, staged, extractRow, before>> /\ staged = Len(docs)
    BY <1>4 DEF InsertDocument, BuildInv, ImportInv, Stages
  <2>2. Len(inserted') = Len(inserted) + 1
    BY <1>4 DEF InsertDocument, BuildInv, ImportInv, Types
  <2>3. indexRow'.position = LastMark(Len(inserted) + 1, PassOne)
    BY <1>1, <2>1, MarkShows DEF JournalKeepsUp
  <2>4. Len(inserted) + 1 >= JournalEvery => indexRow'.total = Len(docs)
    <3>1. CASE Len(inserted) >= JournalEvery
      BY <1>1, <2>1, <3>1 DEF JournalKeepsUp, MarkEvery, Marked, Row
    <3>2. CASE Len(inserted) + 1 = JournalEvery
      BY <1>1, <2>1, <3>2, SmallResidue DEF MarkEvery, Marked, Row
    <3> QED
      BY <1>1, <3>1, <3>2
  <2> QED
    BY <2>1, <2>2, <2>3, <2>4 DEF JournalKeepsUp
<1>5. CASE EndOfFile
  BY <1>1, <1>5 DEF EndOfFile, JournalKeepsUp, Completed, Row
<1>6. CASE EndPass2
  BY <1>1, <1>6 DEF EndPass2, JournalKeepsUp, Completed, Row
<1>7. CASE Detect \/ ReadFails \/ SkipLine \/ EndPass1
  BY <1>7 DEF Detect, ReadFails, SkipLine, EndPass1, JournalKeepsUp
<1>8. CASE UNCHANGED indexerVars
  BY <1>8 DEF indexerVars, JournalKeepsUp
<1> QED
  BY <1>2, <1>3, <1>4, <1>5, <1>6, <1>7, <1>8 DEF IndexerNext, Import, Build

\* Past its first mark a pass shows the last mark it has passed; before it, the pass or
\* the build before, whatever that left.
THEOREM JournalFollows == IndexerSpec => []JournalKeepsUp
  BY JournalInit, JournalStep, IndexerInvariance, PTL DEF IndexerSpec
=============================================================================
