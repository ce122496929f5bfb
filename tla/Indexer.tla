------------------------------ MODULE Indexer ------------------------------
(***************************************************************************)
(* One build seen at the level of documents: import_jsonl reads a corpus   *)
(* line by line, build_index stages the documents and inserts them by      *)
(* importance.  The order of insertion is the order in which a search too  *)
(* broad to rank shows its results (index.rs:1-7).                         *)
(*                                                                         *)
(* Texts are abstracted: a line is what the importer tells apart, and a    *)
(* document is the line it came from and its importance.  Importances are  *)
(* integers; -0.0, the first default, compares equal to 0.                 *)
(***************************************************************************)
EXTENDS Integers, Sequences, FiniteSets, Journal

CONSTANTS
    Lines,        \* the lines a corpus may be made of
    Headers,      \* what detect_format may see of a file
    MaxLines,     \* bound: lines of a corpus
    JournalEvery,
    Leftovers     \* the job's rows as earlier builds may have left them

\* A line: "blank", "malformed" (no JSON document), "hollow" (empty title and
\* body), "unreadable" (not UTF-8) or "doc"; Default stands for no importance field.
Default == 1000
LineKind == {"blank", "malformed", "hollow", "unreadable", "doc"}

ASSUME LinesAssumption ==
    /\ \A l \in Lines : l.kind \in LineKind /\ l.importance \in Int
    /\ MaxLines \in Nat
    /\ JournalEvery \in Nat \ {0}
    /\ Leftovers \subseteq [extract: Row, index: Row]

VARIABLES
    file, header,  \* the corpus: its lines, and how it presents itself
    stage,         \* "detect", "import", "pass1", "pass2", "done", "failed"
    at,            \* lines read
    docs,          \* the documents collected, in file order
    skipped,       \* ImportStats.skipped
    explicit,      \* any_explicit_importance
    staged,        \* rows of the staging table
    inserted,      \* rows of the docs table, by rowid
    extractRow, indexRow,  \* the job's rows in the journal
    before         \* bookkeeping: those rows as this build found them

indexerVars ==
    <<file, header, stage, at, docs, skipped, explicit, staged, inserted, extractRow, indexRow, before>>

----------------------------------------------------------------------------

\* Content first, name second.
DetectFormat(h) ==
    IF h.magic THEN "zim"
    ELSE IF h.brace \/ h.ext = "jsonl" THEN "jsonl"
    ELSE IF h.ext = "zim" THEN "zim" ELSE "unknown"

\* Only JSONL can be imported.
Detect ==
    /\ stage = "detect"
    /\ stage' = IF DetectFormat(header) = "jsonl" THEN "import" ELSE "failed"
    /\ UNCHANGED <<file, header, at, docs, skipped, explicit, staged, inserted, extractRow, indexRow, before>>

Line == file[at + 1]

\* Reading a line fails, and with it the import.
ReadFails ==
    /\ stage = "import"
    /\ at < Len(file)
    /\ Line.kind = "unreadable"
    /\ stage' = "failed"
    /\ UNCHANGED <<file, header, at, docs, skipped, explicit, staged, inserted, extractRow, indexRow, before>>

\* A blank line is passed over; one that yields no document is counted.
SkipLine ==
    /\ stage = "import"
    /\ at < Len(file)
    /\ Line.kind \in {"blank", "malformed", "hollow"}
    /\ at' = at + 1
    /\ skipped' = IF Line.kind = "blank" THEN skipped ELSE skipped + 1
    /\ UNCHANGED <<file, header, stage, docs, explicit, staged, inserted, extractRow, indexRow, before>>

\* Mutant of Importance: the default counts up instead of down.
ImportanceAscending(line, documents) ==
    IF line.importance = Default THEN documents ELSE line.importance

\* An absent importance is descending by position.
Importance(line, documents) ==
    IF line.importance = Default THEN -documents ELSE line.importance

\* Mutant of MarkEvery: the mark is made one document early, with the new count.
MarkEarly(row, n, total) ==
    IF (n + 1) % JournalEvery = 0 THEN Marked(row, n + 1, total) ELSE row

\* A progress mark every JournalEvery documents.
MarkEvery(row, n, total) == IF n % JournalEvery = 0 THEN Marked(row, n, total) ELSE row

\* A document is handed to the builder.
TakeDocument ==
    /\ stage = "import"
    /\ at < Len(file)
    /\ Line.kind = "doc"
    /\ at' = at + 1
    /\ docs' = Append(docs, [line |-> at + 1, importance |-> Importance(Line, Len(docs))])
    /\ explicit' = (explicit \/ Line.importance # Default)
    /\ extractRow' = MarkEvery(extractRow, Len(docs) + 1, Len(docs) + 1)
    /\ UNCHANGED <<file, header, stage, skipped, staged, inserted, indexRow, before>>

\* The end of the file.  No usable document is an error after the extraction was
\* recorded as complete.
EndOfFile ==
    /\ stage = "import"
    /\ at = Len(file)
    /\ extractRow' = Completed(extractRow)
    /\ stage' = IF docs = <<>> THEN "failed" ELSE "pass1"
    /\ UNCHANGED <<file, header, at, docs, skipped, explicit, staged, inserted, indexRow, before>>

\* ImportStats.signal
Signal == IF explicit THEN "explicit" ELSE "source-order"

----------------------------------------------------------------------------

\* Mutant of StageDocument: goes one past the end of the documents.
StageOneMore ==
    /\ stage = "pass1"
    /\ staged <= Len(docs)
    /\ staged' = staged + 1
    /\ indexRow' = MarkEvery(indexRow, staged + 1, staged + 1)
    /\ UNCHANGED <<file, header, stage, at, docs, skipped, explicit, inserted, extractRow, before>>

\* Mutant of EndPass1: the transaction ends at the last mark, without the rest.
EndPass1AtMark ==
    /\ stage = "pass1"
    /\ staged + JournalEvery > Len(docs)
    /\ stage' = "pass2"
    /\ UNCHANGED <<file, header, at, docs, skipped, explicit, staged, inserted, extractRow, indexRow, before>>

\* Pass 1: one document into the staging table.
StageDocument ==
    /\ stage = "pass1"
    /\ staged < Len(docs)
    /\ staged' = staged + 1
    /\ indexRow' = MarkEvery(indexRow, staged + 1, staged + 1)
    /\ UNCHANGED <<file, header, stage, at, docs, skipped, explicit, inserted, extractRow, before>>

EndPass1 ==
    /\ stage = "pass1"
    /\ staged = Len(docs)
    /\ stage' = "pass2"
    /\ UNCHANGED <<file, header, at, docs, skipped, explicit, staged, inserted, extractRow, indexRow, before>>

\* Mutant of Before: ORDER BY importance DESC alone, which leaves ties to the sorter.
BeforeNoTie(m, n) == docs[m].importance >= docs[n].importance

\* ORDER BY importance DESC, rowid ASC
Before(m, n) ==
    \/ docs[m].importance > docs[n].importance
    \/ docs[m].importance = docs[n].importance /\ m <= n

Written(n) == \E r \in DOMAIN inserted : inserted[r] = docs[n]

\* Pass 2: the next row of the sorted staging table.
InsertDocument ==
    /\ stage = "pass2"
    /\ \E n \in 1..staged :
        /\ ~Written(n)
        /\ \A m \in 1..staged : ~Written(m) => Before(n, m)
        /\ inserted' = Append(inserted, docs[n])
    /\ indexRow' = MarkEvery(indexRow, Len(inserted) + 1, staged)
    /\ UNCHANGED <<file, header, stage, at, docs, skipped, explicit, staged, extractRow, before>>

EndPass2 ==
    /\ stage = "pass2"
    /\ Len(inserted) = staged
    /\ stage' = "done"
    /\ indexRow' = Completed(indexRow)
    /\ UNCHANGED <<file, header, at, docs, skipped, explicit, staged, inserted, extractRow, before>>

----------------------------------------------------------------------------

\* Nothing resets the rows of an earlier build of the same id.
IndexerInit ==
    /\ file \in UNION {[1..n -> Lines] : n \in 0..MaxLines}
    /\ header \in Headers
    /\ stage = "detect"
    /\ at = 0
    /\ docs = <<>>
    /\ skipped = 0
    /\ explicit = FALSE
    /\ staged = 0
    /\ inserted = <<>>
    /\ before \in Leftovers
    /\ extractRow = before.extract
    /\ indexRow = before.index

Import == Detect \/ ReadFails \/ SkipLine \/ TakeDocument \/ EndOfFile

Build == StageDocument \/ EndPass1 \/ InsertDocument \/ EndPass2

IndexerNext == Import \/ Build

IndexerSpec == IndexerInit /\ [][IndexerNext]_indexerVars

----------------------------------------------------------------------------
(* Properties *)

Document == [line: 1..MaxLines, importance: Int]

IndexerTypeOK ==
    /\ \A n \in DOMAIN file : file[n] \in Lines
    /\ stage \in {"detect", "import", "pass1", "pass2", "done", "failed"}
    /\ at \in 0..Len(file)
    /\ \A n \in DOMAIN docs : docs[n] \in Document
    /\ skipped \in 0..Len(file)
    /\ explicit \in BOOLEAN
    /\ staged \in 0..Len(docs)
    /\ \A n \in DOMAIN inserted : inserted[n] \in Document
    /\ extractRow \in Row /\ indexRow \in Row
    /\ before \in Leftovers

\* The lines of a file a document can be made of, by the definition of the format.
Usable == {n \in DOMAIN file : file[n].kind = "doc"}

\* A finished index holds every usable document exactly once, whatever blank,
\* malformed or empty lines lie between them, and every other non-blank line was
\* counted as skipped (import.rs:78-92, index.rs:96-143).
EveryDocumentOnce ==
    stage = "done" =>
        /\ {inserted[r].line : r \in DOMAIN inserted} = Usable
        /\ Len(inserted) = Cardinality(Usable)
        /\ skipped = Cardinality({n \in DOMAIN file : file[n].kind \in {"malformed", "hollow"}})

\* At every moment of pass 2 the rows are sorted by importance, and documents of
\* equal importance, given or by default, keep the order of the file
\* (index.rs:46-52, 118-127).
ResultOrder ==
    \A r, s \in DOMAIN inserted :
        r < s => \/ inserted[r].importance > inserted[s].importance
                 \/ /\ inserted[r].importance = inserted[s].importance
                    /\ inserted[r].line < inserted[s].line

\* When the manifest says "source-order", the results are in the order of the file
\* (import.rs:98-100, 121-133).
SourceOrderKept ==
    (stage = "done" /\ Signal = "source-order") =>
        \A r, s \in DOMAIN inserted : r < s => inserted[r].line < inserted[s].line

\* What a row shows of n documents done: the last mark of this pass or, before its
\* first, what the row showed already.
LastMark(n, stale) == IF n < JournalEvery THEN stale ELSE n - (n % JournalEvery)

\* From the first mark of a pass on, the journal shows the last multiple of
\* JournalEvery that the work has passed.  Before it, it shows what was there: in
\* pass 2 the last mark of pass 1, and in a rebuild the numbers of the build before,
\* which are ahead of the work (import.rs:112-116, index.rs:106-113, 138-140,
\* journal.rs:117-123).
JournalKeepsUp ==
    /\ extractRow.position = LastMark(Len(docs), before.extract.position)
    /\ indexRow.position = LastMark(Len(inserted), LastMark(staged, before.index.position))
    /\ Len(inserted) >= JournalEvery => indexRow.total = Len(docs)

\* import.rs:8: JSONL "survives a truncated last line"; tests/import.rs:108 calls it
\* "skipped not fatal".  A corpus whose only defect is its last line is indexed.
TruncatedTailSurvives ==
    (/\ stage = "failed"
     /\ DetectFormat(header) = "jsonl"
     /\ Usable # {})
        => \E n \in DOMAIN file : n < Len(file) /\ file[n].kind = "unreadable"
=============================================================================
