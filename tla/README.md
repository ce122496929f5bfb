# SwissBunker in TLA+

SwissBunker turns a portable disk into a searchable offline library. `swissbunkerd` (Rust,
`crates/swissbunkerd`) imports a corpus that is already on the disk, builds an SQLite full-text
index from it and describes the index in `manifest.json`. A dashboard (`web/src/console`) asks the
daemon for builds and follows them. A reader (`web/src/ui`, `search`, `sqlite`, `io`) opens the
index in a browser, with or without a daemon, through a read-only VFS and a page cache.

This directory holds TLA+ models of those parts, TLC configurations that check them on small
instances, and proofs that TLAPS checks for every value of the constants.

    tlc -config forge_safety.cfg MCForge.tla      # one run; the list is below
    tlapm ForgeProofs.tla                         # one proof module

## The system

| component | code | state | operations | modelled in |
|---|---|---|---|---|
| Journal | `journal.rs` | one row per job and stage: position, total, done, error; SQLite's lock on the file | open, mark, complete, failed, all_progress (reset, resume_point: never called) | `Journal`, lock and open in `Forge` |
| Manifest | `manifest.rs` | the entries of `manifest.json`, a temporary file | new, load, add, save | `Forge`, promise in `Catalogue`, the medium in `PowerLoss` |
| Daemon build | `api.rs` post_build, run_build | `busy`, one blocking thread per accepted build | accept or refuse, run, record a failure, release | `Forge` |
| Command line | `main.rs` cmd_build (cmd_status only reads) | its thread | run once, exit | `Forge` |
| Importer | `import.rs` | lines read, documents, skipped lines | detect the format, read a line, finish | `Indexer` (documents), `Forge` (marks) |
| Index builder | `index.rs` | the index file, staging rows, inserted rows | remove, open, schema, pass 1, pass 2, finish, complete | `Indexer` (documents), `Forge` (files), `Health` (its lock) |
| Read endpoints | `api.rs` get_state, get_manifest, get_health | none | read the manifest, probe the indexes | `Console` (state, manifest), `Health` (health) |
| Progress stream | `api.rs` get_progress | the last payload sent, per connection | poll, send on change | `Console` |
| Console | `console.ts` | mode, board, list, summary, button, requests in flight | detect, refresh, handle an event, submit a build, reload | `Console` |
| Page cache | `page-cache.ts` | pages in order of use, counters | readSync, load, touch, evict, clear | `PageCache` |
| Byte sources | `source.ts` | none | clamped read, or refusal | promise in `ByteSource`, `PageCache!SourceRead`, `MissNull` |
| VFS and database | `vfs.ts`, `open.ts` | the registered VFS, the cache | xRead; open, query, close | `PageCache!XRead`; loading and opening in `Reader` |
| Search | `fts.ts` | none | sanitise; count, ranked or unranked page | `Query` (sanitise) |
| Reader page | `app.ts` | the open database and index, the debounce timer | pick a disk, search | `Reader` |
| Request validation | `api.rs` resolve_corpus, sanitise_id | none | accept or refuse | as the refusal `Console!Refused` |
| Static files and binding | `api.rs` router_with_app, bind | none | serve files, refuse an address | not modelled |
| Installer, build scripts, spikes | `bootstrap`, `web/tools`, `spikes` | none | sequential file copies, probes | not modelled |

How they interact. The daemon and the command line share nothing but the disk: they exclude each
other through the journal's lock, and hand over results through the index files and the manifest.
Inside a daemon, requests share `AppState.busy`. The page learns of a build only through the journal
(sampled four times a second, sent when it changed), and of its result only through the manifest,
which it reads again when every row of the journal is done or failed. The reader shares only the
index file. GET health opens the very files that builders remove and write.

What is hard here:

- two processes running the same read-modify-write of `manifest.json`, kept apart by a lock
  that neither takes explicitly: it is a side effect of writing to the journal;
- a rebuild that removes the old index first, and crashes or errors at any later step;
- failures while recording failures, and a flag that must be released whatever fails;
- a page that acts on "the pipeline went quiet" while the pipeline still has a step to do;
- requests of the page that overlap and are answered in any order;
- result order that depends on insertion order and on a sort with ties;
- a cache that evicts while a read is under way, at every alignment of read and page;
- a health check that opens, locks and may create the file a build is replacing;
- files that are never flushed, on a disk that is pulled out;
- picks of a disk that overlap while one module loads, and a timer that races keystrokes;
- free text that must become a valid query, whatever was typed.

`PROJECT.json` lists the hazards line by line, with the properties that watch each of them or the
reason why none does yet.

### What makes each component correct

- Journal: a row that says done or failed is right about the files; whoever writes is alone.
- Manifest: one entry per id, no entry lost, every entry describes its index.
- Build pipeline: one builder at a time on a disk, every accepted build ends, a good one lands, a
  failed one is visible.
- Importer and index builder: every usable document exactly once, in order of importance and then
  of the file; the journal within JOURNAL_EVERY documents of the work from the first mark of a pass on.
- Progress stream and console: the board catches up with what can be read of the journal; nothing is listed that the
  manifest does not describe; the button comes back.
- GET health: no false alarm and no false number about an index that was whole all along.
- Page cache: the right bytes or a refusal, at most the ceiling, least recently used goes first.
- Reader page: one module, the last pick that opened is searched, the list answers the box, no pick
  hangs.
- Search: a valid expression that loses no letter, no word and no phrase.

## Modules

    Journal ------- Forge ------- Console --------- ConsoleProofs
       |            |   \  \
       |            |    \  PowerLoss ---- Health -- HealthProofs -- ProbeProofs
       |            |     Catalogue (abstract)
       |            ForgeProofs (extended by the three proof modules to the right)
       |
    Indexer ------- IndexerProofs

    ByteSource (abstract)
       |
    PageCache ----- PageCacheProofs

    Reader -------- ReaderProofs            Query ----- QueryProofs

    MCForge, MCConsole, MCHealth, MCReader: instances of one module each for TLC
    MCSequential: an instance of Indexer, PageCache and Query, which run by themselves

**Journal** has no state. Each SQL statement of `journal.rs` is an operator on one row (`Marked`,
`Completed`, `Failed`), with the columns it sets and, as important, those it leaves alone. Error
texts are reduced to whether there is one.

**Catalogue** is the abstract specification of the disk: per id at most one description, at most
one builder, which publishes its own description in one step or gives up.

**Forge** is the build pipeline: any number of daemons and command lines with their threads. A step
is what another process or a crash can tell apart: one write to the journal, to an index file or to
the manifest. Documents are counted; a corpus is its number of usable documents and whether it can
be read to its end.

- `lock`, `CanRead`, `CanWrite`, `WriteJournal`, `BusyJournal` model SQLite in EXCLUSIVE locking
  mode: the first read takes SHARED, the first write EXCLUSIVE, nothing is given back before the
  connection closes, and a writer that gives up while readers stay holds PENDING. It is external
  code, modelled from what `journal.rs` sets and relies on.
- `OpenJournal`, `CreateTable`, `OpenBusy` are `Journal::open`: on a disk whose table exists it only
  reads, on a new one it writes. So two processes may both have the journal open, in SHARED; while
  they do neither can write, and a build in either fails at its first mark.
- `PostBuild`, `RecordFailure`, `DropFailure`, `Release` are post_build, `CliBuild` and `Exit`
  cmd_build. `ImportMark` to `RenameManifest` are the steps of run_build in their order.
- `IOFail` is an error of any disk operation, `Crash` the end of a process at any point,
  `JournalBusy` a journal write that meets another process's lock. A transaction that was open is
  rolled back, which is why an index file changes only when a transaction commits.
- `pc` holds each thread's place, `job`, `corpus`, `count` and `loaded` its local variables. `torn`
  and `started` belong to the model: the ids whose index was removed and not described again, and
  the bound on builds.

**PowerLoss** puts Forge on a disk that can lose power. The journal commits with SQLite's default
`synchronous`, so it is on the medium; the code flushes neither the index (`synchronous = OFF`) nor
the renamed manifest. `stable` is the manifest on the medium, `cached` the ids with writes that are
not there yet. `Blackout` leaves the manifest as it was, as it is on the medium, or under its name
without its contents (`half`), damages what was cached, and ends every process. `LoadFails` is
Manifest::load of such a file: an error, never a new manifest. That such a file can exist at all is
what `ManifestAtomic` refutes, and `DurablyDescribed` says what holds nevertheless. Each `BuildStep` is a step of Forge
with its effect on the cache, so the module adds the medium and changes nothing else.

**Health** composes PowerLoss with one GET health at a time of the daemon `Prober`, which goes through the
entries of the manifest it loaded: `Found` and `Missing` are `exists`, `Open` is Connection::open
(which creates a file removed in between), `Query` the count and the MATCH under one lock, `Close`
the end of the connection. A build holds the new index EXCLUSIVE from its first write until it
closes it (`IndexLocked`), a probe holds SHARED from its query on (`ProbeHolds`); each waits for the other
and gives up after the busy timeout (`QueryBusy`, `BuilderBusy`). `gone` is a file removed while the
probe has it open, which POSIX keeps for it. `doubtful` belongs to the model: the ids torn or
damaged at some time during the request.

**Console** composes Forge with one page: the stream in the daemon (`conn`, `previous`), the events
on their way (`stream`), what is shown (`board`, `list`, `summary`, `button`) and the
refreshCorpora calls in flight (`calls`), each of which asks for the manifest and then for the state.
The answers arrive in any order. A read of the journal or of the manifest may fail: the stream sends
the error in place of the rows (`PollFails`), which the page takes for no jobs at all, and a request is
answered with an error (`AnswerFails`), in which the page finds no corpora. A page whose first request
fails is portable until it is reloaded. A crash of the daemon takes its stream and its unanswered
requests with it; a reload takes everything the page knew.

**Indexer** is one build document by document. A line is what the importer tells apart: blank,
malformed, hollow (empty title and body), not UTF-8, or a document with or without an importance.
Importances are integers, which order like the numbers the code compares. The journal's rows start as
an earlier build of the same id left them (`Leftovers`), since nothing resets them; `before` remembers
them for the properties. The sort of pass 2 is
the choice of a row that comes before all others left.

**PageCache** represents a byte by its position in the source, so a wrong byte is a wrong number. A
read goes page by page; `Hit`, `Miss` and `MissNull` are what happens to one page, and the copy into
the buffer is part of the step. The branch for a read inside one page returns what the general loop
would. `order` is the Map's insertion order, `recent` and `dropped` are bookkeeping of the model,
against which the order and the counters are compared.

**ByteSource** is the abstract specification of the interface the cache reads from and, towards
SQLite, offers again: a read is asked for and then answered once, with the bytes of its range or with
null. `PageCache!Reads` maps a read under way to `asked` and its answer to `result`; pages, order and
counters are hidden.

**Reader** is the page of the reader. Events (a pick, a keystroke, a timer, the end of the module's
load) run to their end; what they leave behind an `await` is in `waiting` while the module loads and
then in `micro`, the queue of microtasks, which is emptied before the next event. A pick is its
number; whether its file opens is chosen when it is picked. `OpenDatabase` registers the VFS and may throw,
`Show` and `ShowError` are the rest of the handler. Any search of an open database may throw
(`SearchThrows`): opening reads little of the file, which may be no index, be damaged, be replaced by a
rebuild, or refuse a read.

**Query** is sanitiseQuery on characters reduced to five classes: what its two regular expressions
and FTS5's lexer tell apart. `Pull` is the global match for balanced quotes with its leftmost
scan, `Split`, `Kept`, `Term` the chain on the rest. Each walk over a sequence is a recursive function
whose value at i is the state after i steps, with the step an operator of its own (`ScanStep`,
`TokenStep`, `TermStep`, `JoinStep`), which is what the proofs are about. `ValidMatch` is an independent
recogniser of the expressions FTS5 takes for a list of strings; anything else outside a string would be
an operator or an error.

## Runs

| run | checks | bounds |
|---|---|---|
| `forge_safety` | `TypeOK`, `OneBuilder`, `NoLostUpdate`, `UniqueEntries`, `EntriesMatchIndex`, `NeverForgotten`, `ImplementsCatalogue` | a daemon with two threads, a command line, 2 ids, corpora of 1 and 3 documents and an unreadable one, a mark every 2, 3 builds, I/O errors and crashes |
| `health` | `BusyEnds`, `BuildLands`, `DurablyDescribed`, `HealthRight` | a daemon that builds and probes with one thread each, a command line, 2 ids, a corpus of one document, a mark at every document, 3 builds, crashes, power losses at any step |
| `console` | `ConsoleTypeOK`, `ListIsBacked`, `BoardFollowsJournal`, `ButtonReturns` | a daemon of one thread, a page, 1 id, a good corpus and an empty one, 2 builds, crashes, reads of journal and manifest that fail, 1 event and 2 refreshes in flight |
| `sequential`, builds | `IndexerTypeOK`, `EveryDocumentOnce`, `ResultOrder`, `SourceOrderKept`, `JournalKeepsUp` | every file of up to 5 lines out of 7 (blank, malformed, hollow, not UTF-8, a document of importance 5, -1 or none), 4 ways a file presents itself, a mark every 2, a journal without rows, of a build of 4 documents that finished, or of an import that failed after a mark |
| `sequential`, reads | `TypeOK`, `PagesExact`, `AnswerExact`, `XReadHonest`, `CeilingHeld`, `LeastRecentlyUsedGoes`, `StatsAddUp`, `ReadsTheSource` | 7 bytes in pages of 2, a ceiling of 2 pages, of a page and a half or of less than a page, reads with every offset up to 7 and lengths 0 to 3, 5 and 8, new reads until 5 pages were looked up |
| `sequential`, queries | `QueryValid`, `LettersKept`, `PhrasesSurvive` | every text of up to 7 characters out of 5 classes |
| `reader` | `TypeOK`, `OneInit`, `AnswersTheBox`, `LastPickWins`, `PicksSettle` | 3 picks, each of a file that opens, of one that does not or of nothing, a module that loads or fails, 3 texts, one too short |

`sequential` is one run of three systems that share nothing: `MCSequential!running` says which of them a
behaviour is of, and the variables of the other two stay as they were.

Why these bounds are enough. Two processes are the smallest number that race, and a third thread
makes `busy` matter besides the lock. A third build lets two finish, or fail, before the one
that is interleaved. A corpus of three documents with a mark every two has a mark in the middle of
each pass; one of a single document has none, the case in which `complete` is the first write to
the journal. Two ids are needed for one build to lose the entry of another. Two
refreshes in flight are the smallest number that overtake each other. In `health` the third build is
what meets a manifest broken by the loss of the second, with the entry of the first on the medium. Its
one corpus means that a rebuild of an id that is described already gives the same entry, so what
`BuildLands` says there is about first builds; a second corpus is beyond what the run can explore, and
that a rebuild replaces its entry is in `NoLostUpdate` and `EntriesMatchIndex`.
Two picks can overlap with a third before or after them. Seven characters hold a phrase, what is
between two phrases and a stray quote, or a token with stars before, inside and after it. Five lines hold two
marks and a document after the last one, or a defect before, between and after documents that tie:
-1 is above, equal to and below the default importances 0, -1, -2, so that explicit and default
ones tie. The rows an earlier build left stand beyond the first mark, at it, or are not there.
Seven bytes in pages of two end with a short page, so that page sizes differ and reads over one to four pages evict pages of their own; the lengths left out cover no other set of pages.
Symmetry is used in `forge_safety` only, between the two threads of the daemon: its two temporal
properties are safety properties that no exchange of threads changes.

Deadlock is checked where something is always possible (`forge_safety`, `health`, `console`: a
process can start or crash, a page can be opened). It is not where the system may stop: every build
started and no fault allowed, a corpus indexed, no more reads, texts or picks. In `health`
that a builder and a probe never wait for each other for ever is part of `BusyEnds`, too.

`BusyEnds` and `BuildLands` speak of Forge and are checked in `health`, where a build can fail in
more ways: on the journal's lock, on a probe's lock, on a broken manifest, with its process or with
the power. I/O errors at every step are in `forge_safety`.

### Runs that refute a statement of the sources

Each checks one sentence of a comment or a test against what the code does. `PROJECT.json` quotes
them under "findings".

| run | the statement | what happens |
|---|---|---|
| `forge_journal_truth` | the journal is the source of truth and survives a crash (api.rs:55-56) | a rebuild keeps `done` of the build before; after a crash the journal says done and the index is gone |
| `forge_idle_quiet` | a finished or failed job makes the pipeline quiet (console.ts:177-178) | a failed import leaves its extract row neither done nor failed, since failures go to the index stage |
| `forge_failure_recorded` | "The failure is recorded where the dashboard already looks" (api.rs:305) | when the journal's lock is what failed, recording fails too and is dropped |
| `console_list` | the list is refreshed when the pipeline goes quiet (console.ts:177-178) | the last event precedes the write of the manifest; the list stays stale until the next build or reload |
| `manifest_half` | "the manifest is either the old one or the new one, never half of either" (manifest.rs:112-113, 102-103) | the temporary file is renamed without being flushed: after a power loss the name may be on the medium and the contents not |
| `query_literal` | "everything else is escaped to a literal term" (fts.ts:52-53, with `l'acqua` as the case at fts.ts:50) | an apostrophe between letters is deleted and the words on both sides become one: `"lacqua"` matches neither of the tokens the index holds |
| `indexer_truncated` | "survives a truncated last line" (import.rs:8, tests/import.rs:108) | cut inside a multi-byte character, the line is not UTF-8 and ends the import |

## Fairness

`Forge!FairSpec` is weak fairness of each thread's own steps: the operating system runs it, and the
steps of the pipeline never wait for anyone (a journal that is locked is an error, not a wait).
Starting a process, asking for a build, failing and crashing are never obliged. `Health` keeps it for a
thread that may have to wait for a probe: it goes on when the probe is done or gives up after the busy
timeout, and the probe itself goes on likewise. `Console` adds weak
fairness of the poll timer, of the delivery of events and answers, of the browser's
reconnection (which EventSource does by itself) and of the end of a POST. Nobody is obliged to open a
page, to press the button or to restart a daemon, and no read of the journal is obliged to fail or to
stop failing: the poll is fair while the last read succeeded, so a journal that cannot be read leaves
the board empty for as long as that lasts, and `BoardFollowsJournal` says so.
In `Reader` the
event loop runs its microtasks, the load of the module ends one way or the other, and a timer that is
not cleared fires; nobody has to pick or to type. `Indexer`, `PageCache` and `Query` need none: they
are sequential loops over finite data, of which only safety is stated.

## Proofs

`ForgeProofs` proves for every set of daemons, command lines, threads, ids and corpora, every interval
between marks and every set of faults, from the named assumptions of `Forge` (a command line has
one thread, corpora have a number of documents, the two kinds of process differ):

| theorem | states |
|---|---|
| `Typing` | `Spec => []TypeOK` |
| `MutualExclusion` | `Spec => []OneBuilder` |
| `ReadModifyWrite` | `Spec => []NoLostUpdate` |
| `OneEntryPerId` | `Spec => []UniqueEntries` |
| `Faithful` | `Spec => []EntriesMatchIndex` |
| `Remembers` | `Spec => NeverForgotten` |
| `Implementation` | `Spec => ImplementsCatalogue` |

`OneBuilder` is not inductive: nothing in it says why a second process cannot come in. The inductive
invariant `IInv` adds it. A build completes its extract row before it touches a file, and that
write leaves its process with the journal's EXCLUSIVE lock until the process ends (`HoldsJournal`),
while no other process holds any (`LockSound`). So two builders are two threads of one process; a
command line has one and a daemon runs one at a time (`OneThread`, `BusySet`). With one builder,
what it loaded of the manifest is still there when it writes (`NoLostUpdate`), and the index it
finished is still there when it is described (`IndexOwned`, `EntriesMatchIndex`). `StepInv` has one
step per group of actions; the action property and the refinement follow from the same invariant, the
refinement by showing that each step begins, publishes, abandons or leaves the catalogue alone.

What the proof rests on is worth saying: the exclusion of two processes is the journal's lock, and
only because the first write of a build comes before its first file. A change that dropped the
extract row would break it.

`PageCacheProofs` proves for every size of source, page and ceiling and every read:

| theorem | states |
|---|---|
| `PagesOfTheSource` | `Spec => []PagesExact` |
| `ReadsAreExact` | `Spec => []AnswerExact` |
| `ShortOnlyAtTheEnd` | `Spec => []XReadHonest` |
| `UnderTheCeiling` | `Spec => []CeilingHeld` |
| `EvictionIsLRU` | `Spec => []LeastRecentlyUsedGoes` |
| `EveryPageCounted` | `Spec => []StatsAddUp` |
| `TypeCorrect` | `Spec => []TypeOK` |
| `CacheIsTransparent` | `Spec => ReadsTheSource` |

The loop invariant `ReadInv` says that the bytes before the current page are copied and right, and
that the page overlaps what is left. The arithmetic of pages is in three lemmas (`DivBounds`,
`PagesApart`, `Overlap`). Eviction does not enter there: it only takes pages away.

It is what the other theorems are about. `LeastRecentlyUsedGoes` is not inductive: a hit moves a page to
the end of both sequences, and they only stay aligned if the page is once in each. `OrderInv` says that the
pages used since a clear are listed without repetition, that the Map's order is a suffix of that list
(`Suffix`), that it lists exactly the Map's keys, and that the ceiling holds. `Evicted` is what
evict's loop leaves: a suffix that is not empty, and that fits unless it is one page. `Moved` and
`SuffixMoved` are about delete-then-set. `CountInv` follows the counters; an eviction counts as many pages
as the order gets shorter. For the refinement (`StepReads`) Begin is `Ask` or `AskNothing`, the copy of
the last page is `Serve`, which needs `ReadsAreExact`, `MissNull` is `Refuse`, and every other step is
invisible to the caller.

`QueryProofs` proves for every text, of any length (`MaxLength` is any number), the properties the
`sequential` run checks on texts of up to seven characters:

| theorem | states |
|---|---|
| `AlwaysValid` | `QuerySpec => []QueryValid` |
| `NeverLost` | `QuerySpec => []LettersKept` |
| `AlwaysSurvive` | `QuerySpec => []PhrasesSurvive` |

These are inductions along recursive functions, and the library's induction theorems take an operator,
which no prover here instantiates. The proofs go around it with sets: `Upto` says that a set that
holds 0 and the successor of each of its members up to n holds all of 0 .. n (by well-foundedness, as a
fact about the set), and `FoldExists` that a function defined by a start and a step exists, which gives each
walk of `Query` its recursive equation (`ScanFold`, `SplitFold`, `TermsFold`, `JoinFold`, `BalanceFold`).
What is left is one lemma per step. Validity: every piece is a quoted string without a quote inside
(`Piece`), and the lexer, read as a relation between states (`Leads`), goes through one piece, the space and
the next. Letters: `Holds` counts the letters of a sequence of texts, and each step loses none (`ScanLoses`,
`TokenLoses`, `LettersTerm`). Phrases: the scan jumps behind a phrase when it meets its opening quote, the
reader of the text waits for the closing one; `Agree` is the relation between the two at every character,
and it breaks exactly where a pair of quotes is empty.

The proof also found a fault of the model. The arms of the CASE in `LexStep` overlapped, and TLA+
leaves open which of them is taken; TLC takes the first, so a run cannot show it. The guards are
disjoint now, and the lexer the runs check and the one the proofs are about are the same.

`ConsoleProofs`, `HealthProofs` and `ProbeProofs` build on `ForgeProofs`, for every value of the
constants of theirs:

| theorem | states |
|---|---|
| `ConsoleTyping` | `ConsoleSpec => []ConsoleTypeOK` |
| `NothingVanishes` | `ConsoleSpec => []ListIsBacked` |
| `NeverOverwritten` | `HealthSpec => DurablyDescribed` |
| `OneBuilderAlways` | `HealthSpec => []OneBuilder` |
| `HealthIsRight` | `HealthSpec => HealthRight` |

`NothingVanishes` needs more than the list: an answer on its way, too, must be one the manifest still
backs, and no step makes the manifest forget an id (`StepRemembers`, the lemma behind `Remembers`).
Across power losses, `NeverOverwritten` says that a manifest that parses describes all that reached
the medium, and that one that does not is never written over. The part of `IInv` about locks and the
manifest still holds (`PInv`): exclusion rests on the journal, which is durable. What it needs besides is that no build stands between its load and
its rename while the manifest is broken (`HalfStops`): a build that could replace a ruin loaded what it
writes when the manifest was whole. For `HealthIsRight` the invariant `HInv` says that the entries of
the manifest, of the medium and of the request describe their index unless it is torn, damaged or
noted as doubtful, and that a file the probe has open stays in the directory unless it is
doubtful (`StaysInPlace`).

`IndexerProofs` proves for every set of lines, every corpus, every interval between marks and whatever
rows an earlier build left:

| theorem | states |
|---|---|
| `IndexerTyping` | `IndexerSpec => []IndexerTypeOK` |
| `ResultsSorted` | `IndexerSpec => []ResultOrder` |
| `FileOrder` | `IndexerSpec => []SourceOrderKept` |
| `AllIndexed` | `IndexerSpec => []EveryDocumentOnce` |
| `JournalFollows` | `IndexerSpec => []JournalKeepsUp` |

`ResultOrder` is not inductive: it needs that whatever is not yet inserted comes after everything that is.
`FileOrder` needs that without explicit importances the collected ones strictly descend, and
`JournalFollows` the largest multiple of JOURNAL_EVERY that the work has passed. The journal is *not*
always behind the work: before the first mark of a rebuild its rows show the numbers of the build
before, and before the first mark of pass 2 the index row shows the last mark of pass 1. `JournalKeepsUp`
states both, and that the row shows the last multiple passed from the first mark of a pass on.

`ReaderProofs` proves for every set of texts and every number of picks:

| theorem | states |
|---|---|
| `ReaderTyping` | `Spec => []TypeOK` |
| `ModuleOnce` | `Spec => []OneInit` |
| `LaterPickWins` | `Spec => LastPickWins` |
| `ListAnswersBox` | `Spec => []AnswersTheBox` |

`LastPickWins` is about order. Picks wait for the module in the order they were made
(`WaitingOrder`); in the queue of microtasks what is to be opened stands before what is to be shown,
the first is in order and so is the second, and the second is older than the first (`MicroOrder`,
which a microtask keeps when it moves from the head to the end). What is shown next is
therefore later than what is searched now (`Later`).

Every invariant and every safety property of the passing runs is thus a theorem. Only model-checked is
what needs fairness (`BusyEnds`, `BuildLands`, `BoardFollowsJournal`, `ButtonReturns`,
`PicksSettle`), since the prover has no ENABLED. The seven runs that refute a statement need no proof: a
counterexample is one.

## Not modelled

- Texts: titles, bodies, error messages, names, languages, rendering.
- `index_bytes`, `snapshot`, `sha256`, the importance signal in the manifest (in `Indexer` as
  `Signal`), and the order of the manifest's list, which its set of entries determines.
- Between the manifest on the medium and the current one a power loss could also leave one in
  between, when several were renamed since the last write-back; `Blackout` chooses between the two
  and a broken one.
- What a damaged index answers: any verdict is allowed, and `HealthRight` exempts it.
- A panic of the build thread, and the poisoned mutex that would follow.
- The repair of a manifest that cannot be parsed: no program of the repository does it.
- Ids that differ in case only: on exFAT they are one index file, for the manifest two corpora.
- The SQL of the search: count, ranked and unranked page are reads of an index that does not change.
- The engine's answer to a failed synchronous read (status 0 without a text): outside the code.
- The bytes SQLite sees when the file behind an open page is replaced or damaged: only that a search may
  throw, which `AnswersTheBox` exempts.
- Empty pairs of quotes in `PhrasesSurvive`: there the second quote opens the next phrase, and the code
  departs from the comment at fts.ts:52-53.
- `db.close` and `dispose`, which the page never calls; request validation, argument parsing and the
  static file service, which decide once and keep no state.
- The installer, the build scripts, the spikes and the test pages.

## What remains

1. An instance of Forge in which two ids share an index file, as on exFAT.
2. The bytes of an index in time, under Reader and PageCache together, with a rebuild that replaces
   the file between two page reads.
3. The words of an expression beside those of the text, in their order, where no character is deleted
   between letters: `WordsKept` counts them, and `LettersKept` is proved of the letters only.
4. Two good corpora in `health`, so that `BuildLands` tells a rebuild from what was described before.
