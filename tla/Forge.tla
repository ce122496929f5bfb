------------------------------- MODULE Forge -------------------------------
(***************************************************************************)
(* The build pipeline of swissbunkerd: every process that can build on one *)
(* bunker disk, the state they share on it and the steps in which they     *)
(* change it.                                                              *)
(*                                                                         *)
(* A daemon (`swissbunkerd serve`) runs POST /api/build on a blocking      *)
(* thread, guarded by AppState.busy; a command line (`swissbunkerd build`) *)
(* runs the same pipeline once and exits.  Both open .state/journal.db in  *)
(* SQLite's EXCLUSIVE locking mode, and that lock is the only thing two    *)
(* processes share besides the files.                                      *)
(*                                                                         *)
(* One action is one step whose effect another process, or a crash, can    *)
(* see: a write to the journal, to an index file or to the manifest.       *)
(* Documents are counted, not represented; a corpus is its number of       *)
(* usable documents and whether the file can be read to its end.           *)
(***************************************************************************)
EXTENDS Naturals, Journal

CONSTANTS
    Daemons,      \* processes running `serve`
    Clis,         \* processes running `build`
    Tasks,        \* threads that can run the pipeline
    Owner,        \* the process each task belongs to
    Ids,          \* corpus ids
    Corpora,      \* corpus files on the disk
    Docs,         \* usable documents read before the end, or before the unreadable line
    Readable,     \* whether the file can be read to its end
    JournalEvery, \* JOURNAL_EVERY: documents between two progress marks
    Faults,       \* what the environment may do: "io", "crash"
    MaxBuilds,    \* bound: builds started in one behaviour
    NoId, NoCorpus

Procs == Daemons \cup Clis

ASSUME ProcsAssumption ==
    /\ Daemons \cap Clis = {}
    /\ Owner \in [Tasks -> Procs]
    \* a command line has one thread
    /\ \A t, u \in Tasks : Owner[t] \in Clis /\ Owner[t] = Owner[u] => t = u

ASSUME CorpusAssumption ==
    /\ Docs \in [Corpora -> Nat]
    /\ Readable \in [Corpora -> BOOLEAN]
    /\ NoCorpus \notin Corpora
    /\ NoId \notin Ids

ASSUME BoundAssumption ==
    /\ JournalEvery \in Nat \ {0}
    /\ MaxBuilds \in Nat
    /\ Faults \subseteq {"io", "crash"}

VARIABLES
    \* --- on the disk ---
    table,     \* whether journal.db holds the progress table
    progress,  \* the progress table
    index,     \* index/<id>.sqlite, per id
    manifest,  \* the entries of manifest.json ({}: no file)
    tmp,       \* the entries of manifest.json.tmp
    \* --- SQLite's lock on journal.db, per process ---
    lock,
    \* --- in the processes ---
    proc,      \* "off", "opening" (inside Journal::open), "up"
    busy,      \* AppState.busy
    pc, job, corpus,   \* per task: where it is, the id and the file it builds
    count,     \* per task: documents read, staged or inserted in this pass
    loaded,    \* per task: the manifest in memory, the new entry added
    \* --- bookkeeping of the model ---
    started,   \* builds started so far (MaxBuilds)
    torn       \* ids whose index a build has removed and not yet described again

disk == <<table, progress, index, manifest, tmp>>
locals == <<job, corpus, count, loaded>>
vars == <<table, progress, index, manifest, tmp, lock, proc, busy, pc, job, corpus,
          count, loaded, started, torn>>

----------------------------------------------------------------------------
(* Data *)

Entry == [id: Ids, docs: {Docs[c] : c \in Corpora}, corpus: Corpora]

\* An index file.  "blank": created, no schema.  "schema": tables exist and are
\* empty.  "staged": pass 1 committed, `docs` still empty.  "loaded": pass 2
\* committed.  "ready": staging dropped, file compacted and closed.
Phase == {"absent", "blank", "schema", "staged", "loaded", "ready"}
IndexFile == [phase: Phase, docs: Nat, corpus: Corpora \cup {NoCorpus}]
Absent == [phase |-> "absent", docs |-> 0, corpus |-> NoCorpus]

LockLevel == {"none", "shared", "pending", "exclusive"}

PC == {"idle", "import", "remove", "open", "schema", "pass1", "pass2", "finish",
       "complete", "load", "write", "rename", "fail", "release"}

\* The steps that touch an index file or the manifest.
BuildingPC == {"remove", "open", "schema", "pass1", "pass2", "finish",
               "complete", "load", "write", "rename"}

Building(t) == pc[t] \in BuildingPC

\* Mutant of Add: the old entry is not removed.
AddNoRetain(m, entry) == m \cup {entry}

\* Manifest::add: the entry with this id is replaced, the others are kept.  The
\* list is kept sorted by id, so the set of its entries determines it.
Add(m, entry) == {c \in m : c.id # entry.id} \cup {entry}

\* Whether this pass writes another progress mark before it ends.
MoreMarks(t) == count[t] + JournalEvery <= Docs[corpus[t]]

\* Mutant of EntryOf: the entry is made from defaults, its id never filled in.
EntryUnnamed(t) == [id |-> NoId, docs |-> Docs[corpus[t]], corpus |-> corpus[t]]

EntryOf(t) == [id |-> job[t], docs |-> Docs[corpus[t]], corpus |-> corpus[t]]

----------------------------------------------------------------------------
(* SQLite's lock on journal.db in EXCLUSIVE locking mode: the first read     *)
(* takes SHARED, the first write EXCLUSIVE, and neither is given back before *)
(* the connection closes.  A writer that finds a reader stops at PENDING.    *)

CanRead(p) == \A q \in Procs \ {p} : lock[q] \notin {"pending", "exclusive"}

\* Mutant of CanWrite: locking_mode is left NORMAL, so no lock outlives a statement.
CanWriteUnlocked(p) == TRUE

CanWrite(p) == \A q \in Procs \ {p} : lock[q] = "none"

\* A statement that writes `newProgress`, by process p.
WriteJournal(p, newProgress) ==
    /\ CanWrite(p)
    /\ lock' = [lock EXCEPT ![p] = "exclusive"]
    /\ progress' = newProgress

\* A statement that gave up after the busy timeout.
BusyJournal(p) ==
    /\ ~CanWrite(p)
    /\ lock' = IF CanRead(p) THEN [lock EXCEPT ![p] = "pending"] ELSE lock
    /\ UNCHANGED progress

Mark(p, i, stage, position, total) ==
    WriteJournal(p, [progress EXCEPT ![<<i, stage>>] = Marked(@, position, total)])

Complete(p, i, stage) ==
    WriteJournal(p, [progress EXCEPT ![<<i, stage>>] = Completed(@)])

RecordFailed(p, i, stage) ==
    WriteJournal(p, [progress EXCEPT ![<<i, stage>>] = Failed(@)])

----------------------------------------------------------------------------
(* Processes *)

Forget(t) ==
    /\ job' = [job EXCEPT ![t] = NoId]
    /\ corpus' = [corpus EXCEPT ![t] = NoCorpus]
    /\ count' = [count EXCEPT ![t] = 0]
    /\ loaded' = [loaded EXCEPT ![t] = {}]

\* Journal::open: the schema is read, which takes SHARED.  When the table is
\* there CREATE TABLE IF NOT EXISTS writes nothing and the process is up.
OpenJournal(p) ==
    /\ proc[p] = "off"
    /\ CanRead(p)
    /\ lock' = [lock EXCEPT ![p] = "shared"]
    /\ proc' = [proc EXCEPT ![p] = IF table THEN "up" ELSE "opening"]
    /\ UNCHANGED <<disk, busy, pc, locals, started, torn>>

\* On a new disk the table is created, which writes.
CreateTable(p) ==
    /\ proc[p] = "opening"
    /\ CanWrite(p)
    /\ lock' = [lock EXCEPT ![p] = "exclusive"]
    /\ table' = TRUE
    /\ proc' = [proc EXCEPT ![p] = "up"]
    /\ UNCHANGED <<progress, index, manifest, tmp, busy, pc, locals, started, torn>>

\* ... or another process has it open and the process exits with the error.
OpenBusy(p) ==
    /\ proc[p] = "opening"
    /\ ~CanWrite(p)
    /\ lock' = [lock EXCEPT ![p] = "none"]
    /\ proc' = [proc EXCEPT ![p] = "off"]
    /\ UNCHANGED <<disk, busy, pc, locals, started, torn>>

\* The process ends at any point: killed, stopped, or the machine lost power.
\* Its lock goes with it; an open transaction is rolled back by the next reader.
Crash(p) ==
    /\ "crash" \in Faults
    /\ proc[p] # "off"
    /\ proc' = [proc EXCEPT ![p] = "off"]
    /\ lock' = [lock EXCEPT ![p] = "none"]
    /\ busy' = [busy EXCEPT ![p] = FALSE]
    /\ pc' = [t \in Tasks |-> IF Owner[t] = p THEN "idle" ELSE pc[t]]
    /\ job' = [t \in Tasks |-> IF Owner[t] = p THEN NoId ELSE job[t]]
    /\ corpus' = [t \in Tasks |-> IF Owner[t] = p THEN NoCorpus ELSE corpus[t]]
    /\ count' = [t \in Tasks |-> IF Owner[t] = p THEN 0 ELSE count[t]]
    /\ loaded' = [t \in Tasks |-> IF Owner[t] = p THEN {} ELSE loaded[t]]
    /\ UNCHANGED <<disk, started, torn>>

\* A thread is handed the id and the corpus of a build.
Accept(t, i, c) ==
    /\ proc[Owner[t]] = "up"
    /\ pc[t] = "idle"
    /\ started < MaxBuilds
    /\ started' = started + 1
    /\ pc' = [pc EXCEPT ![t] = "import"]
    /\ job' = [job EXCEPT ![t] = i]
    /\ corpus' = [corpus EXCEPT ![t] = c]
    /\ UNCHANGED <<disk, lock, proc, count, loaded, torn>>

\* Mutant of PostBuild: busy is set but its old value is not looked at.
PostBuildUnguarded(t, i, c) ==
    /\ Owner[t] \in Daemons
    /\ busy' = [busy EXCEPT ![Owner[t]] = TRUE]
    /\ Accept(t, i, c)

\* POST /api/build: refused while a build runs, otherwise spawned.  A request
\* that names no file on the disk or no valid id is refused before and changes
\* nothing.
PostBuild(t, i, c) ==
    /\ Owner[t] \in Daemons
    /\ ~busy[Owner[t]]
    /\ busy' = [busy EXCEPT ![Owner[t]] = TRUE]
    /\ Accept(t, i, c)

\* `swissbunkerd build`, once its journal is open.
CliBuild(t, i, c) ==
    /\ Owner[t] \in Clis
    /\ Accept(t, i, c)
    /\ UNCHANGED busy

\* run_build or cmd_build returns an error.
ReturnErr(t) == pc' = [pc EXCEPT ![t] = "fail"]

\* The journal could not be written before the busy timeout, which is an error
\* of the step that wrote it (`?`).
JournalBusy(t) ==
    /\ \/ pc[t] = "complete"
       \/ pc[t] = "import" /\ Readable[corpus[t]]
       \/ pc[t] \in {"import", "pass1", "pass2"} /\ MoreMarks(t)
    /\ BusyJournal(Owner[t])
    /\ ReturnErr(t)
    /\ UNCHANGED <<table, index, manifest, tmp, proc, busy, locals, started, torn>>

\* Any read or write of the disk may fail: no space left, cable pulled.
IOFail(t) ==
    /\ "io" \in Faults
    /\ pc[t] \in BuildingPC \cup {"import"}
    /\ ReturnErr(t)
    /\ UNCHANGED <<disk, lock, proc, busy, locals, started, torn>>

\* post_build: the failure is recorded, always under the index stage.
RecordFailure(t) ==
    /\ pc[t] = "fail"
    /\ Owner[t] \in Daemons
    /\ RecordFailed(Owner[t], job[t], "index")
    /\ pc' = [pc EXCEPT ![t] = "release"]
    /\ UNCHANGED <<table, index, manifest, tmp, proc, busy, locals, started, torn>>

\* ... and when that write fails too, its error is dropped (`let _ =`).
DropFailure(t) ==
    /\ pc[t] = "fail"
    /\ Owner[t] \in Daemons
    /\ \/ BusyJournal(Owner[t])
       \/ "io" \in Faults /\ UNCHANGED <<lock, progress>>
    /\ pc' = [pc EXCEPT ![t] = "release"]
    /\ UNCHANGED <<table, index, manifest, tmp, proc, busy, locals, started, torn>>

\* Mutant of Release: busy is not reset after a build.
ReleaseKeepsBusy(t) ==
    /\ pc[t] = "release"
    /\ Owner[t] \in Daemons
    /\ pc' = [pc EXCEPT ![t] = "idle"]
    /\ Forget(t)
    /\ UNCHANGED <<disk, lock, proc, busy, started, torn>>

\* busy.store(false): the thread ends and the daemon takes another build.
Release(t) ==
    /\ pc[t] = "release"
    /\ Owner[t] \in Daemons
    /\ busy' = [busy EXCEPT ![Owner[t]] = FALSE]
    /\ pc' = [pc EXCEPT ![t] = "idle"]
    /\ Forget(t)
    /\ UNCHANGED <<disk, lock, proc, started, torn>>

\* The command line prints its result or its error, which it records nowhere,
\* and exits; its journal closes.
Exit(t) ==
    /\ pc[t] \in {"fail", "release"}
    /\ Owner[t] \in Clis
    /\ proc' = [proc EXCEPT ![Owner[t]] = "off"]
    /\ lock' = [lock EXCEPT ![Owner[t]] = "none"]
    /\ pc' = [pc EXCEPT ![t] = "idle"]
    /\ Forget(t)
    /\ UNCHANGED <<disk, busy, started, torn>>

----------------------------------------------------------------------------
(* import_jsonl *)

\* The next JournalEvery usable documents, and the mark that follows them.
ImportMark(t) ==
    /\ pc[t] = "import"
    /\ MoreMarks(t)
    /\ Mark(Owner[t], job[t], "extract", count[t] + JournalEvery, count[t] + JournalEvery)
    /\ count' = [count EXCEPT ![t] = @ + JournalEvery]
    /\ UNCHANGED <<table, index, manifest, tmp, proc, busy, pc, job, corpus, loaded, started, torn>>

\* The last documents, then complete(Extract).  A corpus without a usable
\* document is an error, but only after its extraction was recorded as done.
ImportDone(t) ==
    /\ pc[t] = "import"
    /\ ~MoreMarks(t)
    /\ Readable[corpus[t]]
    /\ Complete(Owner[t], job[t], "extract")
    /\ pc' = [pc EXCEPT ![t] = IF Docs[corpus[t]] = 0 THEN "fail" ELSE "remove"]
    /\ count' = [count EXCEPT ![t] = 0]
    /\ UNCHANGED <<table, index, manifest, tmp, proc, busy, job, corpus, loaded, started, torn>>

\* A line that cannot be read, or a file that is no JSONL corpus at all.
ImportUnreadable(t) ==
    /\ pc[t] = "import"
    /\ ~MoreMarks(t)
    /\ ~Readable[corpus[t]]
    /\ ReturnErr(t)
    /\ UNCHANGED <<disk, lock, proc, busy, locals, started, torn>>

----------------------------------------------------------------------------
(* build_index *)

SetIndex(t, phase, docs, c) ==
    index' = [index EXCEPT ![job[t]] = [phase |-> phase, docs |-> docs, corpus |-> c]]

\* Mutant of RemoveOld: the entry leaves the manifest together with the index.
RemoveOldAndEntry(t) ==
    /\ pc[t] = "remove"
    /\ index' = [index EXCEPT ![job[t]] = Absent]
    /\ manifest' = {e \in manifest : e.id # job[t]}
    /\ torn' = torn \cup {job[t]}
    /\ pc' = [pc EXCEPT ![t] = "open"]
    /\ UNCHANGED <<table, progress, tmp, lock, proc, busy, locals, started>>

\* A rebuild replaces: the old file goes first.
RemoveOld(t) ==
    /\ pc[t] = "remove"
    /\ index' = [index EXCEPT ![job[t]] = Absent]
    /\ torn' = torn \cup {job[t]}
    /\ pc' = [pc EXCEPT ![t] = "open"]
    /\ UNCHANGED <<table, progress, manifest, tmp, lock, proc, busy, locals, started>>

OpenIndex(t) ==
    /\ pc[t] = "open"
    /\ SetIndex(t, "blank", 0, NoCorpus)
    /\ pc' = [pc EXCEPT ![t] = "schema"]
    /\ UNCHANGED <<table, progress, manifest, tmp, lock, proc, busy, locals, started, torn>>

CreateSchema(t) ==
    /\ pc[t] = "schema"
    /\ SetIndex(t, "schema", 0, NoCorpus)
    /\ pc' = [pc EXCEPT ![t] = "pass1"]
    /\ UNCHANGED <<table, progress, manifest, tmp, lock, proc, busy, locals, started, torn>>

\* Pass 1 stages documents in a transaction; the total is the count so far.
StageMark(t) ==
    /\ pc[t] = "pass1"
    /\ MoreMarks(t)
    /\ Mark(Owner[t], job[t], "index", count[t] + JournalEvery, count[t] + JournalEvery)
    /\ count' = [count EXCEPT ![t] = @ + JournalEvery]
    /\ UNCHANGED <<table, index, manifest, tmp, proc, busy, pc, job, corpus, loaded, started, torn>>

StageCommit(t) ==
    /\ pc[t] = "pass1"
    /\ ~MoreMarks(t)
    /\ SetIndex(t, "staged", 0, NoCorpus)
    /\ pc' = [pc EXCEPT ![t] = "pass2"]
    /\ count' = [count EXCEPT ![t] = 0]
    /\ UNCHANGED <<table, progress, manifest, tmp, lock, proc, busy, job, corpus, loaded,
                   started, torn>>

\* Pass 2 inserts them by importance in a second transaction.
InsertMark(t) ==
    /\ pc[t] = "pass2"
    /\ MoreMarks(t)
    /\ Mark(Owner[t], job[t], "index", count[t] + JournalEvery, Docs[corpus[t]])
    /\ count' = [count EXCEPT ![t] = @ + JournalEvery]
    /\ UNCHANGED <<table, index, manifest, tmp, proc, busy, pc, job, corpus, loaded, started, torn>>

InsertCommit(t) ==
    /\ pc[t] = "pass2"
    /\ ~MoreMarks(t)
    /\ SetIndex(t, "loaded", Docs[corpus[t]], corpus[t])
    /\ pc' = [pc EXCEPT ![t] = "finish"]
    /\ count' = [count EXCEPT ![t] = 0]
    /\ UNCHANGED <<table, progress, manifest, tmp, lock, proc, busy, job, corpus, loaded,
                   started, torn>>

\* DROP staging, optimize, VACUUM, close.
FinishIndex(t) ==
    /\ pc[t] = "finish"
    /\ SetIndex(t, "ready", Docs[corpus[t]], corpus[t])
    /\ pc' = [pc EXCEPT ![t] = "complete"]
    /\ UNCHANGED <<table, progress, manifest, tmp, lock, proc, busy, locals, started, torn>>

\* complete(Index): before the manifest knows of the corpus.
CompleteIndex(t) ==
    /\ pc[t] = "complete"
    /\ Complete(Owner[t], job[t], "index")
    /\ pc' = [pc EXCEPT ![t] = "load"]
    /\ UNCHANGED <<table, index, manifest, tmp, proc, busy, locals, started, torn>>

----------------------------------------------------------------------------
(* The manifest: read, changed in memory, written beside and renamed. *)

\* Mutant of LoadManifest: starts from Manifest::new() although a file exists.
LoadManifestNew(t) ==
    /\ pc[t] = "load"
    /\ loaded' = [loaded EXCEPT ![t] = {EntryOf(t)}]
    /\ pc' = [pc EXCEPT ![t] = "write"]
    /\ UNCHANGED <<disk, lock, proc, busy, job, corpus, count, started, torn>>

LoadManifest(t) ==
    /\ pc[t] = "load"
    /\ loaded' = [loaded EXCEPT ![t] = Add(manifest, EntryOf(t))]
    /\ pc' = [pc EXCEPT ![t] = "write"]
    /\ UNCHANGED <<disk, lock, proc, busy, job, corpus, count, started, torn>>

WriteTmp(t) ==
    /\ pc[t] = "write"
    /\ tmp' = loaded[t]
    /\ pc' = [pc EXCEPT ![t] = "rename"]
    /\ UNCHANGED <<table, progress, index, manifest, lock, proc, busy, locals, started, torn>>

\* Mutant of RenameManifest: the rename only replaces a file that is there.
ReplaceManifest(t) ==
    /\ pc[t] = "rename"
    /\ manifest' = IF manifest = {} THEN manifest ELSE tmp
    /\ tmp' = {}
    /\ torn' = torn \ {job[t]}
    /\ pc' = [pc EXCEPT ![t] = "release"]
    /\ UNCHANGED <<table, progress, index, lock, proc, busy, locals, started>>

RenameManifest(t) ==
    /\ pc[t] = "rename"
    /\ manifest' = tmp
    /\ tmp' = {}
    /\ torn' = torn \ {job[t]}
    /\ pc' = [pc EXCEPT ![t] = "release"]
    /\ UNCHANGED <<table, progress, index, lock, proc, busy, locals, started>>

----------------------------------------------------------------------------
(* Specification *)

Init ==
    /\ table \in BOOLEAN
    /\ progress = [k \in Ids \X Stage |-> NoRow]
    /\ index = [i \in Ids |-> Absent]
    /\ manifest = {}
    /\ tmp = {}
    /\ lock = [p \in Procs |-> "none"]
    /\ proc = [p \in Procs |-> "off"]
    /\ busy = [p \in Procs |-> FALSE]
    /\ pc = [t \in Tasks |-> "idle"]
    /\ job = [t \in Tasks |-> NoId]
    /\ corpus = [t \in Tasks |-> NoCorpus]
    /\ count = [t \in Tasks |-> 0]
    /\ loaded = [t \in Tasks |-> {}]
    /\ started = 0
    /\ torn = {}

ProcStep(p) == OpenJournal(p) \/ CreateTable(p) \/ OpenBusy(p) \/ Crash(p)

Import(t) == ImportMark(t) \/ ImportDone(t) \/ ImportUnreadable(t)

BuildIndex(t) ==
    \/ RemoveOld(t) \/ OpenIndex(t) \/ CreateSchema(t)
    \/ StageMark(t) \/ StageCommit(t) \/ InsertMark(t) \/ InsertCommit(t)
    \/ FinishIndex(t) \/ CompleteIndex(t)

SaveManifest(t) == LoadManifest(t) \/ WriteTmp(t) \/ RenameManifest(t)

EndBuild(t) == RecordFailure(t) \/ DropFailure(t) \/ Release(t) \/ Exit(t)

\* The steps a running thread takes by itself.
Work(t) == Import(t) \/ BuildIndex(t) \/ SaveManifest(t) \/ JournalBusy(t) \/ EndBuild(t)

Request(t) == \E i \in Ids, c \in Corpora : PostBuild(t, i, c) \/ CliBuild(t, i, c)

Next ==
    \/ \E p \in Procs : ProcStep(p)
    \/ \E t \in Tasks : Request(t) \/ Work(t) \/ IOFail(t)

Spec == Init /\ [][Next]_vars

\* A thread that can go on does: the operating system schedules it.  Nothing
\* obliges anyone to start a process, ask for a build or fail.
FairSpec == Spec /\ \A t \in Tasks : WF_vars(Work(t))

----------------------------------------------------------------------------
(* Properties *)

TypeOK ==
    /\ table \in BOOLEAN
    /\ progress \in [Ids \X Stage -> Row]
    /\ index \in [Ids -> IndexFile]
    /\ manifest \in SUBSET Entry
    /\ tmp \in SUBSET Entry
    /\ lock \in [Procs -> LockLevel]
    /\ proc \in [Procs -> {"off", "opening", "up"}]
    /\ busy \in [Procs -> BOOLEAN]
    /\ pc \in [Tasks -> PC]
    /\ job \in [Tasks -> Ids \cup {NoId}]
    /\ corpus \in [Tasks -> Corpora \cup {NoCorpus}]
    /\ count \in [Tasks -> Nat]
    /\ loaded \in [Tasks -> SUBSET Entry]
    /\ started \in Nat
    /\ torn \in SUBSET Ids

\* No two builds, of one daemon or of any two processes on the disk, are ever
\* between removing the old index and renaming the manifest at the same time
\* (api.rs:34-39, journal.rs:89-91).  `busy` covers one daemon; across processes
\* it is the journal's lock, which every build needs before its first file.
OneBuilder ==
    \A t, u \in Tasks : Building(t) /\ Building(u) => t = u

\* A manifest about to be written is the one on the disk with one entry replaced:
\* nobody saved another since it was loaded, and the temporary file is still this
\* build's own (api.rs:338-356, main.rs:150-171, manifest.rs:104-116).
NoLostUpdate ==
    \A t \in Tasks :
        /\ pc[t] \in {"write", "rename"} => loaded[t] = Add(manifest, EntryOf(t))
        /\ pc[t] = "rename" => tmp = loaded[t]

\* Two entries with one id would disagree about its size (manifest.rs:74-76).
UniqueEntries ==
    \A e, f \in manifest : e.id = f.id => e = f

\* An entry of the manifest describes the very index on the disk, unless a build
\* of that corpus has removed the index and did not get to its own entry.
EntriesMatchIndex ==
    \A e \in manifest :
        e.id \notin torn =>
            index[e.id] = [phase |-> "ready", docs |-> e.docs, corpus |-> e.corpus]

\* A corpus the manifest describes is described for ever: no build of another
\* corpus, in any process, and no failure makes the disk forget it
\* (manifest.rs:102-103).
NeverForgotten ==
    [][\A e \in manifest : \E f \in manifest' : f.id = e.id]_vars

\* The disk behaves like a catalogue with one builder at a time: Begin is the
\* write that completes the extraction, Publish the rename of the manifest.
Disk == INSTANCE Catalogue WITH
    Builders <- Tasks,
    catalogue <- [i \in Ids |-> {e \in manifest : e.id = i}],
    building <- {<<t, job[t]>> : t \in {u \in Tasks : Building(u)}}

\* Every step of the pipeline, in every process, is one of the catalogue's or
\* leaves it alone: other entries survive a publication, a failure or a crash
\* publishes nothing, and no publication is made of two builds.
ImplementsCatalogue == Disk!Spec

\* A build that was accepted ends, in success, in failure or with its process, and
\* the daemon takes another: `busy` never stays set (api.rs:299-314).
BusyEnds == \A d \in Daemons : busy[d] ~> ~busy[d]

\* An accepted build of a good corpus comes to be described in the manifest, unless
\* it fails on the way or its process ends (api.rs:323-358).
BuildLands ==
    \A t \in Tasks, i \in Ids, c \in Corpora :
        (pc[t] = "import" /\ job[t] = i /\ corpus[t] = c /\ Readable[c] /\ Docs[c] > 0)
            ~> \/ \E e \in manifest : e.id = i /\ e.corpus = c
               \/ pc[t] = "fail"
               \/ proc[Owner[t]] = "off"

----------------------------------------------------------------------------
(* What the sources say and the code does not do *)

\* api.rs:55: "the journal is already the source of truth and already survives a
\* crash".  An index it records as done, and nobody is building, is complete.
JournalTellsTruth ==
    \A i \in Ids :
        (IsComplete(progress[<<i, "index">>]) /\ ~\E t \in Tasks : pc[t] # "idle" /\ job[t] = i)
            => index[i].phase = "ready"

\* console.ts:177-178 refreshes the list "when the pipeline goes quiet", which it
\* reads as every row being done or failed: a daemon that builds nothing, alone on
\* its disk, should show no other row.
IdleMeansQuiet ==
    (\A t \in Tasks : pc[t] = "idle")
        => \A k \in Ids \X Stage : progress[k].present => Quiet(progress[k])

\* api.rs:305: "The failure is recorded where the dashboard already looks".
FailureRecorded ==
    [][\A t \in Tasks : pc[t] = "fail" /\ pc'[t] = "release"
            => LastError(progress'[<<job[t], "index">>])]_vars
=============================================================================
