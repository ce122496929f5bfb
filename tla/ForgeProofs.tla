---------------------------- MODULE ForgeProofs ----------------------------
(***************************************************************************)
(* Proofs about Forge, for every set of daemons, command lines, threads,   *)
(* ids and corpora, every JournalEvery and every set of faults.            *)
(*                                                                         *)
(* The argument is one inductive invariant.  A build completes its extract *)
(* row before it touches a file, and that write leaves its process with    *)
(* the EXCLUSIVE lock of the journal until the process ends (HoldsJournal, *)
(* LockSound).  So two builders are threads of one process; a command line *)
(* has one thread and a daemon runs one at a time (OneThread, BusySet).    *)
(* With one builder, what a build read of the manifest is still there when *)
(* it writes, and the index it made is still there when it is described.   *)
(***************************************************************************)
EXTENDS Forge, TLAPS

\* A task that is not idle has been given a job.
HasJob == \A t \in Tasks : pc[t] # "idle" => job[t] \in Ids /\ corpus[t] \in Corpora

\* EXCLUSIVE excludes every other holder.
LockSound == \A p, q \in Procs : lock[p] = "exclusive" /\ p # q => lock[q] = "none"

\* Only a process that is up runs tasks.
RunsUp == \A t \in Tasks : pc[t] # "idle" => proc[Owner[t]] = "up"

\* A process runs one task, and a daemon that runs one is busy.
OneThread ==
    \A t, u \in Tasks :
        pc[t] # "idle" /\ pc[u] # "idle" /\ Owner[t] = Owner[u] => t = u
BusySet == \A t \in Tasks : pc[t] # "idle" /\ Owner[t] \in Daemons => busy[Owner[t]]

\* A build holds the journal from its first file to its last.
HoldsJournal == \A t \in Tasks : Building(t) => lock[Owner[t]] = "exclusive"

\* The inductive invariant behind mutual exclusion.
LockInv == TypeOK /\ HasJob /\ LockSound /\ RunsUp /\ OneThread /\ BusySet /\ HoldsJournal

\* A build that has removed the old index has put its id in `torn`, and one that
\* has finished the new index finds it as it left it.
IndexOwned ==
    \A t \in Tasks :
        /\ Building(t) /\ pc[t] # "remove" => job[t] \in torn
        /\ pc[t] \in {"complete", "load", "write", "rename"} =>
              index[job[t]] = [phase |-> "ready", docs |-> Docs[corpus[t]], corpus |-> corpus[t]]

\* The whole inductive invariant.
IInv == LockInv /\ NoLostUpdate /\ UniqueEntries /\ IndexOwned /\ EntriesMatchIndex

USE DEF Procs

----------------------------------------------------------------------------

\* Every statement of the journal turns a row into a row.
LEMMA RowTypes ==
    ASSUME NEW row \in Row, NEW n \in Nat, NEW m \in Nat
    PROVE  /\ Marked(row, n, m) \in Row
           /\ Completed(row) \in Row
           /\ Failed(row) \in Row
  BY DEF Row, Marked, Completed, Failed

\* Adding an entry to a manifest gives a manifest.
LEMMA AddType ==
    ASSUME NEW m \in SUBSET Entry, NEW e \in Entry
    PROVE  Add(m, e) \in SUBSET Entry
  BY DEF Add

\* Replacing an entry keeps ids unique and forgets no id.
LEMMA AddKeeps ==
    ASSUME NEW m \in SUBSET Entry, NEW e \in Entry
    PROVE  /\ (\A c, f \in m : c.id = f.id => c = f)
                => \A c, f \in Add(m, e) : c.id = f.id => c = f
           /\ \A c \in m : \E f \in Add(m, e) : f.id = c.id
  BY DEF Add

\* What a build calls its entry is one.
LEMMA EntryOfType ==
    ASSUME NEW t \in Tasks, job[t] \in Ids, corpus[t] \in Corpora
    PROVE  EntryOf(t) \in Entry
  BY CorpusAssumption DEF EntryOf, Entry

----------------------------------------------------------------------------

LEMMA TypeStep ==
    ASSUME TypeOK, HasJob, [Next]_vars
    PROVE  TypeOK'
<1> USE DEF TypeOK, disk, locals
<1> USE ProcsAssumption, CorpusAssumption, BoundAssumption
<1>1. ASSUME NEW p \in Procs, OpenJournal(p)
      PROVE  TypeOK'
  BY <1>1 DEF OpenJournal, LockLevel
<1>2. ASSUME NEW p \in Procs, CreateTable(p)
      PROVE  TypeOK'
  BY <1>2 DEF CreateTable, LockLevel
<1>3. ASSUME NEW p \in Procs, OpenBusy(p)
      PROVE  TypeOK'
  BY <1>3 DEF OpenBusy, LockLevel
<1>4. ASSUME NEW p \in Procs, Crash(p)
      PROVE  TypeOK'
  BY <1>4 DEF Crash, LockLevel, PC
<1>5. ASSUME NEW t \in Tasks, NEW i \in Ids, NEW c \in Corpora, PostBuild(t, i, c)
      PROVE  TypeOK'
  BY <1>5 DEF PostBuild, Accept, PC
<1>6. ASSUME NEW t \in Tasks, NEW i \in Ids, NEW c \in Corpora, CliBuild(t, i, c)
      PROVE  TypeOK'
  BY <1>6 DEF CliBuild, Accept, PC
<1>7. ASSUME NEW t \in Tasks, ImportMark(t)
      PROVE  TypeOK'
  <2>1. job[t] \in Ids /\ count[t] + JournalEvery \in Nat
    BY <1>7 DEF ImportMark, HasJob
  <2>2. progress' \in [Ids \X Stage -> Row]
    BY <1>7, <2>1, RowTypes DEF ImportMark, Mark, WriteJournal, Stage
  <2> QED
    BY <1>7, <2>1, <2>2 DEF ImportMark, Mark, WriteJournal, LockLevel
<1>8. ASSUME NEW t \in Tasks, ImportDone(t)
      PROVE  TypeOK'
  <2>1. progress' \in [Ids \X Stage -> Row]
    BY <1>8, RowTypes DEF ImportDone, Complete, WriteJournal, Stage, HasJob
  <2> QED
    BY <1>8, <2>1 DEF ImportDone, Complete, WriteJournal, LockLevel, PC
<1>9. ASSUME NEW t \in Tasks, ImportUnreadable(t)
      PROVE  TypeOK'
  BY <1>9 DEF ImportUnreadable, ReturnErr, PC
<1>10. ASSUME NEW t \in Tasks, RemoveOld(t)
       PROVE  TypeOK'
  BY <1>10 DEF RemoveOld, IndexFile, Phase, Absent, PC, HasJob
<1>11. ASSUME NEW t \in Tasks, OpenIndex(t)
       PROVE  TypeOK'
  BY <1>11 DEF OpenIndex, SetIndex, IndexFile, Phase, PC
<1>12. ASSUME NEW t \in Tasks, CreateSchema(t)
       PROVE  TypeOK'
  BY <1>12 DEF CreateSchema, SetIndex, IndexFile, Phase, PC
<1>13. ASSUME NEW t \in Tasks, StageMark(t)
       PROVE  TypeOK'
  <2>1. job[t] \in Ids /\ count[t] + JournalEvery \in Nat
    BY <1>13 DEF StageMark, HasJob
  <2>2. progress' \in [Ids \X Stage -> Row]
    BY <1>13, <2>1, RowTypes DEF StageMark, Mark, WriteJournal, Stage
  <2> QED
    BY <1>13, <2>1, <2>2 DEF StageMark, Mark, WriteJournal, LockLevel
<1>14. ASSUME NEW t \in Tasks, StageCommit(t)
       PROVE  TypeOK'
  BY <1>14 DEF StageCommit, SetIndex, IndexFile, Phase, PC
<1>15. ASSUME NEW t \in Tasks, InsertMark(t)
       PROVE  TypeOK'
  <2>1. job[t] \in Ids /\ count[t] + JournalEvery \in Nat /\ Docs[corpus[t]] \in Nat
    BY <1>15 DEF InsertMark, HasJob
  <2>2. progress' \in [Ids \X Stage -> Row]
    BY <1>15, <2>1, RowTypes DEF InsertMark, Mark, WriteJournal, Stage
  <2> QED
    BY <1>15, <2>1, <2>2 DEF InsertMark, Mark, WriteJournal, LockLevel
<1>16. ASSUME NEW t \in Tasks, InsertCommit(t)
       PROVE  TypeOK'
  BY <1>16 DEF InsertCommit, SetIndex, IndexFile, Phase, PC, HasJob
<1>17. ASSUME NEW t \in Tasks, FinishIndex(t)
       PROVE  TypeOK'
  BY <1>17 DEF FinishIndex, SetIndex, IndexFile, Phase, PC, HasJob
<1>18. ASSUME NEW t \in Tasks, CompleteIndex(t)
       PROVE  TypeOK'
  <2>1. progress' \in [Ids \X Stage -> Row]
    BY <1>18, RowTypes DEF CompleteIndex, Complete, WriteJournal, Stage, HasJob
  <2> QED
    BY <1>18, <2>1 DEF CompleteIndex, Complete, WriteJournal, LockLevel, PC
<1>19. ASSUME NEW t \in Tasks, LoadManifest(t)
       PROVE  TypeOK'
  <2>1. Add(manifest, EntryOf(t)) \in SUBSET Entry
    BY <1>19, EntryOfType, AddType DEF LoadManifest, HasJob
  <2> QED
    BY <1>19, <2>1 DEF LoadManifest, PC
<1>20. ASSUME NEW t \in Tasks, WriteTmp(t)
       PROVE  TypeOK'
  BY <1>20 DEF WriteTmp, PC
<1>21. ASSUME NEW t \in Tasks, RenameManifest(t)
       PROVE  TypeOK'
  BY <1>21 DEF RenameManifest, PC
<1>22. ASSUME NEW t \in Tasks, JournalBusy(t)
       PROVE  TypeOK'
  BY <1>22 DEF JournalBusy, BusyJournal, ReturnErr, LockLevel, PC
<1>23. ASSUME NEW t \in Tasks, IOFail(t)
       PROVE  TypeOK'
  BY <1>23 DEF IOFail, ReturnErr, PC
<1>24. ASSUME NEW t \in Tasks, RecordFailure(t)
       PROVE  TypeOK'
  <2>1. progress' \in [Ids \X Stage -> Row]
    BY <1>24, RowTypes DEF RecordFailure, RecordFailed, WriteJournal, Stage, HasJob
  <2> QED
    BY <1>24, <2>1 DEF RecordFailure, RecordFailed, WriteJournal, LockLevel, PC
<1>25. ASSUME NEW t \in Tasks, DropFailure(t)
       PROVE  TypeOK'
  BY <1>25 DEF DropFailure, BusyJournal, LockLevel, PC
<1>26. ASSUME NEW t \in Tasks, Release(t)
       PROVE  TypeOK'
  BY <1>26 DEF Release, Forget, PC
<1>27. ASSUME NEW t \in Tasks, Exit(t)
       PROVE  TypeOK'
  BY <1>27 DEF Exit, Forget, LockLevel, PC
<1>28. CASE UNCHANGED vars
  BY <1>28 DEF vars
<1> QED
  BY <1>1, <1>2, <1>3, <1>4, <1>5, <1>6, <1>7, <1>8, <1>9, <1>10, <1>11, <1>12, <1>13,
     <1>14, <1>15, <1>16, <1>17, <1>18, <1>19, <1>20, <1>21, <1>22, <1>23, <1>24, <1>25,
     <1>26, <1>27, <1>28
  DEF Next, ProcStep, Request, Work, Import, BuildIndex, SaveManifest, EndBuild
----------------------------------------------------------------------------

\* The control part of the invariant, once the types are known.
LEMMA LockStep ==
    ASSUME LockInv, [Next]_vars
    PROVE  LockInv'
<1> USE ProcsAssumption DEF disk, locals
<1> DEFINE Control == HasJob /\ LockSound /\ RunsUp /\ OneThread /\ BusySet /\ HoldsJournal
<1> USE DEF LockInv, HasJob, LockSound, RunsUp, OneThread, BusySet, HoldsJournal, Building, BuildingPC
<1>0. TypeOK'
  BY TypeStep
<1> USE DEF TypeOK
<1>1. ASSUME NEW p \in Procs, OpenJournal(p)
      PROVE  Control'
  BY <1>1, <1>0 DEF OpenJournal, CanRead
<1>2. ASSUME NEW p \in Procs, CreateTable(p)
      PROVE  Control'
  BY <1>2, <1>0 DEF CreateTable, CanWrite
<1>3. ASSUME NEW p \in Procs, OpenBusy(p)
      PROVE  Control'
  BY <1>3, <1>0 DEF OpenBusy
<1>4. ASSUME NEW p \in Procs, Crash(p)
      PROVE  Control'
  BY <1>4, <1>0 DEF Crash
<1>5. ASSUME NEW t \in Tasks, NEW i \in Ids, NEW c \in Corpora, PostBuild(t, i, c)
      PROVE  Control'
  BY <1>5, <1>0 DEF PostBuild, Accept
<1>6. ASSUME NEW t \in Tasks, NEW i \in Ids, NEW c \in Corpora, CliBuild(t, i, c)
      PROVE  Control'
  BY <1>6, <1>0 DEF CliBuild, Accept
<1>7. ASSUME NEW t \in Tasks, ImportMark(t)
      PROVE  Control'
  BY <1>7, <1>0 DEF ImportMark, Mark, WriteJournal, CanWrite
<1>8. ASSUME NEW t \in Tasks, ImportDone(t)
      PROVE  Control'
  BY <1>8, <1>0 DEF ImportDone, Complete, WriteJournal, CanWrite
<1>9. ASSUME NEW t \in Tasks, ImportUnreadable(t)
      PROVE  Control'
  BY <1>9, <1>0 DEF ImportUnreadable, ReturnErr
<1>10. ASSUME NEW t \in Tasks, RemoveOld(t)
      PROVE  Control'
  BY <1>10, <1>0 DEF RemoveOld
<1>11. ASSUME NEW t \in Tasks, OpenIndex(t)
      PROVE  Control'
  BY <1>11, <1>0 DEF OpenIndex
<1>12. ASSUME NEW t \in Tasks, CreateSchema(t)
      PROVE  Control'
  BY <1>12, <1>0 DEF CreateSchema
<1>13. ASSUME NEW t \in Tasks, StageMark(t)
      PROVE  Control'
  BY <1>13, <1>0 DEF StageMark, Mark, WriteJournal, CanWrite
<1>14. ASSUME NEW t \in Tasks, StageCommit(t)
      PROVE  Control'
  BY <1>14, <1>0 DEF StageCommit
<1>15. ASSUME NEW t \in Tasks, InsertMark(t)
      PROVE  Control'
  BY <1>15, <1>0 DEF InsertMark, Mark, WriteJournal, CanWrite
<1>16. ASSUME NEW t \in Tasks, InsertCommit(t)
      PROVE  Control'
  BY <1>16, <1>0 DEF InsertCommit
<1>17. ASSUME NEW t \in Tasks, FinishIndex(t)
      PROVE  Control'
  BY <1>17, <1>0 DEF FinishIndex
<1>18. ASSUME NEW t \in Tasks, CompleteIndex(t)
      PROVE  Control'
  BY <1>18, <1>0 DEF CompleteIndex, Complete, WriteJournal, CanWrite
<1>19. ASSUME NEW t \in Tasks, LoadManifest(t)
      PROVE  Control'
  BY <1>19, <1>0 DEF LoadManifest
<1>20. ASSUME NEW t \in Tasks, WriteTmp(t)
      PROVE  Control'
  BY <1>20, <1>0 DEF WriteTmp
<1>21. ASSUME NEW t \in Tasks, RenameManifest(t)
      PROVE  Control'
  BY <1>21, <1>0 DEF RenameManifest
<1>22. ASSUME NEW t \in Tasks, JournalBusy(t)
      PROVE  Control'
  BY <1>22, <1>0 DEF JournalBusy, BusyJournal, CanWrite, CanRead, ReturnErr
<1>23. ASSUME NEW t \in Tasks, IOFail(t)
      PROVE  Control'
  BY <1>23, <1>0 DEF IOFail, ReturnErr
<1>24. ASSUME NEW t \in Tasks, RecordFailure(t)
      PROVE  Control'
  BY <1>24, <1>0 DEF RecordFailure, RecordFailed, WriteJournal, CanWrite
<1>25. ASSUME NEW t \in Tasks, DropFailure(t)
      PROVE  Control'
  BY <1>25, <1>0 DEF DropFailure, BusyJournal, CanWrite, CanRead
<1>26. ASSUME NEW t \in Tasks, Release(t)
      PROVE  Control'
  BY <1>26, <1>0 DEF Release, Forget
<1>27. ASSUME NEW t \in Tasks, Exit(t)
      PROVE  Control'
  BY <1>27, <1>0 DEF Exit, Forget
<1>28. CASE UNCHANGED vars
  BY <1>28, <1>0 DEF vars
<1> QED
  <2>1. Control'
    BY <1>1, <1>2, <1>3, <1>4, <1>5, <1>6, <1>7, <1>8, <1>9, <1>10, <1>11, <1>12, <1>13, <1>14, <1>15, <1>16, <1>17, <1>18, <1>19, <1>20, <1>21, <1>22, <1>23, <1>24, <1>25, <1>26, <1>27, <1>28
    DEF Next, ProcStep, Request, Work, Import, BuildIndex, SaveManifest, EndBuild
  <2> QED
    BY <2>1, <1>0
----------------------------------------------------------------------------

\* Two builders are one: they hold the same lock, so they are of one process.
LEMMA Exclusion == LockInv => OneBuilder
<1> SUFFICES ASSUME LockInv, NEW t \in Tasks, NEW u \in Tasks, Building(t), Building(u)
             PROVE  t = u
  BY DEF OneBuilder
<1>1. lock[Owner[t]] = "exclusive" /\ lock[Owner[u]] = "exclusive"
  BY DEF LockInv, HoldsJournal
<1>2. Owner[t] = Owner[u]
  BY <1>1, ProcsAssumption DEF LockInv, LockSound
<1> QED
  BY <1>2 DEF LockInv, OneThread, Building, BuildingPC

\* The manifest changes only when the builder renames its own.
LEMMA ManifestStep ==
    ASSUME [Next]_vars
    PROVE  \/ UNCHANGED manifest
           \/ \E t \in Tasks : RenameManifest(t)
  BY DEF Next, ProcStep, Request, Work, Import, BuildIndex, SaveManifest, EndBuild, vars,
     disk, locals, OpenJournal, CreateTable, OpenBusy, Crash, PostBuild, CliBuild, Accept,
     ImportMark, ImportDone, ImportUnreadable, RemoveOld, OpenIndex, CreateSchema, StageMark,
     StageCommit, InsertMark, InsertCommit, FinishIndex, CompleteIndex, LoadManifest, WriteTmp,
     JournalBusy, IOFail, RecordFailure, DropFailure, Release, Exit

\* The temporary file changes only when the builder writes or renames it.
LEMMA TmpStep ==
    ASSUME [Next]_vars
    PROVE  \/ UNCHANGED tmp
           \/ \E t \in Tasks : WriteTmp(t) \/ RenameManifest(t)
  BY DEF Next, ProcStep, Request, Work, Import, BuildIndex, SaveManifest, EndBuild, vars,
     disk, locals, OpenJournal, CreateTable, OpenBusy, Crash, PostBuild, CliBuild, Accept,
     ImportMark, ImportDone, ImportUnreadable, RemoveOld, OpenIndex, CreateSchema, StageMark,
     StageCommit, InsertMark, InsertCommit, FinishIndex, CompleteIndex, LoadManifest,
     JournalBusy, IOFail, RecordFailure, DropFailure, Release, Exit

\* An index file changes only when the builder of its id changes it.
LEMMA IndexStep ==
    ASSUME [Next]_vars
    PROVE  \/ UNCHANGED <<index, torn>>
           \/ \E t \in Tasks :
                  \/ RemoveOld(t) \/ OpenIndex(t) \/ CreateSchema(t) \/ StageCommit(t)
                  \/ InsertCommit(t) \/ FinishIndex(t) \/ RenameManifest(t)
  BY DEF Next, ProcStep, Request, Work, Import, BuildIndex, SaveManifest, EndBuild, vars,
     disk, locals, OpenJournal, CreateTable, OpenBusy, Crash, PostBuild, CliBuild, Accept,
     ImportMark, ImportDone, ImportUnreadable, StageMark, InsertMark, CompleteIndex,
     LoadManifest, WriteTmp, JournalBusy, IOFail, RecordFailure, DropFailure, Release, Exit

\* How one thread's part of the state moves while it builds.
LEMMA BuilderStep ==
    ASSUME LockInv, [Next]_vars, NEW t \in Tasks, Building(t)'
    PROVE  /\ pc'[t] # pc[t] =>
                \/ ImportDone(t) \/ RemoveOld(t) \/ OpenIndex(t) \/ CreateSchema(t)
                \/ StageCommit(t) \/ InsertCommit(t) \/ FinishIndex(t) \/ CompleteIndex(t)
                \/ LoadManifest(t) \/ WriteTmp(t)
           /\ pc'[t] = pc[t] => UNCHANGED <<job[t], corpus[t], loaded[t]>>
<1> USE DEF LockInv, TypeOK, Building, BuildingPC, disk, locals
<1>1. ASSUME NEW p \in Procs, ProcStep(p)
      PROVE  pc'[t] = pc[t] /\ UNCHANGED <<job[t], corpus[t], loaded[t]>>
  BY <1>1 DEF ProcStep, OpenJournal, CreateTable, OpenBusy, Crash
<1>2. ASSUME NEW u \in Tasks, Request(u)
      PROVE  pc'[t] = pc[t] /\ UNCHANGED <<job[t], corpus[t], loaded[t]>>
  BY <1>2 DEF Request, PostBuild, CliBuild, Accept
<1>3. ASSUME NEW u \in Tasks, EndBuild(u) \/ JournalBusy(u) \/ IOFail(u)
      PROVE  pc'[t] = pc[t] /\ UNCHANGED <<job[t], corpus[t], loaded[t]>>
  BY <1>3 DEF EndBuild, RecordFailure, DropFailure, Release, Exit, JournalBusy, IOFail,
     ReturnErr, Forget
<1>4. ASSUME NEW u \in Tasks, Import(u) \/ BuildIndex(u) \/ SaveManifest(u)
      PROVE  /\ pc'[t] # pc[t] =>
                  \/ ImportDone(t) \/ RemoveOld(t) \/ OpenIndex(t) \/ CreateSchema(t)
                  \/ StageCommit(t) \/ InsertCommit(t) \/ FinishIndex(t) \/ CompleteIndex(t)
                  \/ LoadManifest(t) \/ WriteTmp(t)
             /\ pc'[t] = pc[t] => UNCHANGED <<job[t], corpus[t], loaded[t]>>
  <2>1. CASE u = t
    BY <1>4, <2>1 DEF Import, BuildIndex, SaveManifest, ImportMark, ImportDone,
       ImportUnreadable, ReturnErr, RemoveOld, OpenIndex, CreateSchema, StageMark, StageCommit,
       InsertMark, InsertCommit, FinishIndex, CompleteIndex, LoadManifest, WriteTmp,
       RenameManifest
  <2>2. CASE u # t
    BY <1>4, <2>2 DEF Import, BuildIndex, SaveManifest, ImportMark, ImportDone,
       ImportUnreadable, ReturnErr, RemoveOld, OpenIndex, CreateSchema, StageMark, StageCommit,
       InsertMark, InsertCommit, FinishIndex, CompleteIndex, LoadManifest, WriteTmp,
       RenameManifest
  <2> QED
    BY <2>1, <2>2
<1>5. CASE UNCHANGED vars
  BY <1>5 DEF vars
<1> QED
  BY <1>1, <1>2, <1>3, <1>4, <1>5 DEF Next, Work
----------------------------------------------------------------------------

\* With one builder, the manifest in its memory stays the one on the disk plus its
\* own entry, and the temporary file stays its own.
LEMMA UpdateStep ==
    ASSUME LockInv, NoLostUpdate, [Next]_vars
    PROVE  NoLostUpdate'
<1> SUFFICES ASSUME NEW t \in Tasks, pc'[t] \in {"write", "rename"}
             PROVE  /\ loaded'[t] = Add(manifest', EntryOf(t)')
                    /\ pc'[t] = "rename" => tmp' = loaded'[t]
  BY DEF NoLostUpdate
<1> USE DEF LockInv, TypeOK
<1>1. Building(t)' /\ OneBuilder
  BY Exclusion DEF Building, BuildingPC
<1>2. CASE pc'[t] # pc[t]
  <2>1. LoadManifest(t) \/ WriteTmp(t)
    BY <1>1, <1>2, BuilderStep DEF ImportDone, RemoveOld, OpenIndex, CreateSchema, StageCommit,
       InsertCommit, FinishIndex, CompleteIndex
  <2>2. CASE LoadManifest(t)
    BY <2>2 DEF LoadManifest, disk, EntryOf
  <2>3. CASE WriteTmp(t)
    BY <2>3 DEF WriteTmp, locals, EntryOf, NoLostUpdate
  <2> QED
    BY <2>1, <2>2, <2>3
<1>3. CASE pc'[t] = pc[t]
  <2>1. UNCHANGED <<job[t], corpus[t], loaded[t]>> /\ Building(t)
    BY <1>1, <1>3, BuilderStep DEF Building
  <2>2. UNCHANGED manifest
    <3>1. ~\E u \in Tasks : RenameManifest(u)
      BY <1>1, <1>3, <2>1 DEF RenameManifest, OneBuilder, Building, BuildingPC
    <3> QED
      BY <3>1, ManifestStep
  <2>3. pc[t] = "rename" => UNCHANGED tmp
    <3>1. ~\E u \in Tasks : RenameManifest(u)
      BY <1>1, <1>3, <2>1 DEF RenameManifest, OneBuilder, Building, BuildingPC
    <3>2. pc[t] = "rename" => ~\E u \in Tasks : WriteTmp(u)
      BY <1>1, <2>1 DEF WriteTmp, OneBuilder, Building, BuildingPC
    <3> QED
      BY <3>1, <3>2, TmpStep
  <2> QED
    BY <1>3, <2>1, <2>2, <2>3 DEF NoLostUpdate, EntryOf
<1> QED
  BY <1>2, <1>3

\* The id of the manifest's entries stays unique.
LEMMA UniqueStep ==
    ASSUME LockInv, NoLostUpdate, UniqueEntries, [Next]_vars
    PROVE  UniqueEntries'
<1>1. CASE UNCHANGED manifest
  BY <1>1 DEF UniqueEntries
<1>2. ASSUME NEW t \in Tasks, RenameManifest(t)
      PROVE  UniqueEntries'
  <2>1. manifest' = Add(manifest, EntryOf(t)) /\ EntryOf(t) \in Entry
    BY <1>2, EntryOfType DEF RenameManifest, NoLostUpdate, LockInv, HasJob
  <2> QED
    BY <2>1, AddKeeps DEF UniqueEntries, LockInv, TypeOK
<1> QED
  BY <1>1, <1>2, ManifestStep

\* The builder finds its own index and its own mark in `torn` as it left them.
LEMMA OwnedStep ==
    ASSUME LockInv, IndexOwned, [Next]_vars
    PROVE  IndexOwned'
<1> SUFFICES ASSUME NEW t \in Tasks, Building(t)'
             PROVE  /\ pc'[t] # "remove" => job'[t] \in torn'
                    /\ pc'[t] \in {"complete", "load", "write", "rename"} =>
                         index'[job'[t]] = [phase |-> "ready", docs |-> Docs[corpus'[t]],
                                            corpus |-> corpus'[t]]
  BY DEF IndexOwned, Building, BuildingPC
<1> USE DEF LockInv, TypeOK
<1>1. OneBuilder
  BY Exclusion
<1>2. CASE pc'[t] # pc[t]
  <2>1. job[t] \in Ids /\ corpus[t] \in Corpora
    BY <1>2, BuilderStep DEF HasJob, ImportDone, RemoveOld, OpenIndex, CreateSchema,
       StageCommit, InsertCommit, FinishIndex, CompleteIndex, LoadManifest, WriteTmp
  <2>2. CASE ImportDone(t)
    BY <2>2 DEF ImportDone, Building, BuildingPC
  <2>3. CASE RemoveOld(t)
    BY <2>3, <2>1 DEF RemoveOld, locals
  <2>4. CASE OpenIndex(t) \/ CreateSchema(t) \/ StageCommit(t) \/ InsertCommit(t)
    BY <2>4, <2>1 DEF IndexOwned, Building, BuildingPC, locals, OpenIndex, CreateSchema,
       StageCommit, InsertCommit
  <2>5. CASE FinishIndex(t)
    BY <2>5, <2>1 DEF IndexOwned, Building, BuildingPC, locals, FinishIndex, SetIndex
  <2>6. CASE CompleteIndex(t) \/ LoadManifest(t) \/ WriteTmp(t)
    BY <2>6, <2>1 DEF IndexOwned, Building, BuildingPC, locals, disk, CompleteIndex,
       LoadManifest, WriteTmp
  <2> QED
    BY <1>2, <2>2, <2>3, <2>4, <2>5, <2>6, BuilderStep
<1>3. CASE pc'[t] = pc[t]
  <2>1. UNCHANGED <<job[t], corpus[t]>> /\ Building(t)
    BY <1>3, BuilderStep DEF Building
  <2>2. ASSUME NEW u \in Tasks,
               \/ RemoveOld(u) \/ OpenIndex(u) \/ CreateSchema(u) \/ StageCommit(u)
               \/ InsertCommit(u) \/ FinishIndex(u) \/ RenameManifest(u)
        PROVE  FALSE
    <3>1. u = t
      BY <1>1, <2>1, <2>2 DEF OneBuilder, Building, BuildingPC, RemoveOld, OpenIndex,
         CreateSchema, StageCommit, InsertCommit, FinishIndex, RenameManifest
    <3> QED
      BY <1>3, <2>2, <3>1 DEF RemoveOld, OpenIndex, CreateSchema, StageCommit, InsertCommit,
         FinishIndex, RenameManifest
  <2>3. UNCHANGED <<index, torn>>
    BY <2>2, IndexStep
  <2> QED
    BY <1>3, <2>1, <2>3 DEF IndexOwned
<1> QED
  BY <1>2, <1>3

\* An entry and its index stay in step.
LEMMA MatchStep ==
    ASSUME LockInv, NoLostUpdate, IndexOwned, EntriesMatchIndex, [Next]_vars
    PROVE  EntriesMatchIndex'
<1> USE DEF LockInv, TypeOK
<1>1. ASSUME NEW t \in Tasks, RenameManifest(t)
      PROVE  EntriesMatchIndex'
  <2>1. manifest' = Add(manifest, EntryOf(t)) /\ UNCHANGED index /\ torn' = torn \ {job[t]}
    BY <1>1 DEF RenameManifest, NoLostUpdate
  <2>2. index[job[t]] = [phase |-> "ready", docs |-> Docs[corpus[t]], corpus |-> corpus[t]]
    BY <1>1 DEF RenameManifest, IndexOwned
  <2> QED
    BY <2>1, <2>2 DEF EntriesMatchIndex, Add, EntryOf
<1>2. ASSUME NEW t \in Tasks,
             \/ RemoveOld(t) \/ OpenIndex(t) \/ CreateSchema(t) \/ StageCommit(t)
             \/ InsertCommit(t) \/ FinishIndex(t)
      PROVE  EntriesMatchIndex'
  <2>1. UNCHANGED manifest /\ torn \subseteq torn' /\ job[t] \in torn'
    BY <1>2 DEF RemoveOld, OpenIndex, CreateSchema, StageCommit, InsertCommit, FinishIndex,
       IndexOwned, Building, BuildingPC
  <2>2. \A i \in Ids : i # job[t] => index'[i] = index[i]
    BY <1>2 DEF RemoveOld, OpenIndex, CreateSchema, StageCommit, InsertCommit, FinishIndex,
       SetIndex
  <2> QED
    BY <2>1, <2>2 DEF EntriesMatchIndex, Entry
<1>3. CASE UNCHANGED <<index, torn>>
  <2>1. UNCHANGED manifest \/ \E t \in Tasks : RenameManifest(t)
    BY ManifestStep
  <2> QED
    BY <1>1, <1>3, <2>1 DEF EntriesMatchIndex
<1> QED
  BY <1>1, <1>2, <1>3, IndexStep

----------------------------------------------------------------------------

LEMMA InitInv == Init => IInv
<1> SUFFICES ASSUME Init PROVE IInv
  OBVIOUS
<1> USE DEF Init
<1>1. TypeOK
  BY ProcsAssumption DEF TypeOK, NoRow, Row, IndexFile, Phase, Absent, LockLevel, PC
<1>2. HasJob /\ LockSound /\ RunsUp /\ OneThread /\ BusySet /\ HoldsJournal
  BY ProcsAssumption DEF HasJob, LockSound, RunsUp, OneThread, BusySet, HoldsJournal, Building,
     BuildingPC
<1>3. NoLostUpdate /\ UniqueEntries /\ IndexOwned /\ EntriesMatchIndex
  BY DEF NoLostUpdate, UniqueEntries, IndexOwned, EntriesMatchIndex, Building, BuildingPC
<1> QED
  BY <1>1, <1>2, <1>3 DEF IInv, LockInv

LEMMA StepInv == IInv /\ [Next]_vars => IInv'
  BY LockStep, UpdateStep, UniqueStep, OwnedStep, MatchStep DEF IInv

\* Every reachable state satisfies the inductive invariant.
THEOREM Invariance == Spec => []IInv
  BY InitInv, StepInv, PTL DEF Spec

----------------------------------------------------------------------------

\* The state is well typed, whatever the numbers of processes, ids and corpora.
THEOREM Typing == Spec => []TypeOK
<1>1. IInv => TypeOK
  BY DEF IInv, LockInv
<1> QED
  BY <1>1, Invariance, PTL

\* At most one build touches the files of the disk, across all its processes
\* (AppState.busy and the journal's EXCLUSIVE lock).
THEOREM MutualExclusion == Spec => []OneBuilder
<1>1. IInv => OneBuilder
  BY Exclusion DEF IInv
<1> QED
  BY <1>1, Invariance, PTL

\* The manifest a build is about to rename is the one on the disk with its own
\* entry replaced: no update of another build is lost.
THEOREM ReadModifyWrite == Spec => []NoLostUpdate
<1>1. IInv => NoLostUpdate
  BY DEF IInv
<1> QED
  BY <1>1, Invariance, PTL

\* The manifest never holds two entries for one id (Manifest::add).
THEOREM OneEntryPerId == Spec => []UniqueEntries
<1>1. IInv => UniqueEntries
  BY DEF IInv
<1> QED
  BY <1>1, Invariance, PTL

\* An entry describes the very index on the disk, unless a build of its corpus
\* removed the index and did not reach its own entry.
THEOREM Faithful == Spec => []EntriesMatchIndex
<1>1. IInv => EntriesMatchIndex
  BY DEF IInv
<1> QED
  BY <1>1, Invariance, PTL

\* What the manifest describes before a step, it describes after it.
LEMMA StepRemembers ==
    ASSUME IInv, [Next]_vars
    PROVE  \A e \in manifest : \E f \in manifest' : f.id = e.id
<1>1. CASE UNCHANGED manifest
  BY <1>1
<1>2. ASSUME NEW t \in Tasks, RenameManifest(t)
      PROVE  \A e \in manifest : \E f \in manifest' : f.id = e.id
  <2>1. manifest' = Add(manifest, EntryOf(t)) /\ EntryOf(t) \in Entry
    BY <1>2, EntryOfType DEF RenameManifest, IInv, NoLostUpdate, LockInv, HasJob
  <2> QED
    BY <2>1, AddKeeps DEF IInv, LockInv, TypeOK
<1> QED
  BY <1>1, <1>2, ManifestStep

\* No step forgets a corpus the manifest describes.
THEOREM Remembers == Spec => NeverForgotten
<1>1. IInv /\ [Next]_vars => [\A e \in manifest : \E f \in manifest' : f.id = e.id]_vars
  BY StepRemembers
<1> QED
  BY <1>1, Invariance, PTL DEF Spec, NeverForgotten

----------------------------------------------------------------------------

\* The pairs the refinement mapping gives to the catalogue's `building`.
AtWork == {<<t, job[t]>> : t \in {u \in Tasks : Building(u)}}

\* With one builder they are that builder's pair.
LEMMA AtWorkOne ==
    ASSUME OneBuilder, NEW t \in Tasks, Building(t)
    PROVE  AtWork = {<<t, job[t]>>}
  BY DEF AtWork, OneBuilder

\* Renaming publishes the builder's entry and nothing else.
LEMMA RenamePublishes ==
    ASSUME IInv, NEW t \in Tasks, RenameManifest(t)
    PROVE  Disk!Publish(t, job[t], EntryOf(t))
<1> USE DEF IInv, LockInv, TypeOK
<1>1. EntryOf(t) \in Entry /\ EntryOf(t).id = job[t] /\ job[t] \in Ids
  BY EntryOfType DEF RenameManifest, HasJob, EntryOf
<1>2. OneBuilder /\ Building(t) /\ ~Building(t)'
  BY Exclusion DEF RenameManifest, Building, BuildingPC
<1>3. AtWork = {<<t, job[t]>>}
  BY <1>2, AtWorkOne
<1>4. AtWork' = {}
  BY <1>2 DEF AtWork, OneBuilder, RenameManifest, locals, Building, BuildingPC
<1>5. manifest' = Add(manifest, EntryOf(t))
  BY DEF RenameManifest, NoLostUpdate
<1>6. [i \in Ids |-> {e \in manifest : e.id = i}]'
        = [[i \in Ids |-> {e \in manifest : e.id = i}] EXCEPT ![job[t]] = {EntryOf(t)}]
  <2>1. \A i \in Ids : i # job[t] =>
            {e \in manifest' : e.id = i} = {e \in manifest : e.id = i}
    BY <1>1, <1>5 DEF Add
  <2>2. {e \in manifest' : e.id = job[t]} = {EntryOf(t)}
    BY <1>1, <1>5 DEF Add
  <2> QED
    BY <1>1, <2>1, <2>2
<1> QED
  BY <1>1, <1>3, <1>4, <1>6 DEF Disk!Publish, AtWork
\* Completing the extraction finds no other builder at work: it needs the lock
\* that another process would hold, and its own process runs no other build.
LEMMA BeginAlone ==
    ASSUME LockInv, NEW t \in Tasks, ImportDone(t)
    PROVE  AtWork = {}
<1> SUFFICES ASSUME NEW u \in Tasks, Building(u)
             PROVE  FALSE
  BY DEF AtWork
<1>1. lock[Owner[u]] = "exclusive"
  BY DEF LockInv, HoldsJournal
<1>2. Owner[u] = Owner[t]
  BY <1>1, ProcsAssumption DEF ImportDone, Complete, WriteJournal, CanWrite
<1>3. u = t
  BY <1>2 DEF LockInv, OneThread, ImportDone, Building, BuildingPC
<1> QED
  BY <1>3 DEF ImportDone, Building, BuildingPC

\* A step that leaves a builder at work began its build or continues it.
LEMMA WorkGoesOn ==
    ASSUME LockInv, OneBuilder', [Next]_vars, NEW t \in Tasks, Building(t)'
    PROVE  /\ AtWork' = {<<t, job[t]>>}
           /\ AtWork = {<<t, job[t]>>} \/ (AtWork = {} /\ job[t] \in Ids)
<1> USE DEF LockInv, TypeOK
<1>1. CASE ImportDone(t)
  <2>1. job'[t] = job[t] /\ job[t] \in Ids
    BY <1>1 DEF ImportDone, HasJob
  <2> QED
    BY <1>1, <2>1, BeginAlone DEF AtWork, OneBuilder
<1>2. CASE ~ImportDone(t)
  <2>1. Building(t) /\ job'[t] = job[t]
    BY <1>2, BuilderStep DEF Building, BuildingPC, disk, locals, RemoveOld, OpenIndex,
       CreateSchema, StageCommit, InsertCommit, FinishIndex, CompleteIndex, LoadManifest, WriteTmp
  <2>2. AtWork = {<<t, job[t]>>}
    BY <2>1, Exclusion, AtWorkOne
  <2> QED
    BY <2>1, <2>2 DEF AtWork, OneBuilder
<1> QED
  BY <1>1, <1>2

\* Every step of the pipeline is a step of the catalogue or a stutter.
LEMMA StepImplements ==
    ASSUME IInv, OneBuilder', [Next]_vars
    PROVE  [Disk!Next]_<<[i \in Ids |-> {e \in manifest : e.id = i}], AtWork>>
<1>1. ASSUME NEW t \in Tasks, RenameManifest(t)
      PROVE  Disk!Next
  <2>1. EntryOf(t) \in Entry /\ job[t] \in Ids
    BY <1>1, EntryOfType DEF RenameManifest, IInv, LockInv, HasJob
  <2>2. Disk!Publish(t, job[t], EntryOf(t))
    BY <1>1, RenamePublishes
  <2>3. \E b \in Tasks, i \in Ids : \E e \in Entry : Disk!Publish(b, i, e)
    BY <2>1, <2>2 DEF Disk!Publish
  <2> QED
    BY <2>3 DEF Disk!Next
<1>2. CASE UNCHANGED manifest
  <2>1. [i \in Ids |-> {e \in manifest : e.id = i}]' = [i \in Ids |-> {e \in manifest : e.id = i}]
    BY <1>2
  <2>2. CASE \E t \in Tasks : Building(t)'
    <3>1. PICK t \in Tasks : Building(t)'
      BY <2>2
    <3>2. AtWork' = {<<t, job[t]>>}
      BY <3>1, WorkGoesOn DEF IInv
    <3>3. AtWork = {<<t, job[t]>>} \/ (AtWork = {} /\ job[t] \in Ids)
      BY <3>1, WorkGoesOn DEF IInv
    <3>4. CASE AtWork = {} /\ job[t] \in Ids
      BY <2>1, <3>2, <3>4 DEF Disk!Next, Disk!Begin, AtWork
    <3> QED
      BY <2>1, <3>2, <3>3, <3>4
  <2>3. CASE ~\E t \in Tasks : Building(t)'
    <3>1. AtWork' = {}
      BY <2>3 DEF AtWork
    <3>2. CASE AtWork = {}
      BY <2>1, <3>1, <3>2
    <3>3. CASE AtWork # {}
      BY <2>1, <3>1, <3>3 DEF Disk!Next, Disk!Abandon, AtWork
    <3> QED
      BY <3>2, <3>3
  <2> QED
    BY <2>2, <2>3
<1> QED
  BY <1>1, <1>2, ManifestStep

\* The build pipeline, with all its processes, crashes and failures, implements
\* the catalogue with one builder at a time.
THEOREM Implementation == Spec => ImplementsCatalogue
<1>1. Init => Disk!Init
  BY DEF Init, Disk!Init, Building, BuildingPC
<1>2. IInv => OneBuilder
  BY Exclusion DEF IInv
<1>3. IInv /\ OneBuilder' /\ [Next]_vars
        => [Disk!Next]_<<[i \in Ids |-> {e \in manifest : e.id = i}],
                         {<<t, job[t]>> : t \in {u \in Tasks : Building(u)}}>>
  BY StepImplements DEF AtWork
<1> QED
  BY <1>1, <1>2, <1>3, Invariance, PTL DEF Spec, Disk!Spec, ImplementsCatalogue
=============================================================================
