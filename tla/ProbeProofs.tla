---------------------------- MODULE ProbeProofs ----------------------------
(***************************************************************************)
(* Proof that GET /api/health answers rightly about every index that is    *)
(* whole throughout the request (HealthRight), for every set of processes, *)
(* ids and corpora.                                                        *)
(*                                                                         *)
(* The invariant ties four things together: an entry, of the manifest, of  *)
(* the medium or of the request under way, describes the file of its id    *)
(* unless that id is torn, damaged or (on the medium) not written back.    *)
(* A build that could lock, remove or replace the file has its id in       *)
(* `torn`, which the request notes in `doubtful`.                          *)
(***************************************************************************)
EXTENDS HealthProofs

\* The entry describes the index file that is there.
Described(e) == index[e.id] = [phase |-> "ready", docs |-> e.docs, corpus |-> e.corpus]

ManifestHolds == \A e \in manifest : e.id \notin torn \cup damaged => Described(e)

StableHolds == \A e \in stable : e.id \notin torn \cup damaged \cup cached => Described(e)

\* What the request still has to answer, or is answering.
Probing == ask \in {"open", "query", "close"}
Asked == left \cup (IF Probing THEN {entry} ELSE {})

AskTypeOK ==
    /\ ask \in {"none", "next", "open", "query", "close"}
    /\ Asked \subseteq Entry
    /\ ask \notin {"query", "close"} => gone = Absent

RequestHolds ==
    ask # "none" =>
        /\ torn \cup damaged \subseteq doubtful
        /\ \A e \in Asked : e.id \notin doubtful => Described(e)

\* A file that nobody builds is not removed while it is open.
StaysInPlace == ask \in {"query", "close"} /\ entry.id \notin doubtful => gone = Absent

DiskHolds == IndexOwned /\ ManifestHolds /\ StableHolds

\* The inductive invariant, beside PInv.
HInv == DiskHolds /\ AskTypeOK /\ RequestHolds /\ StaysInPlace

USE DEF Procs

----------------------------------------------------------------------------
(* The disk *)

\* A build that gives up leaves the files as they are.
LEMMA GiveUpOwned ==
    ASSUME PInv, IndexOwned, NEW t \in Tasks, ReturnErr(t), Building(t),
           UNCHANGED <<disk, locals, torn>>
    PROVE  IndexOwned'
  BY DEF PInv, LockInv, TypeOK, IndexOwned, ReturnErr, Building, BuildingPC, disk, locals

\* A step of the pipeline writes to the index of a torn id at most, and what it
\* writes is cached.
LEMMA BuildTouches ==
    ASSUME PInv, IndexOwned, NEW t \in Tasks, BuildStep(t)
    PROVE  /\ UNCHANGED <<manifest, stable>>
           /\ cached \subseteq cached' /\ torn \subseteq torn'
           /\ damaged \subseteq damaged' \cup torn'
           /\ \A i \in Ids : i \notin torn' => index'[i] = index[i]
           /\ IndexOwned'
<1> USE DEF PInv, LockInv, TypeOK
<1>1. UNCHANGED <<manifest, stable>> /\ cached \subseteq cached'
  BY BuildKeeps DEF BuildStep
<1>2. CASE LoadFails(t)
  <2>1. Building(t)
    BY <1>2 DEF LoadFails, Building, BuildingPC
  <2> QED
    BY <1>1, <1>2, <2>1, GiveUpOwned DEF LoadFails, BuildStep, disk
<1>3. CASE ~LoadFails(t)
  <2>1. [Next]_vars /\ ~RenameManifest(t)
    BY <1>3 DEF BuildStep, Next, Work, SaveManifest, Import, BuildIndex, EndBuild, ImportMark,
       ImportDone, ImportUnreadable, RemoveOld, OpenIndex, CreateSchema, StageMark, StageCommit,
       InsertMark, InsertCommit, FinishIndex, CompleteIndex, JournalBusy, RecordFailure,
       DropFailure, Release, Exit, ReturnErr, LoadManifest, WriteTmp, RenameManifest
  <2>2. IndexOwned'
    BY <2>1, OwnedStep
  <2>3. ASSUME NEW u \in Tasks,
               \/ RemoveOld(u) \/ OpenIndex(u) \/ CreateSchema(u) \/ StageCommit(u)
               \/ InsertCommit(u) \/ FinishIndex(u)
        PROVE  torn \subseteq torn' /\ \A i \in Ids : i \notin torn' => index'[i] = index[i]
    BY <2>3 DEF RemoveOld, OpenIndex, CreateSchema, StageCommit, InsertCommit, FinishIndex,
       SetIndex, IndexOwned, Building, BuildingPC
  <2>4. ASSUME NEW u \in Tasks, RenameManifest(u)
        PROVE  FALSE
    <3>1. u # t
      BY <2>1, <2>4
    <3>2. pc'[u] = pc[u]
      BY <1>3, <3>1 DEF BuildStep, Import, BuildIndex, EndBuild, ImportMark, ImportDone,
         ImportUnreadable, RemoveOld, OpenIndex, CreateSchema, StageMark, StageCommit,
         InsertMark, InsertCommit, FinishIndex, CompleteIndex, JournalBusy, RecordFailure,
         DropFailure, Release, Exit, ReturnErr, LoadManifest, WriteTmp
    <3> QED
      BY <2>4, <3>2 DEF RenameManifest
  <2>5. torn \subseteq torn' /\ \A i \in Ids : i \notin torn' => index'[i] = index[i]
    BY <2>1, <2>3, <2>4, IndexStep
  <2>6. damaged \subseteq damaged' \cup torn'
    <3>1. CASE pc[t] = "remove" /\ pc'[t] = "open"
      <4>1. RemoveOld(t)
        BY <1>3, <3>1 DEF BuildStep, Import, BuildIndex, EndBuild, ImportMark, ImportDone,
           ImportUnreadable, OpenIndex, CreateSchema, StageMark, StageCommit, InsertMark,
           InsertCommit, FinishIndex, CompleteIndex, JournalBusy, RecordFailure, DropFailure,
           Release, Exit, LoadManifest, WriteTmp
      <4> QED
        BY <4>1 DEF RemoveOld, BuildStep
    <3> QED
      BY <3>1 DEF BuildStep
  <2> QED
    BY <1>1, <2>2, <2>5, <2>6
<1> QED
  BY <1>2, <1>3

\* The rename replaces the entry of the index that was just finished.
LEMMA SaveTouches ==
    ASSUME PInv, IndexOwned, NEW t \in Tasks, SaveStep(t)
    PROVE  /\ manifest' = Add(manifest, EntryOf(t)) /\ Described(EntryOf(t))
           /\ torn' = torn \ {job[t]} /\ cached' = cached \cup {job[t]}
           /\ UNCHANGED <<index, stable, damaged>>
           /\ IndexOwned'
<1>1. RenameManifest(t)
  BY DEF SaveStep
<1>2. [Next]_vars
  BY <1>1 DEF Next, Work, SaveManifest
<1>3. IndexOwned'
  BY <1>2, OwnedStep DEF PInv
<1>4. manifest' = Add(manifest, EntryOf(t)) /\ Described(EntryOf(t))
  BY <1>1 DEF RenameManifest, PInv, NoLostUpdate, IndexOwned, Described, EntryOf
<1> QED
  BY <1>1, <1>3, <1>4 DEF SaveStep, RenameManifest

\* What happens to the files while requests and builds go on elsewhere.
LEMMA OtherTouches ==
    ASSUME PInv, IndexOwned, OtherStep
    PROVE  UNCHANGED <<manifest, index, torn, powerVars>> /\ IndexOwned'
<1>1. [Next]_vars
  BY DEF OtherStep, Next
<1>2. IndexOwned'
  BY <1>1, OwnedStep DEF PInv
<1> QED
  BY <1>2 DEF OtherStep, ProcStep, Request, OpenJournal, CreateTable, OpenBusy, Crash, PostBuild,
     CliBuild, Accept, IOFail, disk

----------------------------------------------------------------------------
(* What holds of the entries on the disk and on the medium *)

\* A step that writes to torn ids at most keeps every other entry true.
LEMMA DiskKept ==
    ASSUME PInv, DiskHolds, IndexOwned', UNCHANGED <<manifest, stable>>,
           cached \subseteq cached', torn \subseteq torn', damaged \subseteq damaged' \cup torn',
           \A i \in Ids : i \notin torn' => index'[i] = index[i]
    PROVE  DiskHolds'
  BY DEF PInv, LockInv, TypeOK, PowerTypeOK, DiskHolds, ManifestHolds, StableHolds, Described,
     Entry

LEMMA SaveDisk ==
    ASSUME PInv, DiskHolds, NEW t \in Tasks, SaveStep(t)
    PROVE  DiskHolds'
<1>1. EntryOf(t).id = job[t]
  BY DEF EntryOf
<1>2. \A e \in manifest' : e = EntryOf(t) \/ (e \in manifest /\ e.id # job[t])
  BY <1>1, SaveTouches DEF DiskHolds, Add
<1> QED
  BY <1>1, <1>2, SaveTouches DEF DiskHolds, ManifestHolds, StableHolds, Described

LEMMA BlackoutDisk ==
    ASSUME PInv, DiskHolds, Blackout
    PROVE  DiskHolds'
<1>1. IndexOwned'
  BY DEF Blackout, IndexOwned, Building, BuildingPC
<1>2. ManifestHolds' /\ StableHolds'
  BY DEF Blackout, DiskHolds, ManifestHolds, StableHolds, Described
<1> QED
  BY <1>1, <1>2 DEF DiskHolds

LEMMA WriteBackDisk ==
    ASSUME DiskHolds, WriteBack
    PROVE  DiskHolds'
  BY DEF WriteBack, vars, DiskHolds, IndexOwned, Building, ManifestHolds, StableHolds, Described

----------------------------------------------------------------------------
(* What holds of the request under way *)

\* Watch notes what is torn, and a file removed while it is open.
LEMMA WatchKeeps ==
    ASSUME AskTypeOK, RequestHolds, StaysInPlace, Watch,
           \A i \in Ids : i \notin torn' => index'[i] = index[i]
    PROVE  AskTypeOK' /\ RequestHolds' /\ StaysInPlace'
<1>1. Asked' = Asked /\ AskTypeOK'
  BY DEF Watch, Asked, Probing, AskTypeOK
<1>2. RequestHolds'
  BY <1>1 DEF Watch, RequestHolds, AskTypeOK, Described, Entry
<1>3. ASSUME ask \in {"query", "close"}, entry.id \notin doubtful'
      PROVE  gone = Absent /\ index'[entry.id] # Absent
  <2>1. entry \in Asked /\ ask' = ask /\ entry' = entry
    BY <1>3 DEF Watch, Asked, Probing
  <2>2. entry.id \notin doubtful
    BY <1>3 DEF Watch
  <2>3. Described(entry)'
    BY <1>1, <1>2, <1>3, <2>1 DEF RequestHolds
  <2>4. index'[entry.id] # Absent
    BY <2>1, <2>3 DEF Described, Absent
  <2> QED
    BY <1>3, <2>2, <2>4 DEF StaysInPlace
<1>4. StaysInPlace'
  BY <1>3 DEF Watch, StaysInPlace
<1> QED
  BY <1>1, <1>2, <1>4

LEMMA NoRequestKeeps ==
    ASSUME NoRequest
    PROVE  AskTypeOK' /\ RequestHolds' /\ StaysInPlace'
  BY DEF NoRequest, AskTypeOK, Asked, Probing, RequestHolds, StaysInPlace

\* Steps of the request that write nothing.
LEMMA ReadKeeps ==
    ASSUME PInv, HInv, Ask \/ (Probe /\ ~Open)
    PROVE  HInv'
<1>1. UNCHANGED diskVars
  BY DEF Ask, Probe, Found, Missing, Query, QueryBusy, Close, Reply
<1>2. DiskHolds'
  BY <1>1 DEF HInv, diskVars, vars, powerVars, DiskHolds, IndexOwned, Building, ManifestHolds,
     StableHolds, Described
<1> USE DEF HInv
<1>3. CASE Ask
  <2>1. Asked' = manifest /\ ask' = "next" /\ gone' = gone /\ gone = Absent
    BY <1>3 DEF Ask, Asked, Probing, AskTypeOK
  <2>2. AskTypeOK' /\ StaysInPlace'
    BY <2>1 DEF AskTypeOK, StaysInPlace, PInv, LockInv, TypeOK
  <2>3. RequestHolds'
    BY <1>1, <1>3, <2>1 DEF Ask, diskVars, vars, powerVars, RequestHolds, DiskHolds,
       ManifestHolds, Described
  <2> QED
    BY <1>2, <2>2, <2>3
<1>4. ASSUME NEW e \in left, Found(e) \/ Missing(e)
      PROVE  AskTypeOK' /\ RequestHolds' /\ StaysInPlace'
  BY <1>4 DEF Found, Missing, HInv, diskVars, vars, powerVars, AskTypeOK, Asked, Probing,
     RequestHolds, StaysInPlace, Described
<1>5. CASE Query
  <2>1. UNCHANGED <<diskVars, left, entry, gone, doubtful>> /\ ask = "query" /\ ask' = "close"
    BY <1>5 DEF Query
  <2> QED
    BY <1>2, <2>1 DEF diskVars, vars, powerVars, AskTypeOK, Asked, Probing, RequestHolds,
       StaysInPlace, Described
<1>6. CASE QueryBusy \/ Close
  <2>1. /\ UNCHANGED <<diskVars, left, doubtful>>
        /\ ask \in {"query", "close"} /\ ask' = "next" /\ gone' = Absent
    BY <1>6 DEF QueryBusy, Close, NextEntry
  <2>2. Asked' \subseteq Asked
    BY <2>1 DEF Asked, Probing
  <2>3. AskTypeOK' /\ StaysInPlace'
    BY <2>1, <2>2 DEF AskTypeOK, StaysInPlace
  <2>4. RequestHolds'
    BY <2>1, <2>2 DEF diskVars, vars, powerVars, RequestHolds, Described
  <2> QED
    BY <1>2, <2>3, <2>4
<1> QED
  BY <1>2, <1>3, <1>4, <1>5, <1>6, NoRequestKeeps DEF Probe, Reply, HInv

\* Only a missing file is created, and no entry describes a missing file.
LEMMA OpenKeeps ==
    ASSUME PInv, HInv, Open
    PROVE  HInv'
<1>1. \A i \in Ids : index[i].phase = "ready" => index'[i] = index[i]
  BY DEF Open, Absent, PInv, LockInv, TypeOK
<1>2. IndexOwned'
  BY <1>1 DEF Open, locals, HInv, DiskHolds, IndexOwned, Building, BuildingPC, PInv, LockInv,
     HasJob
<1>3. ManifestHolds' /\ StableHolds'
  BY <1>1 DEF Open, HInv, DiskHolds, ManifestHolds, StableHolds, Described, PInv, LockInv,
     TypeOK, PowerTypeOK, Entry
<1>4. AskTypeOK' /\ RequestHolds' /\ StaysInPlace'
  BY <1>1 DEF Open, HInv, AskTypeOK, Asked, Probing, RequestHolds, StaysInPlace, Described, Entry
<1> QED
  BY <1>2, <1>3, <1>4 DEF HInv, DiskHolds

----------------------------------------------------------------------------

LEMMA HealthInitInv == HealthInit => HInv
  BY InitInv DEF HealthInit, PowerInit, Init, IInv, HInv, DiskHolds, ManifestHolds, StableHolds,
     AskTypeOK, Asked, Probing, RequestHolds, StaysInPlace

LEMMA HealthStep ==
    ASSUME PInv, HInv, [HealthNext]_healthVars
    PROVE  HInv'
<1> USE DEF HInv
<1>1. ASSUME NEW t \in Tasks, Builder(t)
      PROVE  HInv'
  <2>1. Watch
    BY <1>1 DEF Builder
  <2>2. DiskHolds' /\ \A i \in Ids : i \notin torn' => index'[i] = index[i]
    <3>1. CASE BuildStep(t)
      BY <3>1, BuildTouches, DiskKept DEF DiskHolds
    <3>2. CASE SaveStep(t)
      BY <3>2, SaveTouches, SaveDisk DEF DiskHolds
    <3> QED
      BY <1>1, <3>1, <3>2 DEF Builder
  <2> QED
    BY <2>1, <2>2, WatchKeeps
<1>2. ASSUME NEW t \in Tasks, BuilderBusy(t)
      PROVE  HInv'
  <2>1. Building(t) /\ ReturnErr(t) /\ UNCHANGED <<disk, locals, torn, powerVars, askVars>>
    BY <1>2 DEF BuilderBusy, Building, BuildingPC
  <2>2. IndexOwned'
    BY <2>1, GiveUpOwned DEF DiskHolds
  <2> QED
    BY <2>1, <2>2 DEF disk, powerVars, askVars, DiskHolds, ManifestHolds, StableHolds, Described,
       AskTypeOK, Asked, Probing, RequestHolds, StaysInPlace
<1>3. CASE Around
  <2>1. DiskHolds' /\ \A i \in Ids : i \notin torn' => index'[i] = index[i]
    <3>1. CASE OtherStep
      BY <3>1, OtherTouches, DiskKept DEF DiskHolds, powerVars
    <3>2. CASE WriteBack
      BY <3>2, WriteBackDisk DEF WriteBack, vars
    <3>3. CASE Blackout
      BY <3>3, BlackoutDisk DEF Blackout
    <3> QED
      BY <1>3, <3>1, <3>2, <3>3 DEF Around
  <2> QED
    BY <1>3, <2>1, WatchKeeps, NoRequestKeeps DEF Around
<1>4. CASE UNCHANGED healthVars
  BY <1>4 DEF healthVars, diskVars, vars, powerVars, askVars, DiskHolds, IndexOwned, Building,
     ManifestHolds, StableHolds, Described, AskTypeOK, Asked, Probing, RequestHolds, StaysInPlace
<1> QED
  BY <1>1, <1>2, <1>3, <1>4, ReadKeeps, OpenKeeps DEF HealthNext, Probe

\* Every reachable state satisfies both invariants.
THEOREM HealthInvariance == HealthSpec => [](PInv /\ HInv)
<1>1. PInv /\ HInv /\ [HealthNext]_healthVars => HInv'
  BY HealthStep
<1> QED
  BY <1>1, HealthInitInv, PowerInvariance, PTL DEF HealthSpec

\* What a step of the request answers is right about an index that is whole.
LEMMA AnswersRight ==
    ASSUME PInv, HInv, [HealthNext]_healthVars,
           NEW v \in verdicts' \ verdicts, v.entry.id \notin doubtful
    PROVE  v.ok /\ v.docs = v.entry.docs
<1> USE DEF HInv
<1>1. CASE Query
  <2>1. entry \in Asked /\ ask = "query"
    BY <1>1 DEF Query, Asked, Probing
  <2>2. v.entry = entry
    BY <1>1 DEF Query, Good, Bad
  <2>3. Described(entry) /\ gone = Absent /\ entry.id \notin damaged
    BY <2>1, <2>2 DEF RequestHolds, StaysInPlace
  <2> QED
    BY <1>1, <2>3 DEF Query, Opened, Described, Good
<1>2. CASE QueryBusy
  <2>1. entry \in Asked /\ v.entry = entry /\ entry.id \notin torn
    BY <1>2 DEF QueryBusy, Asked, Probing, Bad, RequestHolds
  <2>2. entry.id \in torn
    BY <1>2 DEF QueryBusy, IndexLocked, DiskHolds, IndexOwned, Building, BuildingPC
  <2> QED
    BY <2>1, <2>2
<1>3. ASSUME NEW e \in left, Missing(e)
      PROVE  FALSE
  <2>1. v.entry = e /\ e \in Asked /\ ask # "none"
    BY <1>3 DEF Missing, Bad, Asked
  <2>2. e.id \notin doubtful
    BY <2>1
  <2>3. Described(e)
    BY <2>1, <2>2 DEF RequestHolds
  <2> QED
    BY <1>3, <2>3 DEF Missing, Absent, Described
<1>4. CASE verdicts' \subseteq verdicts
  BY <1>4
<1>5. \/ Query \/ QueryBusy \/ verdicts' \subseteq verdicts
      \/ \E e \in left : Missing(e)
  BY DEF HealthNext, healthVars, askVars, Ask, Probe, Open, Close, NextEntry, Reply, NoRequest,
     Found, Builder, BuilderBusy, Around, Watch
<1> QED
  BY <1>1, <1>2, <1>3, <1>4, <1>5

\* No false alarm and no false number about an index that is whole throughout the
\* request, whatever builds, crashes and power losses do meanwhile.
THEOREM HealthIsRight == HealthSpec => HealthRight
<1>1. PInv /\ HInv /\ [HealthNext]_healthVars
        => [\A v \in verdicts' \ verdicts :
              v.entry.id \notin doubtful => v.ok /\ v.docs = v.entry.docs]_healthVars
  BY AnswersRight
<1> QED
  BY <1>1, HealthInvariance, PTL DEF HealthSpec, HealthRight
=============================================================================
