---------------------------- MODULE HealthProofs ----------------------------
(***************************************************************************)
(* Proofs about PowerLoss and Health, for every set of processes, ids and  *)
(* corpora.                                                                *)
(*                                                                         *)
(* Power losses and probes leave the argument of ForgeProofs intact where  *)
(* it is about locks and the manifest: a power loss leaves no process and  *)
(* so no lock, and a probe changes an index file only.  What is new is     *)
(* that a manifest that does not parse stops every build before its write: *)
(* no build is between its load and its rename while the file is broken.   *)
(***************************************************************************)
EXTENDS Health, ForgeProofs

\* No build is about to write while the manifest does not parse.
HalfStops == half => \A t \in Tasks : pc[t] \notin {"write", "rename"}

\* What is on the medium is described, unless the manifest does not parse.
StableDescribed == ~half => \A e \in stable : \E f \in manifest : f.id = e.id

\* What a step does for what is on the medium.
Durable ==
    /\ half => half'
    /\ ~half' => \A e \in stable : \E f \in manifest' : f.id = e.id

PowerTypeOK == half \in BOOLEAN /\ stable \in SUBSET Entry

\* The inductive invariant.
PInv == LockInv /\ NoLostUpdate /\ PowerTypeOK /\ HalfStops /\ StableDescribed

USE DEF Procs

----------------------------------------------------------------------------

\* A build that gives up for a reason Forge does not know leaves its invariant.
LEMMA GiveUp ==
    ASSUME LockInv, NoLostUpdate, NEW t \in Tasks, ReturnErr(t), Building(t),
           UNCHANGED <<disk, lock, proc, busy, locals, started, torn>>
    PROVE  /\ LockInv' /\ NoLostUpdate'
           /\ \A u \in Tasks : pc'[u] \in {"write", "rename"} => pc[u] \in {"write", "rename"}
<1> USE DEF ReturnErr, disk, locals, LockInv, TypeOK, Building, BuildingPC
<1>1. TypeOK'
  BY DEF PC
<1>2. HasJob' /\ LockSound' /\ RunsUp' /\ OneThread' /\ BusySet' /\ HoldsJournal'
  BY DEF HasJob, LockSound, RunsUp, OneThread, BusySet, HoldsJournal
<1>3. NoLostUpdate'
  BY DEF NoLostUpdate, EntryOf
<1> QED
  BY <1>1, <1>2, <1>3

\* A step of the pipeline that is one of Forge's keeps Forge's invariant.
LEMMA ForgeKeeps ==
    ASSUME PInv, [Next]_vars
    PROVE  LockInv' /\ NoLostUpdate'
  BY LockStep, UpdateStep DEF PInv

\* What a step of the pipeline other than the rename does to the manifest, and
\* which builds it lets write.
LEMMA BuildKeeps ==
    ASSUME PInv, NEW t \in Tasks, BuildStep(t)
    PROVE  /\ LockInv' /\ NoLostUpdate'
           /\ UNCHANGED <<manifest, stable, half>>
           /\ HalfStops'
<1>1. CASE LoadFails(t)
  <2>1. Building(t)
    BY <1>1 DEF LoadFails, Building, BuildingPC
  <2> QED
    BY <1>1, <2>1, GiveUp DEF LoadFails, BuildStep, PInv, HalfStops, disk
<1>2. CASE ~half /\ LoadManifest(t)
  <2>1. [Next]_vars
    BY <1>2 DEF Next, Work, SaveManifest
  <2> QED
    BY <1>2, <2>1, ForgeKeeps DEF LoadManifest, disk, BuildStep, HalfStops
<1>3. CASE WriteTmp(t)
  <2>1. [Next]_vars
    BY <1>3 DEF Next, Work, SaveManifest
  <2>2. ~half
    BY <1>3 DEF WriteTmp, PInv, HalfStops
  <2> QED
    BY <1>3, <2>1, <2>2, ForgeKeeps DEF WriteTmp, BuildStep, HalfStops
<1>4. CASE Import(t) \/ BuildIndex(t) \/ JournalBusy(t) \/ EndBuild(t)
  <2>1. [Next]_vars
    BY <1>4 DEF Next, Work
  <2>2. UNCHANGED manifest
    BY <1>4 DEF Import, BuildIndex, EndBuild, ImportMark, ImportDone, ImportUnreadable,
       RemoveOld, OpenIndex, CreateSchema, StageMark, StageCommit, InsertMark, InsertCommit,
       FinishIndex, CompleteIndex, JournalBusy, RecordFailure, DropFailure, Release, Exit, disk
  <2>3. \A u \in Tasks : pc'[u] \in {"write", "rename"} => pc[u] \in {"write", "rename"}
    BY <1>4 DEF PInv, LockInv, TypeOK, Import, BuildIndex, EndBuild, ImportMark, ImportDone,
       ImportUnreadable, ReturnErr,
       RemoveOld, OpenIndex, CreateSchema, StageMark, StageCommit, InsertMark, InsertCommit,
       FinishIndex, CompleteIndex, JournalBusy, RecordFailure, DropFailure, Release, Exit
  <2> QED
    BY <2>1, <2>2, <2>3, ForgeKeeps DEF BuildStep, PInv, HalfStops
<1> QED
  BY <1>1, <1>2, <1>3, <1>4 DEF BuildStep

\* After a power loss nothing runs and nothing is locked.
LEMMA BlackoutKeeps ==
    ASSUME PInv, Blackout
    PROVE  PInv' /\ Durable
<1> USE DEF PInv, LockInv, TypeOK, PowerTypeOK
<1>1. TypeOK'
  BY DEF Blackout, PC, LockLevel
<1>2. HasJob' /\ LockSound' /\ RunsUp' /\ OneThread' /\ BusySet' /\ HoldsJournal'
  BY DEF Blackout, HasJob, LockSound, RunsUp, OneThread, BusySet, HoldsJournal, Building,
     BuildingPC
<1>3. NoLostUpdate' /\ HalfStops'
  BY DEF Blackout, NoLostUpdate, HalfStops
<1>4. PowerTypeOK' /\ StableDescribed'
  BY DEF Blackout, StableDescribed
<1>5. Durable
  BY DEF Blackout, StableDescribed, Durable
<1> QED
  BY <1>1, <1>2, <1>3, <1>4, <1>5

\* The rename happens to a manifest that parses, and keeps its ids.
LEMMA SaveKeeps ==
    ASSUME PInv, NEW t \in Tasks, SaveStep(t)
    PROVE  PInv' /\ Durable
<1>1. RenameManifest(t) /\ half' = FALSE /\ UNCHANGED stable
  BY DEF SaveStep
<1>2. [Next]_vars
  BY <1>1 DEF Next, Work, SaveManifest
<1>3. ~half
  BY <1>1 DEF PInv, HalfStops, RenameManifest
<1>4. manifest' = Add(manifest, EntryOf(t)) /\ EntryOf(t) \in Entry
  BY <1>1, EntryOfType DEF RenameManifest, PInv, NoLostUpdate, LockInv, HasJob
<1>5. \A e \in stable : \E f \in manifest' : f.id = e.id
  BY <1>3, <1>4, AddKeeps DEF PInv, LockInv, TypeOK, StableDescribed
<1> QED
  BY <1>1, <1>2, <1>3, <1>5, ForgeKeeps DEF PInv, PowerTypeOK, HalfStops, StableDescribed, Durable

\* The steps that only the disk and the processes take.
LEMMA OtherKeeps ==
    ASSUME PInv, OtherStep
    PROVE  PInv' /\ UNCHANGED <<manifest, stable, half>>
<1>1. [Next]_vars /\ UNCHANGED powerVars
  BY DEF OtherStep, Next
<1>2. UNCHANGED manifest
  BY DEF OtherStep, ProcStep, Request, OpenJournal, CreateTable, OpenBusy, Crash, PostBuild,
     CliBuild, Accept, IOFail, disk
<1>3. \A u \in Tasks : pc'[u] \in {"write", "rename"} => pc[u] \in {"write", "rename"}
  BY DEF OtherStep, ProcStep, Request, OpenJournal, CreateTable, OpenBusy, Crash, PostBuild,
     CliBuild, Accept, IOFail, ReturnErr, PInv, LockInv, TypeOK
<1> QED
  BY <1>1, <1>2, <1>3, ForgeKeeps DEF PInv, powerVars, PowerTypeOK, HalfStops, StableDescribed

\* The request itself changes nothing but a missing index file.
LEMMA ProbeKeeps ==
    ASSUME PInv, Ask \/ Probe
    PROVE  PInv' /\ UNCHANGED <<manifest, stable, half>>
<1>1. CASE UNCHANGED diskVars
  BY <1>1 DEF diskVars, powerVars, vars, PInv, LockInv, TypeOK, HasJob, LockSound, RunsUp,
     OneThread, BusySet, HoldsJournal, Building, NoLostUpdate, EntryOf, PowerTypeOK, HalfStops,
     StableDescribed
<1>2. CASE Open
  <2>1. index' \in [Ids -> IndexFile]
    <3>1. [Absent EXCEPT !.phase = "blank"] \in IndexFile
      BY DEF Absent, IndexFile, Phase
    <3> QED
      BY <1>2, <3>1 DEF Open, PInv, LockInv, TypeOK
  <2> QED
    BY <1>2, <2>1 DEF Open, locals, PInv, LockInv, TypeOK, HasJob, LockSound, RunsUp,
       OneThread, BusySet, HoldsJournal, Building, NoLostUpdate, EntryOf, PowerTypeOK,
       HalfStops, StableDescribed
<1> QED
  BY <1>1, <1>2 DEF Ask, Probe, Found, Missing, Query, QueryBusy, Close, Reply

----------------------------------------------------------------------------

LEMMA InitPower == HealthInit => PInv
  BY InitInv DEF HealthInit, PowerInit, Init, PInv, IInv, PowerTypeOK, HalfStops, StableDescribed

\* Every step keeps the invariant and what reached the medium.
LEMMA PowerStep ==
    ASSUME PInv, [HealthNext]_healthVars
    PROVE  PInv' /\ Durable
<1> DEFINE Same == UNCHANGED <<manifest, stable, half>>
<1>0. ASSUME Same
      PROVE  Durable /\ PowerTypeOK' /\ StableDescribed'
  BY <1>0 DEF PInv, StableDescribed, PowerTypeOK, Durable
<1>1. CASE Ask \/ Probe
  BY <1>0, <1>1, ProbeKeeps
<1>2. ASSUME NEW t \in Tasks, BuildStep(t)
      PROVE  PInv' /\ Same
  BY <1>0, <1>2, BuildKeeps DEF PInv
<1>3. ASSUME NEW t \in Tasks, BuilderBusy(t)
      PROVE  PInv' /\ Same
  <2>1. Building(t)
    BY <1>3 DEF BuilderBusy, Building, BuildingPC
  <2>2. LockInv' /\ NoLostUpdate' /\ HalfStops' /\ Same
    BY <1>3, <2>1, GiveUp DEF BuilderBusy, PInv, HalfStops, powerVars, disk
  <2> QED
    BY <1>0, <2>2 DEF PInv
<1>4. CASE WriteBack
  BY <1>4 DEF WriteBack, vars, PInv, LockInv, TypeOK, HasJob, LockSound, RunsUp, OneThread,
     BusySet, HoldsJournal, Building, NoLostUpdate, EntryOf, PowerTypeOK, HalfStops,
     StableDescribed, Durable
<1>5. CASE UNCHANGED healthVars
  BY <1>5 DEF healthVars, diskVars, powerVars, vars, PInv, LockInv, TypeOK, HasJob, LockSound,
     RunsUp, OneThread, BusySet, HoldsJournal, Building, NoLostUpdate, EntryOf, PowerTypeOK,
     HalfStops, StableDescribed, Durable
<1> QED
  BY <1>0, <1>1, <1>2, <1>3, <1>4, <1>5, SaveKeeps, OtherKeeps, BlackoutKeeps
  DEF HealthNext, Builder, Around

\* Every reachable state satisfies the inductive invariant.
THEOREM PowerInvariance == HealthSpec => []PInv
  BY InitPower, PowerStep, PTL DEF HealthSpec

----------------------------------------------------------------------------

\* A manifest that parses describes every corpus whose entry reached the medium, across
\* any number of power losses, and a broken one is never written over.
THEOREM NeverOverwritten == HealthSpec => DurablyDescribed
<1>1. PInv /\ [HealthNext]_healthVars
        => [/\ half => half'
            /\ ~half' => \A e \in stable : \E f \in manifest' : f.id = e.id]_diskVars
  BY PowerStep DEF Durable
<1> QED
  BY <1>1, PowerInvariance, PTL DEF HealthSpec, DurablyDescribed

\* Power losses and health requests do not let two builds onto the disk at once.
THEOREM OneBuilderAlways == HealthSpec => []OneBuilder
<1>1. PInv => OneBuilder
  BY Exclusion DEF PInv
<1> QED
  BY <1>1, PowerInvariance, PTL
=============================================================================
