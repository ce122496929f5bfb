----------------------------- MODULE PowerLoss -----------------------------
(***************************************************************************)
(* The build pipeline on a disk that can lose power or be unplugged.       *)
(*                                                                         *)
(* The journal commits with SQLite's default synchronous setting: what it  *)
(* holds is on the medium.  Nothing else is flushed by the code: the index *)
(* is written with synchronous = OFF, and Manifest::save renames a file it *)
(* has not synced.  Until the operating system writes them back, a power   *)
(* loss may undo the rename, or keep it and lose the contents.             *)
(*                                                                         *)
(* A process that crashes loses nothing of this: that is Forge!Crash.      *)
(***************************************************************************)
EXTENDS Forge

VARIABLES
    stable,   \* the manifest as it is on the medium
    half,     \* manifest.json is there and does not parse
    cached,   \* ids with writes, to the index or the entry, not on the medium
    damaged   \* ids whose index, or entry, went with the power

powerVars == <<stable, half, cached, damaged>>
diskVars == <<vars, powerVars>>

----------------------------------------------------------------------------

\* Mutant of LoadFails: a manifest that does not load is replaced by a new one.
LoadFailsNew(t) ==
    /\ pc[t] = "load"
    /\ half
    /\ loaded' = [loaded EXCEPT ![t] = {EntryOf(t)}]
    /\ pc' = [pc EXCEPT ![t] = "write"]
    /\ UNCHANGED <<disk, lock, proc, busy, job, corpus, count, started, torn>>

\* Manifest::load of a file that exists and does not parse is an error (`?`), and
\* the file stays as it is.
LoadFails(t) ==
    /\ pc[t] = "load"
    /\ half
    /\ ReturnErr(t)
    /\ UNCHANGED <<disk, lock, proc, busy, locals, started, torn>>

\* A step of the pipeline that leaves the manifest alone.  A write to an index is
\* in the operating system's cache first.
BuildStep(t) ==
    /\ \/ Import(t) \/ BuildIndex(t) \/ WriteTmp(t) \/ JournalBusy(t) \/ EndBuild(t)
       \/ ~half /\ LoadManifest(t)
       \/ LoadFails(t)
    /\ cached' = IF index' # index THEN cached \cup {job[t]} ELSE cached
    /\ damaged' = IF pc[t] = "remove" /\ pc'[t] = "open" THEN damaged \ {job[t]} ELSE damaged
    /\ UNCHANGED <<stable, half>>

\* The rename replaces whatever was there; the file it puts there is not synced.
SaveStep(t) ==
    /\ RenameManifest(t)
    /\ half' = FALSE
    /\ cached' = cached \cup {job[t]}
    /\ UNCHANGED <<stable, damaged>>

\* The operating system writes its cache back.
WriteBack ==
    /\ ~half
    /\ <<stable, cached>> # <<manifest, {}>>
    /\ stable' = manifest
    /\ cached' = {}
    /\ UNCHANGED <<vars, half, damaged>>

\* The machine stops and starts again.  manifest.json is what it was, what is on
\* the medium, or a file under the new name without its contents; an index not
\* written back can be anything.  The processes are gone.
Blackout ==
    /\ \/ ~half /\ stable' = manifest /\ UNCHANGED <<manifest, half>>
       \/ ~half /\ manifest' = stable /\ UNCHANGED <<stable, half>>
       \/ stable # manifest /\ half' = TRUE /\ UNCHANGED <<manifest, stable>>
       \/ half /\ UNCHANGED <<manifest, stable, half>>
    /\ damaged' = damaged \cup cached
    /\ cached' = {}
    /\ proc' = [p \in Procs |-> "off"]
    /\ lock' = [p \in Procs |-> "none"]
    /\ busy' = [p \in Procs |-> FALSE]
    /\ pc' = [t \in Tasks |-> "idle"]
    /\ job' = [t \in Tasks |-> NoId]
    /\ corpus' = [t \in Tasks |-> NoCorpus]
    /\ count' = [t \in Tasks |-> 0]
    /\ loaded' = [t \in Tasks |-> {}]
    /\ UNCHANGED <<table, progress, index, tmp, started, torn>>

----------------------------------------------------------------------------

PowerInit ==
    /\ Init
    /\ stable = {}
    /\ half = FALSE
    /\ cached = {}
    /\ damaged = {}

\* What does not touch an index file or the manifest.
OtherStep ==
    /\ \/ \E p \in Procs : ProcStep(p)
       \/ \E t \in Tasks : Request(t) \/ IOFail(t)
    /\ UNCHANGED powerVars

PowerNext ==
    \/ OtherStep
    \/ \E t \in Tasks : BuildStep(t) \/ SaveStep(t)
    \/ WriteBack
    \/ Blackout

PowerSpec == PowerInit /\ [][PowerNext]_diskVars

----------------------------------------------------------------------------

\* manifest.rs:102-103: "Write atomically: a manifest truncated by an unplugged cable
\* would leave a disk that describes itself as empty"; manifest.rs:112-113: "the
\* manifest is either the old one or the new one, never half of either".
ManifestAtomic == ~half

\* While the manifest parses, it describes every corpus whose entry reached the medium,
\* across any number of power losses.  Once a power loss has broken it (which it can:
\* ManifestAtomic), it stays as it is: no build takes a broken manifest for a disk
\* without one and writes a new one over it, which would lose every other corpus
\* (api.rs:339-343, manifest.rs:87-95).
DurablyDescribed ==
    [][/\ half => half'
       /\ ~half' => \A e \in stable : \E f \in manifest' : f.id = e.id]_diskVars
=============================================================================
