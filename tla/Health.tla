------------------------------- MODULE Health -------------------------------
(***************************************************************************)
(* GET /api/health beside the builders: the daemon opens and queries every *)
(* index of the manifest while a build, of the same daemon or of another   *)
(* process, may remove, create, lock and replace those very files, and on  *)
(* a disk that may have lost power.                                        *)
(*                                                                         *)
(* probe_index holds SQLite's lock on the file it reads and, because it is *)
(* not opened READONLY, creates one that is not there.  A file removed     *)
(* while it is open lives on for the connection that has it.               *)
(***************************************************************************)
EXTENDS PowerLoss

CONSTANT Prober  \* the daemon that is asked, one request at a time

ASSUME HealthAssumption == Prober \in Daemons

VARIABLES
    ask,      \* "none", "next", or the next step on `entry`: "open", "query", "close"
    left,     \* entries of the loaded manifest not yet probed
    entry,    \* the entry being probed
    gone,     \* the open file, once it is removed from the directory (else Absent)
    verdicts, \* the answer so far
    doubtful  \* ids torn or damaged at some time during the request

askVars == <<ask, left, entry, gone, verdicts, doubtful>>
healthVars == <<diskVars, askVars>>

NoEntry == [id |-> NoId, docs |-> 0, corpus |-> NoCorpus]

Bad(e) == [entry |-> e, ok |-> FALSE, docs |-> 0]
Good(e, docs) == [entry |-> e, ok |-> TRUE, docs |-> docs]

----------------------------------------------------------------------------
(* SQLite's lock on an index file.  A build has it EXCLUSIVE from its first  *)
(* write until it closes; a probe has it SHARED from its query until then.   *)

\* Mutant of IndexLocked: a build keeps probes out of every index.
IndexLockedByAny(i) == \E t \in Tasks : pc[t] \in {"pass1", "pass2", "finish"}

IndexLocked(i) == \E t \in Tasks : job[t] = i /\ pc[t] \in {"pass1", "pass2", "finish"}

ProbeHolds(i) == ask = "close" /\ gone = Absent /\ entry.id = i

----------------------------------------------------------------------------
(* get_health and probe_index *)

NoRequest ==
    /\ ask' = "none"
    /\ left' = {}
    /\ entry' = NoEntry
    /\ gone' = Absent
    /\ verdicts' = {}
    /\ doubtful' = {}

\* The manifest is loaded once.  With none, or one that does not parse, the answer
\* is given at once and nothing is opened.
Ask ==
    /\ ask = "none"
    /\ proc[Prober] = "up"
    /\ manifest # {} /\ ~half
    /\ ask' = "next"
    /\ left' = manifest
    /\ doubtful' = torn \cup damaged
    /\ UNCHANGED <<diskVars, entry, gone, verdicts>>

\* The next entry: its file is there (`exists`), and will be opened ...
Found(e) ==
    /\ ask = "next" /\ e \in left
    /\ index[e.id] # Absent
    /\ ask' = "open"
    /\ entry' = e
    /\ left' = left \ {e}
    /\ UNCHANGED <<diskVars, gone, verdicts, doubtful>>

\* ... or it is missing, which is the verdict.
Missing(e) ==
    /\ ask = "next" /\ e \in left
    /\ index[e.id] = Absent
    /\ verdicts' = verdicts \cup {Bad(e)}
    /\ left' = left \ {e}
    /\ UNCHANGED <<diskVars, ask, entry, gone, doubtful>>

\* Connection::open.  A file removed since `exists` is created again, empty.
Open ==
    /\ ask = "open"
    /\ ask' = "query"
    /\ IF index[entry.id] = Absent
       THEN /\ index' = [index EXCEPT ![entry.id] = [Absent EXCEPT !.phase = "blank"]]
            /\ cached' = cached \cup {entry.id}
       ELSE UNCHANGED <<index, cached>>
    /\ UNCHANGED <<table, progress, manifest, tmp, lock, proc, busy, pc, locals, started, torn,
                   stable, half, damaged, left, entry, gone, verdicts, doubtful>>

Opened == IF gone = Absent THEN index[entry.id] ELSE gone

\* The count and the MATCH see one state of the file, which the lock keeps.  A file
\* without the table `docs` is an error; what a damaged one answers is open.
Query ==
    /\ ask = "query"
    /\ gone = Absent => ~IndexLocked(entry.id)
    /\ \/ /\ Opened.phase # "blank"
          /\ verdicts' = verdicts \cup {Good(entry, Opened.docs)}
       \/ /\ Opened.phase = "blank" \/ entry.id \in damaged
          /\ verdicts' = verdicts \cup {Bad(entry)}
    /\ ask' = "close"
    /\ UNCHANGED <<diskVars, left, entry, gone, doubtful>>

NextEntry ==
    /\ ask' = "next"
    /\ entry' = NoEntry
    /\ gone' = Absent

\* A build holds the file for longer than the busy timeout.
QueryBusy ==
    /\ ask = "query"
    /\ gone = Absent
    /\ IndexLocked(entry.id)
    /\ verdicts' = verdicts \cup {Bad(entry)}
    /\ NextEntry
    /\ UNCHANGED <<diskVars, left, doubtful>>

\* The connection is dropped, and its lock with it.
Close ==
    /\ ask = "close"
    /\ NextEntry
    /\ UNCHANGED <<diskVars, left, verdicts, doubtful>>

Reply ==
    /\ ask = "next" /\ left = {}
    /\ NoRequest
    /\ UNCHANGED diskVars

Probe == Open \/ Query \/ QueryBusy \/ Close \/ Reply \/ \E e \in left : Found(e) \/ Missing(e)

----------------------------------------------------------------------------
(* The pipeline, as the request sees it *)

\* A file that is open when it is removed stays readable; what was torn or damaged
\* meanwhile is noted.
Watch ==
    /\ gone' = IF ask \in {"query", "close"} /\ gone = Absent /\ index'[entry.id] = Absent
               THEN index[entry.id] ELSE gone
    /\ doubtful' = IF ask = "none" THEN {} ELSE doubtful \cup torn' \cup damaged'
    /\ UNCHANGED <<ask, left, entry, verdicts>>

\* The first write to a new index waits for a probe that reads the file ...
Builder(t) ==
    /\ pc[t] = "schema" => ~ProbeHolds(job[t])
    /\ BuildStep(t) \/ SaveStep(t)
    /\ Watch

\* ... and gives up after the busy timeout.
BuilderBusy(t) ==
    /\ pc[t] = "schema"
    /\ ProbeHolds(job[t])
    /\ ReturnErr(t)
    /\ UNCHANGED <<disk, lock, proc, busy, locals, started, torn, powerVars, askVars>>

\* A request dies with its daemon.
Around ==
    /\ OtherStep \/ WriteBack \/ Blackout
    /\ IF proc[Prober] = "up" /\ proc'[Prober] = "off" THEN NoRequest ELSE Watch

----------------------------------------------------------------------------

HealthInit ==
    /\ PowerInit
    /\ ask = "none"
    /\ left = {}
    /\ entry = NoEntry
    /\ gone = Absent
    /\ verdicts = {}
    /\ doubtful = {}

HealthNext ==
    \/ Ask \/ Probe
    \/ \E t \in Tasks : Builder(t) \/ BuilderBusy(t)
    \/ Around

HealthSpec == HealthInit /\ [][HealthNext]_healthVars

\* Threads and requests that can go on do.  A builder that meets one probe after
\* another gives up in the end, which the busy timeout sees to.
HealthFairSpec ==
    /\ HealthSpec
    /\ \A t \in Tasks : WF_healthVars(Builder(t) \/ BuilderBusy(t))
    /\ WF_healthVars(Probe)

----------------------------------------------------------------------------
(* Properties *)

\* No false alarm and no false number: an index that was whole throughout the
\* request is reported searchable with the number of documents its entry promises,
\* whatever builds of other corpora, restarts and earlier power losses do meanwhile
\* (api.rs:187-235).
HealthRight ==
    [][\A v \in verdicts' \ verdicts :
            v.entry.id \notin doubtful => v.ok /\ v.docs = v.entry.docs]_healthVars
=============================================================================
