------------------------------ MODULE Console ------------------------------
(***************************************************************************)
(* The dashboard (web/src/console/console.ts) beside the daemon it talks   *)
(* to: the progress stream of GET /api/progress, which samples the journal *)
(* and sends it when it changed, and the list of corpora, which the page   *)
(* fetches again when it sees the pipeline go quiet.                       *)
(*                                                                         *)
(* The daemon is Forge.  The page is single-threaded; what interleaves are *)
(* the events of the stream and the answers of its requests, which arrive  *)
(* in any order.                                                           *)
(***************************************************************************)
EXTENDS Forge, Sequences

CONSTANTS
    Server,     \* the daemon that serves the page
    MaxStream,  \* bound: events sent and not yet handled
    MaxCalls,   \* bound: refreshCorpora calls not yet finished
    ReadsFail   \* whether a read of the journal or the manifest may fail

ASSUME ConsoleAssumption ==
    /\ Server \in Daemons
    /\ MaxStream \in Nat \ {0}
    /\ MaxCalls \in Nat \ {0}
    /\ ReadsFail \in BOOLEAN

VARIABLES
    page,      \* "closed", "connected", "portable"
    conn,      \* whether a progress stream of this page exists in the daemon
    previous,  \* the last payload that stream sent (NoPayload: none)
    stream,    \* events on their way to the page
    board,     \* the rows rendered under "progress"
    calls,     \* refreshCorpora calls in flight, at most MaxCalls
    list,      \* the corpora listed
    summary,   \* the corpora the summary line counts
    button     \* the build button: "ready", "sent" (disabled, POST in flight), "dead"

forgeVars == vars
pageVars == <<page, conn, previous, stream, board, calls, list, summary, button>>
allVars == <<vars, pageVars>>

\* Before its first event a stream has sent "", which equals no payload, not even
\* that of an empty journal.
NoPayload == [jobs |-> {<<>>}, error |-> FALSE]

\* A call waits for the manifest, then for the state; `got` is what the daemon
\* answered, once it did.
Slots == 1..MaxCalls
Call == [wants: {"nothing", "list", "summary"}, answered: BOOLEAN, got: SUBSET Entry]
Asking(what) == [wants |-> what, answered |-> FALSE, got |-> {}]
NoCall == Asking("nothing")

Open(n) == calls[n].wants # "nothing"

Up == proc[Server] = "up"

\* Mutant of Payload: rows that were never written are sent too.
PayloadAll == [jobs |-> {<<k, progress[k]>> : k \in DOMAIN progress}, error |-> FALSE]

\* What the stream makes of a journal that it could read ...
Payload == [jobs |-> AllProgress(progress), error |-> FALSE]

\* ... and of one that it could not.
Failure == [jobs |-> {}, error |-> TRUE]

\* `every` on the jobs of a message, which is true of none.
QuietPayload(payload) == \A row \in payload.jobs : Quiet(row[2])

----------------------------------------------------------------------------
(* The page *)

\* main: the daemon answers /api/state within two seconds with a state.  A rejected
\* fetch, a timeout or an error (the manifest cannot be read) makes the page portable,
\* and it never asks again.
OpenPage ==
    /\ page = "closed"
    /\ \/ /\ Up
          /\ page' = "connected"
          /\ summary' = manifest
          /\ calls' = [calls EXCEPT ![1] = Asking("list")]
          /\ conn' = TRUE
       \/ /\ page' = "portable"
          /\ UNCHANGED <<summary, calls, conn>>
    /\ UNCHANGED <<forgeVars, previous, stream, board, list, button>>

\* The page is closed or reloaded: all it knew is gone, the build is not.
ClosePage ==
    /\ page # "closed"
    /\ page' = "closed"
    /\ conn' = FALSE
    /\ previous' = NoPayload
    /\ stream' = <<>>
    /\ board' = {}
    /\ calls' = [n \in Slots |-> NoCall]
    /\ list' = {}
    /\ summary' = {}
    /\ button' = "ready"
    /\ UNCHANGED forgeVars

\* EventSource reconnects by itself; the new stream has sent nothing yet.
Reconnect ==
    /\ page = "connected"
    /\ ~conn
    /\ Up
    /\ conn' = TRUE
    /\ previous' = NoPayload
    /\ UNCHANGED <<forgeVars, page, stream, board, calls, list, summary, button>>

----------------------------------------------------------------------------
(* The progress stream *)

\* One turn of the loop that has something to send.
Send(payload) ==
    /\ conn
    /\ payload # previous
    /\ Len(stream) < MaxStream
    /\ previous' = payload
    /\ stream' = Append(stream, payload)
    /\ UNCHANGED <<forgeVars, page, conn, board, calls, list, summary, button>>

\* Mutant of Poll: `previous` is taken before it is known that the event goes out.
PollLossy ==
    /\ conn
    /\ Payload # previous
    /\ previous' = Payload
    /\ stream' = IF Len(stream) < MaxStream THEN Append(stream, Payload) ELSE stream
    /\ UNCHANGED <<forgeVars, page, conn, board, calls, list, summary, button>>

\* all_progress reads the rows ...
Poll == Send(Payload)

\* ... or fails, and the error is sent in their place.
PollFails == ReadsFail /\ Send(Failure)

\* source.onmessage: the board is rendered, and the list fetched again when no
\* job of the message is under way.  A message with an error has no jobs: it empties
\* the board and counts as quiet.
OnMessage ==
    /\ stream # <<>>
    /\ board' = Head(stream).jobs
    /\ stream' = Tail(stream)
    /\ IF QuietPayload(Head(stream))
       THEN \E n \in Slots : ~Open(n) /\ calls' = [calls EXCEPT ![n] = Asking("list")]
       ELSE UNCHANGED calls
    /\ UNCHANGED <<forgeVars, page, conn, previous, list, summary, button>>

----------------------------------------------------------------------------
(* refreshCorpora *)

\* The daemon reads the manifest, for GET /api/manifest or GET /api/state.
Answer(n) ==
    /\ Up
    /\ Open(n)
    /\ ~calls[n].answered
    /\ calls' = [calls EXCEPT ![n] = [wants |-> @.wants, answered |-> TRUE, got |-> manifest]]
    /\ UNCHANGED <<forgeVars, page, conn, previous, stream, board, list, summary, button>>

\* The manifest is there and cannot be read or parsed: the answer is an error, in which
\* the page finds no corpora, or no bunker.
AnswerFails(n) ==
    /\ ReadsFail
    /\ Up
    /\ Open(n)
    /\ ~calls[n].answered
    /\ calls' = [calls EXCEPT ![n] = [wants |-> @.wants, answered |-> TRUE, got |-> {}]]
    /\ UNCHANGED <<forgeVars, page, conn, previous, stream, board, list, summary, button>>

\* The list is replaced.  An empty one ends the call; otherwise it goes on to ask
\* for the state.
ApplyList(n) ==
    /\ calls[n].answered
    /\ calls[n].wants = "list"
    /\ list' = calls[n].got
    /\ calls' = [calls EXCEPT ![n] = IF calls[n].got = {} THEN NoCall ELSE Asking("summary")]
    /\ UNCHANGED <<forgeVars, page, conn, previous, stream, board, summary, button>>

ApplySummary(n) ==
    /\ calls[n].answered
    /\ calls[n].wants = "summary"
    /\ summary' = calls[n].got
    /\ calls' = [calls EXCEPT ![n] = NoCall]
    /\ UNCHANGED <<forgeVars, page, conn, previous, stream, board, list, button>>

\* With no daemon the fetch is rejected, and the call ends there.
CallFails(n) ==
    /\ ~Up
    /\ Open(n)
    /\ ~calls[n].answered
    /\ calls' = [calls EXCEPT ![n] = NoCall]
    /\ UNCHANGED <<forgeVars, page, conn, previous, stream, board, list, summary, button>>

----------------------------------------------------------------------------
(* onBuild *)

\* The button is disabled while the POST is in flight.
Submit ==
    /\ page = "connected"
    /\ button = "ready"
    /\ started < MaxBuilds
    /\ button' = "sent"
    /\ UNCHANGED <<forgeVars, page, conn, previous, stream, board, calls, list, summary>>

\* Mutant of Refused: a refusal shows its error and leaves the button disabled.
RefusedKeepsDisabled ==
    /\ button = "sent"
    /\ Up
    /\ UNCHANGED allVars

\* The daemon accepts the build ...
Accepted(t, i, c) ==
    /\ button = "sent"
    /\ Owner[t] = Server
    /\ PostBuild(t, i, c)
    /\ button' = "ready"
    /\ UNCHANGED <<page, conn, previous, stream, board, calls, list, summary>>

\* ... or refuses it: one is running, or the request names no corpus.
Refused ==
    /\ button = "sent"
    /\ Up
    /\ button' = "ready"
    /\ UNCHANGED <<forgeVars, page, conn, previous, stream, board, calls, list, summary>>

\* ... or there is no daemon: the rejected fetch is caught by nobody, and the
\* button stays disabled.
PostFails ==
    /\ button = "sent"
    /\ ~Up
    /\ button' = "dead"
    /\ UNCHANGED <<forgeVars, page, conn, previous, stream, board, calls, list, summary>>

\* A process ends.  With the daemon of the page go its stream and the requests it
\* had not answered.
ProcessEnds(p) ==
    /\ Crash(p)
    /\ IF p = Server
       THEN /\ conn' = FALSE
            /\ calls' = [n \in Slots |-> IF calls[n].answered THEN calls[n] ELSE NoCall]
            /\ button' = IF button = "sent" THEN "dead" ELSE button
            /\ UNCHANGED <<page, previous, stream, board, list, summary>>
       ELSE UNCHANGED pageVars

----------------------------------------------------------------------------

ConsoleInit ==
    /\ Init
    /\ page = "closed"
    /\ conn = FALSE
    /\ previous = NoPayload
    /\ stream = <<>>
    /\ board = {}
    /\ calls = [n \in Slots |-> NoCall]
    /\ list = {}
    /\ summary = {}
    /\ button = "ready"

\* The rest of the forge, which the page does not see.
ForgeStep ==
    /\ \/ \E p \in Procs : OpenJournal(p) \/ CreateTable(p) \/ OpenBusy(p)
       \/ \E t \in Tasks : Request(t) \/ Work(t) \/ IOFail(t)
    /\ UNCHANGED pageVars

Refresh ==
    \E n \in Slots : Answer(n) \/ AnswerFails(n) \/ ApplyList(n) \/ ApplySummary(n) \/ CallFails(n)

OnBuild == Refused \/ PostFails \/ \E t \in Tasks, i \in Ids, c \in Corpora : Accepted(t, i, c)

ConsoleNext ==
    \/ ForgeStep \/ \E p \in Procs : ProcessEnds(p)
    \/ OpenPage \/ ClosePage \/ Reconnect
    \/ Poll \/ PollFails \/ OnMessage \/ Refresh
    \/ Submit \/ OnBuild

ConsoleSpec == ConsoleInit /\ [][ConsoleNext]_allVars

\* Threads run, the poll timer fires, events and answers arrive, and the browser
\* reconnects.  No one is obliged to open a page or to press the button, and a journal
\* that could not be read need never be readable again.
ConsoleFairSpec ==
    /\ ConsoleSpec
    /\ \A t \in Tasks : WF_allVars(Work(t) /\ UNCHANGED pageVars)
    /\ WF_allVars(Poll /\ ~previous.error)
    /\ WF_allVars(OnMessage)
    /\ WF_allVars(Refresh)
    /\ WF_allVars(Reconnect)
    /\ WF_allVars(OnBuild)

----------------------------------------------------------------------------
(* Properties *)

\* An event carries rows that were written, and no other.
SentRow == (Ids \X Stage) \X {row \in Row : row.present}

\* What a stream sends.
Message == [jobs: SUBSET SentRow, error: BOOLEAN]

ConsoleTypeOK ==
    /\ page \in {"closed", "connected", "portable"}
    /\ conn \in BOOLEAN
    /\ board \in SUBSET SentRow
    /\ stream \in Seq(Message)
    /\ Len(stream) <= MaxStream
    /\ calls \in [Slots -> Call]
    /\ list \in SUBSET Entry
    /\ summary \in SUBSET Entry
    /\ button \in {"ready", "sent", "dead"}

\* A corpus the page lists or counts is one the disk still describes: no order of
\* events, answers, rebuilds and restarts leaves a corpus on the page that is gone
\* from the manifest (console.ts:113-135 over manifest.rs:73-80).
ListIsBacked ==
    \A e \in list \cup summary : \E f \in manifest : f.id = e.id

\* The board comes to show the journal, again and again for as long as the page is
\* open and the daemon up, across restarts; where the last read failed it comes to show
\* nothing, and then the journal again if one succeeds
\* (api.rs:237-275, console.ts:172-183).
BoardFollowsJournal ==
    []<>(\/ page # "connected"
         \/ ~Up
         \/ board = IF previous.error THEN {} ELSE AllProgress(progress))

\* console.ts:177-178: "A finished or failed job changes the manifest, so the list
\* is refreshed when the pipeline goes quiet".
ListFollowsManifest ==
    []<>(page # "connected" \/ ~Up \/ list = manifest)

\* The build button comes back, or its daemon is gone: it is not "sent" again and again
\* (console.ts:147-162).
ButtonReturns ==
    []<>(button # "sent")
=============================================================================
