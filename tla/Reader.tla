------------------------------- MODULE Reader -------------------------------
(***************************************************************************)
(* The reader's page (web/src/ui/app.ts) and the opening of a database     *)
(* (web/src/sqlite/open.ts): picking a disk, loading the wasm module once, *)
(* opening the index, and searching behind a debounce timer.               *)
(*                                                                         *)
(* One thread runs events (a pick, a keystroke, a timer, the end of the    *)
(* module's load) to their end; what an event leaves behind an `await`     *)
(* goes to the queue of microtasks, which is emptied, in order, before the *)
(* next event.  Picks overlap while the module loads.                      *)
(***************************************************************************)
EXTENDS Naturals, Sequences

CONSTANTS
    Texts,     \* what the search box can hold
    Short,     \* the text that is too short to search for
    NoTimer,
    MaxPicks   \* bound: disks picked

ASSUME ReaderAssumption ==
    /\ Short \in Texts
    /\ NoTimer \notin Texts
    /\ MaxPicks \in Nat

VARIABLES
    module,   \* modulePromise: "none", "loading", "ready", "failed"
    inits,    \* times the module was initialised
    waiting,  \* picks that await the module, in the order of their awaits
    micro,    \* the queue of microtasks
    picks,    \* disks picked so far; a pick is its number
    index,    \* the pick whose database is searched (0: none)
    vfs,      \* picks whose VFS is registered
    status,   \* the status line
    box,      \* the text in the search box
    timer,    \* the text the pending timer will search for
    results,  \* what is listed: the text and the pick it was searched in
    broken    \* whether the last search threw

pickVars == <<module, inits, waiting, picks>>
searchVars == <<box, timer, results, broken>>
vars == <<module, inits, waiting, micro, picks, index, vfs, status, box, timer,
          results, broken>>

\* What is left of a pick: to open its database, to show it, to show its error.
Task == [step: {"open", "show", "fail"}, pick: 1..MaxPicks, opens: BOOLEAN]

Status == [is: {"empty", "none", "opening", "ready", "failed"}, pick: 0..MaxPicks]

Listed == [text: Texts, pick: 0..MaxPicks]

Rejected(tasks) == [n \in DOMAIN tasks |-> [tasks[n] EXCEPT !.step = "fail"]]

----------------------------------------------------------------------------
(* Picking a disk *)

\* A disk without a .sqlite file.
PickNothing ==
    /\ micro = <<>>
    /\ picks < MaxPicks
    /\ picks' = picks + 1
    /\ status' = [is |-> "none", pick |-> picks + 1]
    /\ UNCHANGED <<module, inits, waiting, micro, index, vfs, searchVars>>

\* Mutant of Initialise: modulePromise is kept only once it has resolved.
InitialiseAgain ==
    IF module \in {"none", "loading"} THEN module' = "loading" /\ inits' = inits + 1
    ELSE UNCHANGED <<module, inits>>

\* initSqlite: the first call starts the load, and its promise is kept whatever
\* becomes of it.
Initialise ==
    IF module = "none" THEN module' = "loading" /\ inits' = inits + 1
    ELSE UNCHANGED <<module, inits>>

\* The handler runs as far as `await initSqlite()`.
Pick(opens) ==
    LET task == [step |-> "open", pick |-> picks + 1, opens |-> opens] IN
    /\ micro = <<>>
    /\ picks < MaxPicks
    /\ picks' = picks + 1
    /\ status' = [is |-> "opening", pick |-> picks + 1]
    /\ Initialise
    /\ CASE module \in {"none", "loading"} ->
                waiting' = Append(waiting, task) /\ UNCHANGED micro
         [] module = "ready" -> micro' = <<task>> /\ UNCHANGED waiting
         [] module = "failed" -> micro' = Rejected(<<task>>) /\ UNCHANGED waiting
    /\ UNCHANGED <<index, vfs, searchVars>>

\* Mutant of Loaded: every pick loads a module of its own, and they end in any order.
LoadedAnyOrder ==
    /\ module = "loading"
    /\ micro = <<>>
    /\ \E n \in DOMAIN waiting :
        /\ micro' = <<waiting[n]>>
        /\ waiting' = SubSeq(waiting, 1, n - 1) \o SubSeq(waiting, n + 1, Len(waiting))
        /\ module' = IF Len(waiting) = 1 THEN "ready" ELSE module
    /\ UNCHANGED <<inits, picks, index, vfs, status, searchVars>>

\* The module is there: everyone who waits for it goes on, in order.
Loaded ==
    /\ module = "loading"
    /\ micro = <<>>
    /\ module' = "ready"
    /\ micro' = waiting
    /\ waiting' = <<>>
    /\ UNCHANGED <<inits, picks, index, vfs, status, searchVars>>

\* The load is rejected, and with it every pick that waits or will wait.
LoadFails ==
    /\ module = "loading"
    /\ micro = <<>>
    /\ module' = "failed"
    /\ micro' = Rejected(waiting)
    /\ waiting' = <<>>
    /\ UNCHANGED <<inits, picks, index, vfs, status, searchVars>>

First(step) == micro # <<>> /\ Head(micro).step = step

\* The rest of openDatabase: a VFS is registered under a new name, the database
\* opened over it.  When that throws, the VFS stays.
OpenDatabase ==
    /\ First("open")
    /\ vfs' = vfs \cup {Head(micro).pick}
    /\ micro' = Append(Tail(micro),
                       [Head(micro) EXCEPT !.step = IF Head(micro).opens THEN "show" ELSE "fail"])
    /\ UNCHANGED <<pickVars, index, status, searchVars>>

\* The rest of the handler.  The database of an earlier pick is left as it is.
Show ==
    /\ First("show")
    /\ index' = Head(micro).pick
    /\ status' = [is |-> "ready", pick |-> Head(micro).pick]
    /\ micro' = Tail(micro)
    /\ UNCHANGED <<pickVars, vfs, searchVars>>

\* Mutant of ShowError: nobody catches what openDatabase throws.
ShowErrorUncaught ==
    /\ First("fail")
    /\ micro' = Tail(micro)
    /\ UNCHANGED <<pickVars, index, vfs, status, searchVars>>

ShowError ==
    /\ First("fail")
    /\ status' = [is |-> "failed", pick |-> Head(micro).pick]
    /\ micro' = Tail(micro)
    /\ UNCHANGED <<pickVars, index, vfs, searchVars>>

----------------------------------------------------------------------------
(* Searching *)

\* Mutant of Keystroke: a timer that runs is left to run.
KeystrokeThrottled(text) ==
    /\ micro = <<>>
    /\ index # 0
    /\ text # box
    /\ box' = text
    /\ timer' = IF timer = NoTimer THEN text ELSE timer
    /\ UNCHANGED <<pickVars, micro, index, vfs, status, results, broken>>

\* The box is on the page from the first database that opened.  The timer is set
\* again, with the text as it is now.
Keystroke(text) ==
    /\ micro = <<>>
    /\ index # 0
    /\ text # box
    /\ box' = text
    /\ timer' = text
    /\ UNCHANGED <<pickVars, micro, index, vfs, status, results, broken>>

\* Mutant of RunSearch: the query is read once the timer has been reset.
RunSearchReset ==
    /\ micro = <<>>
    /\ timer # NoTimer
    /\ timer' = NoTimer
    /\ results' = [text |-> timer', pick |-> index]
    /\ broken' = FALSE
    /\ UNCHANGED <<pickVars, micro, index, vfs, status, box>>

\* runSearch: too short a text clears the list; any other is searched for in the
\* database that is open now.
RunSearch ==
    /\ micro = <<>>
    /\ timer # NoTimer
    /\ timer' = NoTimer
    /\ results' = [text |-> timer, pick |-> IF timer = Short THEN 0 ELSE index]
    /\ broken' = FALSE
    /\ UNCHANGED <<pickVars, micro, index, vfs, status, box>>

\* The query throws: the file is no index, is damaged, was replaced by a rebuild, or
\* a read of it is refused.  Nobody catches it, and the list stays.
SearchThrows ==
    /\ micro = <<>>
    /\ timer \notin {NoTimer, Short}
    /\ timer' = NoTimer
    /\ broken' = TRUE
    /\ UNCHANGED <<pickVars, micro, index, vfs, status, box, results>>

----------------------------------------------------------------------------

Init ==
    /\ module = "none"
    /\ inits = 0
    /\ waiting = <<>>
    /\ micro = <<>>
    /\ picks = 0
    /\ index = 0
    /\ vfs = {}
    /\ status = [is |-> "empty", pick |-> 0]
    /\ box = Short
    /\ timer = NoTimer
    /\ results = [text |-> Short, pick |-> 0]
    /\ broken = FALSE

Microtask == OpenDatabase \/ Show \/ ShowError

Next ==
    \/ PickNothing \/ \E opens \in BOOLEAN : Pick(opens)
    \/ Loaded \/ LoadFails
    \/ Microtask
    \/ \E text \in Texts : Keystroke(text)
    \/ RunSearch \/ SearchThrows

\* The event loop runs microtasks, the load of the module ends, timers fire.
Spec ==
    /\ Init
    /\ [][Next]_vars
    /\ WF_vars(Microtask)
    /\ WF_vars(Loaded \/ LoadFails)
    /\ WF_vars(RunSearch \/ SearchThrows)

----------------------------------------------------------------------------
(* Properties *)

TypeOK ==
    /\ module \in {"none", "loading", "ready", "failed"}
    /\ inits \in Nat
    /\ waiting \in Seq(Task)
    /\ micro \in Seq(Task)
    /\ picks \in 0..MaxPicks
    /\ index \in 0..MaxPicks
    /\ vfs \in SUBSET (1..MaxPicks)
    /\ status \in Status
    /\ box \in Texts
    /\ timer \in Texts \cup {NoTimer}
    /\ results \in Listed
    /\ broken \in BOOLEAN

\* The wasm module is initialised once per page, however many picks wait for it
\* (open.ts:25-27, open.ts:35-56).
OneInit == inits <= 1

\* Of several picks under way the later one wins, so that what is searched is the
\* last disk that could be opened; and a status line that says so is about that
\* disk (app.ts:16-45).
LastPickWins ==
    /\ [][index' >= index]_vars
    /\ [](status.is = "ready" => status.pick = index)

\* What is listed was searched for the text now in the box, unless a timer is still
\* to fire or the search threw (app.ts:47-66).
AnswersTheBox == timer = NoTimer /\ ~broken => results.text = box

\* A pick comes to an end: the status line does not say "Opening" for ever, whether
\* the module loads or not and however many picks overlap (app.ts:32-44).
PicksSettle == status.is = "opening" ~> status.is # "opening"
=============================================================================
