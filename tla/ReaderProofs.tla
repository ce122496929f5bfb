---------------------------- MODULE ReaderProofs ----------------------------
(***************************************************************************)
(* Proofs about Reader, for every set of texts and every number of picks.  *)
(*                                                                         *)
(* That the last pick wins is a matter of order: picks wait for the module *)
(* in the order they were made, are all queued at once when it is there,   *)
(* and go through two microtasks each, so that what is still to be opened  *)
(* stands before what is to be shown, and each part is in order.           *)
(***************************************************************************)
EXTENDS Reader, TLAPS

\* A task that was opened, or refused, and is to be shown.
Opens(task) == task.step = "open"

\* Whether `s` and `t` may stand in the queue in this order.
InOrder(s, t) ==
    IF Opens(s) /\ ~Opens(t) THEN t.pick < s.pick
    ELSE s.pick < t.pick /\ (Opens(s) <=> Opens(t))

MicroOrder == \A m, n \in DOMAIN micro : m < n => InOrder(micro[m], micro[n])

WaitingOrder ==
    /\ \A n \in DOMAIN waiting : Opens(waiting[n])
    /\ \A m, n \in DOMAIN waiting : m < n => waiting[m].pick < waiting[n].pick

\* What is on its way was picked, and later than what is searched now.
Later ==
    /\ \A n \in DOMAIN micro : index < micro[n].pick /\ micro[n].pick <= picks
    /\ \A n \in DOMAIN waiting : index < waiting[n].pick /\ waiting[n].pick <= picks
    /\ index <= picks

\* Picks wait only while the module loads, and then nothing is queued.
Loading ==
    /\ module \in {"none", "loading"} => micro = <<>>
    /\ module # "loading" => waiting = <<>>

Queues == MicroOrder /\ WaitingOrder /\ Later /\ Loading

StatusTrue == status.is = "ready" => status.pick = index

InitOnce == inits <= 1 /\ (module = "none" => inits = 0)

\* A timer that is set searches for what is in the box.
TimerHolds == timer # NoTimer => timer = box

ReaderInv == TypeOK /\ Queues /\ StatusTrue /\ InitOnce /\ TimerHolds /\ AnswersTheBox

----------------------------------------------------------------------------

LEMMA TaskPick == \A t \in Task : t.pick \in 1..MaxPicks /\ t.pick \in Nat
  BY ReaderAssumption DEF Task

\* What a queue holds.
LEMMA QueueTyped ==
    ASSUME NEW queue \in Seq(Task)
    PROVE  /\ Len(queue) \in Nat /\ DOMAIN queue = 1..Len(queue)
           /\ \A n \in DOMAIN queue : /\ queue[n] \in Task
                                     /\ queue[n].pick \in 1..MaxPicks /\ queue[n].pick \in Nat
<1>1. Len(queue) \in Nat /\ DOMAIN queue = 1..Len(queue) /\ \A n \in DOMAIN queue : queue[n] \in Task
  OBVIOUS
<1> QED
  BY <1>1, TaskPick

LEMMA ReaderStart == Init => ReaderInv
<1> SUFFICES ASSUME Init
             PROVE  ReaderInv
  OBVIOUS
<1> USE ReaderAssumption DEF Init
<1>1. TypeOK
  <2>1. waiting \in Seq(Task) /\ micro \in Seq(Task)
    OBVIOUS
  <2>2. status \in Status /\ results \in Listed
    BY DEF Status, Listed
  <2>3. /\ inits \in Nat /\ picks \in 0..MaxPicks /\ index \in 0..MaxPicks
        /\ vfs \in SUBSET (1..MaxPicks) /\ box \in Texts /\ timer \in Texts \cup {NoTimer}
    OBVIOUS
  <2>4. module \in {"none", "loading", "ready", "failed"} /\ broken \in BOOLEAN
    OBVIOUS
  <2> HIDE DEF Init
  <2> QED
    BY <2>1, <2>2, <2>3, <2>4 DEF TypeOK
<1>2. Queues
  BY DEF Queues, MicroOrder, WaitingOrder, Later, Loading
<1>3. StatusTrue /\ InitOnce /\ TimerHolds /\ AnswersTheBox
  BY DEF StatusTrue, InitOnce, TimerHolds, AnswersTheBox
<1> QED
  BY <1>1, <1>2, <1>3 DEF ReaderInv

\* The steps that leave the two queues alone.
LEMMA QuietStep ==
    ASSUME ReaderInv,
           \/ PickNothing \/ RunSearch \/ SearchThrows
           \/ \E text \in Texts : Keystroke(text)
           \/ UNCHANGED vars
    PROVE  ReaderInv' /\ index' = index
<1> DEFINE SearchOK == /\ box' \in Texts /\ timer' \in Texts \cup {NoTimer}
                       /\ results' \in Listed /\ broken' \in BOOLEAN
                       /\ TimerHolds' /\ AnswersTheBox'
<1> USE ReaderAssumption DEF ReaderInv, TypeOK, pickVars, searchVars
<1>1. index' = index /\ micro' = micro /\ waiting' = waiting /\ module' = module /\ inits' = inits
      /\ picks' \in {picks, picks + 1} /\ picks' \in 0..MaxPicks
  BY DEF PickNothing, RunSearch, SearchThrows, Keystroke, vars
<1>2. vfs' = vfs /\ status' \in Status
  <2>1. CASE PickNothing
    <3>1. picks + 1 \in 0..MaxPicks
      BY <2>1 DEF PickNothing
    <3> QED
      BY <2>1, <3>1 DEF PickNothing, Status
  <2>2. CASE ~PickNothing
    BY <2>2 DEF RunSearch, SearchThrows, Keystroke, vars
  <2> QED
    BY <2>1, <2>2
<1>3. SearchOK
  <2>1. CASE PickNothing \/ UNCHANGED vars
    BY <2>1 DEF PickNothing, vars, TimerHolds, AnswersTheBox
  <2>2. ASSUME NEW text \in Texts, Keystroke(text)
        PROVE  SearchOK
    BY <2>2 DEF Keystroke, TimerHolds, AnswersTheBox
  <2>3. CASE RunSearch
    <3>1. timer \in Texts /\ timer' = NoTimer /\ broken' = FALSE /\ box' = box
          /\ results' = [text |-> timer, pick |-> IF timer = Short THEN 0 ELSE index]
      BY <2>3 DEF RunSearch
    <3>2. timer = box
      BY <3>1 DEF TimerHolds
    <3>3. results' \in Listed /\ results'.text = timer
      <4>1. (IF timer = Short THEN 0 ELSE index) \in 0..MaxPicks
        OBVIOUS
      <4> QED
        BY <3>1, <4>1 DEF Listed
    <3> QED
      BY <3>1, <3>2, <3>3 DEF TimerHolds, AnswersTheBox
  <2>4. CASE SearchThrows
    BY <2>4 DEF SearchThrows, TimerHolds, AnswersTheBox
  <2> QED
    BY <2>1, <2>2, <2>3, <2>4
<1>4. TypeOK'
  BY <1>1, <1>2, <1>3
<1>5. Queues'
  <2>1. MicroOrder' /\ WaitingOrder' /\ Loading'
    BY <1>1 DEF Queues, MicroOrder, WaitingOrder, Loading
  <2>2. Later'
    <3>1. picks <= picks' /\ picks \in Nat /\ picks' \in Nat /\ index \in Nat
      BY <1>1
    <3>2. \A n \in DOMAIN micro : micro[n].pick \in Nat
      BY QueueTyped
    <3>3. \A n \in DOMAIN waiting : waiting[n].pick \in Nat
      BY QueueTyped
    <3> QED
      BY <1>1, <3>1, <3>2, <3>3 DEF Queues, Later
  <2> QED
    BY <2>1, <2>2 DEF Queues
<1>6. StatusTrue'
  BY <1>1 DEF StatusTrue, PickNothing, RunSearch, SearchThrows, Keystroke, vars
<1>7. InitOnce'
  BY <1>1 DEF InitOnce
<1> QED
  BY <1>1, <1>3, <1>4, <1>5, <1>6, <1>7

\* A pick is queued last, and is later than all others.
LEMMA PickStep ==
    ASSUME ReaderInv, NEW opens \in BOOLEAN, Pick(opens)
    PROVE  ReaderInv' /\ index' = index
<1> DEFINE task == [step |-> "open", pick |-> picks + 1, opens |-> opens]
<1> USE ReaderAssumption DEF ReaderInv, TypeOK
<1>0. Queues
  OBVIOUS
<1>1. task \in Task /\ Opens(task) /\ task.pick = picks + 1 /\ picks \in Nat
      /\ [task EXCEPT !.step = "fail"] \in Task
      /\ [task EXCEPT !.step = "fail"].pick = picks + 1
  BY DEF Pick, Task, Opens
<1>2. /\ micro = <<>> /\ picks' = picks + 1 /\ picks' \in 1..MaxPicks
      /\ index' = index /\ status' = [is |-> "opening", pick |-> picks + 1]
      /\ UNCHANGED <<vfs, box, timer, results, broken>>
  BY DEF Pick, searchVars
<1>3. \/ module' = "loading" /\ waiting' = Append(waiting, task) /\ micro' = micro
      \/ module' = module /\ module \notin {"none", "loading"} /\ waiting' = waiting
         /\ \E t \in Task : t.pick = picks + 1 /\ micro' = <<t>>
  <2>1. CASE module \in {"none", "loading"}
    BY <2>1 DEF Pick, Initialise
  <2>2. CASE module = "ready"
    BY <2>2, <1>1 DEF Pick, Initialise
  <2>3. CASE module = "failed"
    <3>1. Rejected(<<task>>) = <<[task EXCEPT !.step = "fail"]>>
      BY DEF Rejected
    <3> QED
      BY <2>3, <3>1, <1>1 DEF Pick, Initialise
  <2> QED
    BY <2>1, <2>2, <2>3
<1>4. InitOnce' /\ inits' \in Nat /\ module' \in {"none", "loading", "ready", "failed"}
  BY DEF Pick, Initialise, InitOnce
<1>5. TypeOK'
  <2>1. waiting' \in Seq(Task) /\ micro' \in Seq(Task)
    <3>1. waiting \in Seq(Task) /\ micro \in Seq(Task)
      OBVIOUS
    <3> HIDE DEF ReaderInv, TypeOK
    <3>2. CASE waiting' = Append(waiting, task) /\ micro' = micro
      BY <3>1, <3>2, <1>1
    <3>3. CASE waiting' = waiting /\ \E t \in Task : micro' = <<t>>
      BY <3>1, <3>3
    <3> QED
      BY <1>3, <3>2, <3>3
  <2> QED
    BY <1>2, <1>4, <2>1 DEF Status
<1>6. Queues'
  <2>1. CASE module' = "loading" /\ waiting' = Append(waiting, task) /\ micro' = micro
    <3>1. waiting \in Seq(Task) /\ Len(waiting) \in Nat /\ DOMAIN waiting = 1..Len(waiting)
      OBVIOUS
    <3>2. /\ DOMAIN waiting' = 1..Len(waiting) + 1
          /\ \A n \in DOMAIN waiting : waiting'[n] = waiting[n]
          /\ waiting'[Len(waiting) + 1] = task
      BY <2>1, <3>1, <1>1
    <3>3. \A n \in DOMAIN waiting : waiting[n] \in Task /\ waiting[n].pick \in Nat
                                    /\ index < waiting[n].pick /\ waiting[n].pick <= picks
      <4>1. \A n \in DOMAIN waiting : waiting[n] \in Task /\ waiting[n].pick \in Nat
        BY QueueTyped
      <4> QED
        BY <4>1, <1>0 DEF Queues, Later
    <3>4. index \in Nat /\ picks \in Nat /\ index <= picks
      BY DEF Queues, Later
    <3> HIDE DEF task, ReaderInv, TypeOK
    <3>5. WaitingOrder'
      <4>1. \A n \in DOMAIN waiting' : Opens(waiting'[n])
        BY <1>1, <3>1, <3>2, <1>0 DEF Queues, WaitingOrder
      <4>2. \A m, n \in DOMAIN waiting' : m < n => waiting'[m].pick < waiting'[n].pick
        BY <1>1, <3>1, <3>2, <3>3, <3>4, <1>0 DEF Queues, WaitingOrder
      <4> QED
        BY <4>1, <4>2 DEF WaitingOrder
    <3>6. Later'
      BY <1>1, <1>2, <2>1, <3>1, <3>2, <3>3, <3>4 DEF Later
    <3>7. MicroOrder' /\ Loading'
      BY <1>2, <2>1 DEF MicroOrder, Loading
    <3> QED
      BY <3>5, <3>6, <3>7 DEF Queues
  <2>2. CASE module' = module /\ module \notin {"none", "loading"} /\ waiting' = waiting
             /\ \E t \in Task : t.pick = picks + 1 /\ micro' = <<t>>
    BY <2>2, <1>1, <1>2 DEF Queues, MicroOrder, WaitingOrder, Later, Loading
  <2> QED
    BY <1>3, <2>1, <2>2
<1>7. StatusTrue' /\ TimerHolds' /\ AnswersTheBox'
  BY <1>2 DEF StatusTrue, TimerHolds, AnswersTheBox
<1> QED
  BY <1>2, <1>4, <1>5, <1>6, <1>7

\* When the load ends, the picks that waited are queued in their order.
LEMMA LoadStep ==
    ASSUME ReaderInv, Loaded \/ LoadFails
    PROVE  ReaderInv' /\ index' = index
<1> USE DEF ReaderInv, TypeOK
<1>1. /\ module = "loading" /\ module' \in {"ready", "failed"} /\ waiting' = <<>>
      /\ UNCHANGED <<inits, picks, index, vfs, status, box, timer, results, broken>>
  BY DEF Loaded, LoadFails, searchVars
<1>2. /\ DOMAIN micro' = DOMAIN waiting
      /\ \A n \in DOMAIN waiting : micro'[n].pick = waiting[n].pick
      /\ \A m, n \in DOMAIN waiting : (Opens(micro'[m]) <=> Opens(micro'[n]))
      /\ micro' \in Seq(Task)
  <2>1. CASE Loaded
    BY <2>1 DEF Loaded, Queues, WaitingOrder
  <2>2. CASE LoadFails
    <3>1. micro' = [n \in DOMAIN waiting |-> [waiting[n] EXCEPT !.step = "fail"]]
      BY <2>2 DEF LoadFails, Rejected
    <3>2. \A n \in DOMAIN waiting : waiting[n] \in Task
      OBVIOUS
    <3>3. \A n \in DOMAIN waiting : micro'[n] \in Task /\ micro'[n].pick = waiting[n].pick
                                    /\ ~Opens(micro'[n])
      BY <3>1, <3>2 DEF Task, Opens
    <3>4. micro' \in Seq(Task)
      <4>1. Len(waiting) \in Nat /\ DOMAIN waiting = 1..Len(waiting)
        OBVIOUS
      <4>2. micro' \in [1..Len(waiting) -> Task]
        BY <3>1, <3>3, <4>1
      <4> QED
        BY <4>1, <4>2
    <3>5. DOMAIN micro' = DOMAIN waiting
      BY <3>1
    <3> HIDE DEF ReaderInv, TypeOK
    <3> QED
      BY <3>3, <3>4, <3>5
  <2> QED
    BY <2>1, <2>2
<1>3. Queues'
  BY <1>1, <1>2 DEF Queues, MicroOrder, WaitingOrder, InOrder, Later, Loading
<1>4. TypeOK'
  BY <1>1, <1>2 DEF Status
<1>5. StatusTrue' /\ TimerHolds' /\ AnswersTheBox' /\ InitOnce'
  BY <1>1 DEF StatusTrue, TimerHolds, AnswersTheBox, InitOnce
<1> QED
  BY <1>1, <1>3, <1>4, <1>5

\* The head of the queue goes to its end, opened, or leaves it.
LEMMA MicroStep ==
    ASSUME ReaderInv, Microtask
    PROVE  ReaderInv' /\ index' >= index
<1> USE ReaderAssumption DEF ReaderInv, TypeOK
<1>1. /\ micro # <<>> /\ Len(micro) \in Nat \ {0} /\ Head(micro) = micro[1] /\ micro[1] \in Task
      /\ micro[1].pick \in 1..MaxPicks
      /\ UNCHANGED <<module, inits, waiting, picks, box, timer, results, broken>>
  <2>1. micro # <<>> /\ UNCHANGED <<module, inits, waiting, picks, box, timer, results, broken>>
    BY DEF Microtask, OpenDatabase, Show, ShowError, First, pickVars, searchVars
  <2>2. micro \in Seq(Task)
    OBVIOUS
  <2> HIDE DEF ReaderInv, TypeOK
  <2>3. Len(micro) \in Nat \ {0} /\ Head(micro) = micro[1] /\ micro[1] \in Task
    BY <2>1, <2>2
  <2> QED
    BY <2>1, <2>3 DEF Task
<1>0. /\ DOMAIN micro = 1..Len(micro)
      /\ \A n \in DOMAIN micro : /\ micro[n].pick \in Nat
                               /\ index < micro[n].pick /\ micro[n].pick <= picks
      /\ \A m, n \in DOMAIN micro : m < n => InOrder(micro[m], micro[n])
      /\ index \in Nat /\ picks \in Nat /\ index <= picks
  <2>1. DOMAIN micro = 1..Len(micro) /\ \A n \in DOMAIN micro : micro[n].pick \in Nat
    BY QueueTyped
  <2>2. index \in Nat /\ picks \in Nat
    OBVIOUS
  <2> QED
    BY <2>1, <2>2 DEF Queues, MicroOrder, Later
<1>2. /\ Tail(micro) \in Seq(Task)
      /\ Len(Tail(micro)) = Len(micro) - 1
      /\ \A n \in DOMAIN Tail(micro) : n + 1 \in DOMAIN micro /\ Tail(micro)[n] = micro[n + 1]
  BY <1>1
<1>3. index < micro[1].pick /\ micro[1].pick <= picks
  BY <1>1 DEF Queues, Later
<1>4. module \notin {"none", "loading"} /\ waiting = <<>>
  BY <1>1 DEF Queues, Loading
<1>5. TimerHolds' /\ AnswersTheBox' /\ InitOnce'
  BY <1>1 DEF TimerHolds, AnswersTheBox, InitOnce
<1>6. CASE OpenDatabase
  <2> DEFINE next == [micro[1] EXCEPT !.step = IF micro[1].opens THEN "show" ELSE "fail"]
  <2>1. /\ Opens(micro[1]) /\ micro' = Append(Tail(micro), next)
        /\ vfs' = vfs \cup {micro[1].pick}
        /\ UNCHANGED <<index, status>>
    BY <1>1, <1>6 DEF OpenDatabase, First, Opens
  <2>2. next \in Task /\ next.pick = micro[1].pick /\ ~Opens(next)
    BY <1>1 DEF Task, Opens
  <2>3. TypeOK'
    BY <1>1, <1>2, <2>1, <2>2
  <2>4. /\ DOMAIN micro' = DOMAIN micro
        /\ \A n \in DOMAIN micro : micro'[n] = IF n = Len(micro) THEN next ELSE micro[n + 1]
    BY <1>1, <1>2, <2>1
  <2>5. MicroOrder'
    <3> SUFFICES ASSUME NEW m \in DOMAIN micro, NEW n \in DOMAIN micro, m < n
                 PROVE  InOrder(micro'[m], micro'[n])
      BY <2>4 DEF MicroOrder
    <3> HIDE DEF next, ReaderInv, TypeOK
    <3>1. /\ m + 1 \in DOMAIN micro /\ micro'[m] = micro[m + 1]
          /\ InOrder(micro[1], micro[m + 1])
      <4>1. m \in 1..Len(micro) /\ n \in 1..Len(micro) /\ Len(micro) \in Nat
        BY <1>0, <1>1
      <4>2. 1 \in DOMAIN micro /\ m + 1 \in DOMAIN micro /\ m # Len(micro) /\ 1 < m + 1
        BY <4>1, <1>0
      <4>3. micro'[m] = micro[m + 1]
        BY <4>2, <2>4
      <4> QED
        BY <4>2, <4>3, <1>0
    <3>2. CASE n = Len(micro)
      <4>1. micro'[n] = next
        BY <3>2, <2>4
      <4>2. CASE Opens(micro[m + 1])
        BY <4>1, <4>2, <3>1, <2>1, <2>2, <1>0 DEF InOrder
      <4>3. CASE ~Opens(micro[m + 1])
        BY <4>1, <4>3, <3>1, <2>1, <2>2, <1>0 DEF InOrder
      <4> QED
        BY <4>2, <4>3
    <3>3. CASE n # Len(micro)
      <4>1. n + 1 \in DOMAIN micro /\ micro'[n] = micro[n + 1] /\ m + 1 < n + 1
        BY <3>3, <1>0, <1>1, <2>4
      <4> QED
        BY <4>1, <3>1, <1>0
    <3> QED
      BY <3>2, <3>3
  <2>6. Later'
    BY <1>1, <1>3, <2>1, <2>2, <2>4 DEF Queues, Later
  <2>7. WaitingOrder' /\ Loading' /\ StatusTrue'
    BY <1>1, <1>4, <2>1 DEF WaitingOrder, Loading, StatusTrue
  <2> QED
    BY <1>5, <2>1, <2>3, <2>5, <2>6, <2>7 DEF Queues
<1>7. CASE Show \/ ShowError
  <2>1. /\ micro' = Tail(micro) /\ vfs' = vfs
        /\ ~Opens(micro[1])
        /\ \/ index' = micro[1].pick /\ status' = [is |-> "ready", pick |-> micro[1].pick]
           \/ index' = index /\ status' = [is |-> "failed", pick |-> micro[1].pick]
    BY <1>1, <1>7 DEF Show, ShowError, First, Opens
  <2>2. TypeOK'
    BY <1>1, <1>2, <2>1 DEF Status
  <2>3. \A n \in DOMAIN micro' : n + 1 \in DOMAIN micro /\ micro'[n] = micro[n + 1]
                                 /\ micro[1].pick < micro[n + 1].pick
    <3>1. ASSUME NEW n \in DOMAIN Tail(micro)
          PROVE  /\ n + 1 \in DOMAIN micro /\ Tail(micro)[n] = micro[n + 1]
                 /\ micro[1].pick < micro[n + 1].pick
      <4>1. 1 \in DOMAIN micro /\ n + 1 \in DOMAIN micro /\ 1 < n + 1 /\ Tail(micro)[n] = micro[n + 1]
        BY <1>0, <1>1, <1>2
      <4>2. InOrder(micro[1], micro[n + 1])
        BY <4>1, <1>0
      <4> QED
        BY <4>1, <4>2, <2>1 DEF InOrder
    <3> QED
      BY <2>1, <3>1
  <2>4. MicroOrder'
    <3> SUFFICES ASSUME NEW m \in DOMAIN micro', NEW n \in DOMAIN micro', m < n
                 PROVE  InOrder(micro'[m], micro'[n])
      BY DEF MicroOrder
    <3>1. /\ m + 1 \in DOMAIN micro /\ micro'[m] = micro[m + 1]
          /\ n + 1 \in DOMAIN micro /\ micro'[n] = micro[n + 1]
      BY <2>3
    <3>2. m \in Nat /\ n \in Nat
      BY <1>2, <2>1
    <3> QED
      BY <3>1, <3>2, <1>0
  <2>5. Later'
    <3>1. index' \in {index, micro[1].pick} /\ index' <= picks
      BY <1>0, <1>3, <2>1
    <3> HIDE DEF ReaderInv, TypeOK
    <3>2. \A n \in DOMAIN micro' : index' < micro'[n].pick /\ micro'[n].pick <= picks
      BY <1>0, <2>3, <3>1
    <3> QED
      BY <1>1, <1>4, <3>1, <3>2 DEF Later
  <2>6. WaitingOrder' /\ Loading'
    BY <1>1, <1>4 DEF WaitingOrder, Loading
  <2>7. StatusTrue' /\ index' >= index
    BY <1>3, <1>1, <2>1 DEF StatusTrue
  <2> QED
    BY <1>5, <2>2, <2>4, <2>5, <2>6, <2>7 DEF Queues
<1> QED
  BY <1>6, <1>7 DEF Microtask

LEMMA ReaderStep == ReaderInv /\ [Next]_vars => ReaderInv' /\ index' >= index
<1> SUFFICES ASSUME ReaderInv, [Next]_vars
             PROVE  ReaderInv' /\ index' >= index
  OBVIOUS
<1>1. index' = index => index' >= index
  BY DEF ReaderInv, TypeOK
<1>2. CASE PickNothing \/ RunSearch \/ SearchThrows
           \/ (\E text \in Texts : Keystroke(text)) \/ UNCHANGED vars
  BY <1>1, <1>2, QuietStep
<1>3. ASSUME NEW opens \in BOOLEAN, Pick(opens)
      PROVE  ReaderInv' /\ index' >= index
  BY <1>1, <1>3, PickStep
<1>4. CASE Loaded \/ LoadFails
  BY <1>1, <1>4, LoadStep
<1>5. CASE Microtask
  BY <1>5, MicroStep
<1> QED
  BY <1>2, <1>3, <1>4, <1>5 DEF Next

----------------------------------------------------------------------------

\* The invariant holds in every state of the page, whatever the bounds.
THEOREM ReaderInvariance == Spec => []ReaderInv
  BY ReaderStart, ReaderStep, PTL DEF Spec

\* Every variable of the reader's page keeps its type (app.ts, open.ts).
THEOREM ReaderTyping == Spec => []TypeOK
<1>1. ReaderInv => TypeOK
  BY DEF ReaderInv
<1> QED
  BY <1>1, ReaderInvariance, PTL

\* However many picks overlap, the wasm module is initialised once (open.ts:35-56).
THEOREM ModuleOnce == Spec => []OneInit
<1>1. ReaderInv => OneInit
  BY DEF ReaderInv, InitOnce, OneInit
<1> QED
  BY <1>1, ReaderInvariance, PTL

\* However many picks overlap, the last one that opens is what is searched, and a
\* status line that says so is about it (app.ts:16-45).
THEOREM LaterPickWins == Spec => LastPickWins
<1>1. ReaderInv /\ [Next]_vars => [index' >= index]_vars
  BY ReaderStep
<1>2. ReaderInv => (status.is = "ready" => status.pick = index)
  BY DEF ReaderInv, StatusTrue
<1> QED
  BY <1>1, <1>2, ReaderInvariance, PTL DEF Spec, LastPickWins

\* What is listed answers the text in the box, whatever keystrokes, timers and
\* picks come in between (app.ts:47-66).
THEOREM ListAnswersBox == Spec => []AnswersTheBox
<1>1. ReaderInv => AnswersTheBox
  BY DEF ReaderInv
<1> QED
  BY <1>1, ReaderInvariance, PTL
=============================================================================
