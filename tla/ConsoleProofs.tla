--------------------------- MODULE ConsoleProofs ---------------------------
(***************************************************************************)
(* Proofs about Console, for every number of events and refreshes in       *)
(* flight and every pipeline behind the page.                              *)
(*                                                                         *)
(* Whatever the page shows, or has in an answer not yet applied, was the   *)
(* manifest at some moment.  The manifest forgets no corpus                *)
(* (ForgeProofs!StepRemembers), so it is backed ever after, in whatever    *)
(* order answers arrive.  The invariant therefore ranges over the answers  *)
(* in flight besides the list and the summary.                             *)
(***************************************************************************)
EXTENDS Console, ForgeProofs, SequenceTheorems

\* The manifest describes every corpus of a set of entries.
Backed(entries) == \A e \in entries : \E f \in manifest : f.id = e.id

AnswersBacked == \A n \in Slots : Backed(calls[n].got)

\* The inductive invariant.
CInv == IInv /\ ConsoleTypeOK /\ AnswersBacked /\ Backed(list) /\ Backed(summary)

USE DEF Slots, Procs

----------------------------------------------------------------------------

\* A step of the page and its daemon is a step of the pipeline or leaves it alone.
LEMMA StepOfForge ==
    ASSUME ConsoleNext
    PROVE  [Next]_vars
<1> USE DEF forgeVars
<1>1. CASE ForgeStep
  BY <1>1 DEF ForgeStep, Next, ProcStep
<1>2. ASSUME NEW p \in Procs, ProcessEnds(p)
      PROVE  Next
  BY <1>2 DEF ProcessEnds, Next, ProcStep
<1>3. CASE \/ OpenPage \/ ClosePage \/ Reconnect \/ Poll \/ PollFails \/ OnMessage \/ Submit
  BY <1>3 DEF OpenPage, ClosePage, Reconnect, Poll, PollFails, Send, OnMessage, Submit
<1>4. CASE Refresh
  BY <1>4 DEF Refresh, Answer, AnswerFails, ApplyList, ApplySummary, CallFails
<1>5. CASE OnBuild
  <2>1. ASSUME NEW t \in Tasks, NEW i \in Ids, NEW c \in Corpora, Accepted(t, i, c)
        PROVE  Next
    BY <2>1 DEF Accepted, Next, Request
  <2> QED
    BY <1>5, <2>1 DEF OnBuild, Refused, PostFails
<1> QED
  BY <1>1, <1>2, <1>3, <1>4, <1>5 DEF ConsoleNext

\* What was backed before a step of the pipeline is backed after it.
LEMMA StaysBacked ==
    ASSUME IInv, [Next]_vars, NEW entries, Backed(entries)
    PROVE  Backed(entries)'
  BY StepRemembers DEF Backed

\* The manifest backs itself, and a request not yet answered has nothing to back.
LEMMA NothingToBack ==
    /\ Backed(manifest)
    /\ Backed({})
    /\ \A what : Asking(what).got = {}
  BY DEF Backed, Asking

\* An event is made of rows that were written, or is an error.
LEMMA PayloadType ==
    ASSUME TypeOK
    PROVE  Payload \in Message /\ Failure \in Message
<1>1. AllProgress(progress) \in SUBSET SentRow
  BY DEF TypeOK, AllProgress, SentRow
<1> QED
  BY <1>1 DEF Payload, Failure, Message

----------------------------------------------------------------------------

\* A stream that has sent nothing is a stream of events.
LEMMA NoEvents == <<>> \in Seq(Message) /\ Len(<<>>) = 0
  OBVIOUS

LEMMA InitConsole == ConsoleInit => CInv
<1> SUFFICES ASSUME ConsoleInit PROVE CInv
  OBVIOUS
<1>1. IInv
  BY InitInv DEF ConsoleInit
<1>2. ConsoleTypeOK
  <2>1. stream \in Seq(Message) /\ Len(stream) <= MaxStream
    BY ConsoleAssumption, NoEvents DEF ConsoleInit
  <2>2. calls \in [Slots -> Call]
    BY DEF ConsoleInit, Call, NoCall, Asking
  <2> QED
    BY <2>1, <2>2 DEF ConsoleInit, ConsoleTypeOK
<1>3. AnswersBacked /\ Backed(list) /\ Backed(summary)
  BY DEF ConsoleInit, AnswersBacked, Backed, NoCall, Asking
<1> QED
  BY <1>1, <1>2, <1>3 DEF CInv

\* Every step keeps the page well typed.
LEMMA ConsoleTypeStep ==
    ASSUME IInv, ConsoleTypeOK, ConsoleNext
    PROVE  ConsoleTypeOK'
<1> USE ConsoleAssumption DEF ConsoleTypeOK, pageVars
<1>0. TypeOK /\ manifest \in SUBSET Entry
  BY DEF IInv, LockInv, TypeOK
<1>1. NoCall \in Call /\ Asking("list") \in Call /\ Asking("summary") \in Call
  BY DEF NoCall, Asking, Call
<1>2. CASE ForgeStep
  BY <1>2 DEF ForgeStep
<1>3. ASSUME NEW p \in Procs, ProcessEnds(p)
      PROVE  ConsoleTypeOK'
  BY <1>1, <1>3 DEF ProcessEnds
<1>4. CASE OpenPage
  BY <1>0, <1>1, <1>4 DEF OpenPage
<1>5. CASE ClosePage
  <2>1. stream' \in Seq(Message) /\ Len(stream') <= MaxStream
    BY <1>5, NoEvents DEF ClosePage
  <2> QED
    BY <1>1, <1>5, <2>1 DEF ClosePage
<1>6. CASE Reconnect
  BY <1>6 DEF Reconnect
<1>7. ASSUME NEW payload \in Message, Send(payload)
      PROVE  ConsoleTypeOK'
  <2>1. stream' \in Seq(Message) /\ Len(stream') = Len(stream) + 1
    BY <1>7, AppendProperties DEF Send
  <2> QED
    BY <1>7, <2>1, LenProperties DEF Send
<1>8. CASE OnMessage
  <2>1. /\ stream' \in Seq(Message)
        /\ Len(stream') = Len(stream) - 1
        /\ Head(stream) \in Message
    BY <1>8, HeadTailProperties DEF OnMessage
  <2>3. board' \in SUBSET SentRow
    BY <1>8, <2>1 DEF OnMessage, Message
  <2>2. calls' \in [Slots -> Call]
    BY <1>1, <1>8 DEF OnMessage
  <2> QED
    BY <1>8, <2>1, <2>2, <2>3, LenProperties DEF OnMessage
<1>9. ASSUME NEW n \in Slots, Answer(n) \/ AnswerFails(n)
      PROVE  ConsoleTypeOK'
  <2>1. PICK entries \in SUBSET Entry :
            calls' = [calls EXCEPT ![n] = [wants |-> @.wants, answered |-> TRUE, got |-> entries]]
    BY <1>0, <1>9 DEF Answer, AnswerFails
  <2>2. [wants |-> calls[n].wants, answered |-> TRUE, got |-> entries] \in Call
    BY DEF Call
  <2> QED
    BY <1>9, <2>1, <2>2 DEF Answer, AnswerFails
<1>10. ASSUME NEW n \in Slots, ApplyList(n) \/ ApplySummary(n) \/ CallFails(n)
       PROVE  ConsoleTypeOK'
  <2>1. calls[n].got \in SUBSET Entry
    BY DEF Call
  <2> QED
    BY <1>1, <1>10, <2>1 DEF ApplyList, ApplySummary, CallFails
<1>11. CASE Submit
  BY <1>11 DEF Submit
<1>12. CASE OnBuild
  BY <1>12 DEF OnBuild, Refused, PostFails, Accepted
<1> QED
  BY <1>0, <1>2, <1>3, <1>4, <1>5, <1>6, <1>7, <1>8, <1>9, <1>10, <1>11, <1>12, PayloadType
  DEF ConsoleNext, Refresh, Poll, PollFails

\* Every step keeps what is shown, and what is about to be shown, backed.
LEMMA BackedStep ==
    ASSUME CInv, ConsoleNext
    PROVE  AnswersBacked' /\ Backed(list)' /\ Backed(summary)'
<1> USE DEF pageVars
<1>0. /\ IInv /\ [Next]_vars
      /\ calls \in [Slots -> Call]
  BY StepOfForge DEF CInv, ConsoleTypeOK
<1>1. /\ \A n \in Slots : \A e \in calls[n].got : \E f \in manifest' : f.id = e.id
      /\ \A e \in list \cup summary \cup manifest : \E f \in manifest' : f.id = e.id
  BY <1>0, StaysBacked, StepRemembers DEF CInv, AnswersBacked, Backed
<1> DEFINE Change ==
               /\ \A n \in Slots :
                    \/ calls'[n].got = {}
                    \/ calls'[n].got = manifest
                    \/ calls'[n].got = calls[n].got
               /\ \/ list' \in {{}, list}
                  \/ \E n \in Slots : list' = calls[n].got
               /\ \/ summary' \in {{}, summary, manifest}
                  \/ \E n \in Slots : summary' = calls[n].got
<1>2. SUFFICES Change
  BY <1>1 DEF AnswersBacked, Backed
<1>3. NoCall.got = {} /\ Asking("list").got = {} /\ Asking("summary").got = {}
  BY DEF NoCall, Asking
<1>4. CASE ForgeStep
  BY <1>4 DEF ForgeStep
<1>5. ASSUME NEW p \in Procs, ProcessEnds(p)
      PROVE  Change
  BY <1>0, <1>3, <1>5 DEF ProcessEnds, Crash, disk
<1>6. CASE OpenPage
  BY <1>0, <1>3, <1>6, ConsoleAssumption DEF OpenPage
<1>7. CASE ClosePage \/ Reconnect \/ Poll \/ PollFails \/ Submit
  BY <1>3, <1>7 DEF ClosePage, Reconnect, Poll, PollFails, Send, Submit
<1>8. CASE OnMessage
  BY <1>0, <1>3, <1>8 DEF OnMessage
<1>9. ASSUME NEW n \in Slots, Answer(n) \/ AnswerFails(n)
      PROVE  Change
  <2>1. CASE Answer(n)
    BY <1>0, <2>1 DEF Answer
  <2>2. CASE AnswerFails(n)
    BY <1>0, <2>2 DEF AnswerFails
  <2> QED
    BY <1>9, <2>1, <2>2
<1>10. ASSUME NEW n \in Slots, ApplyList(n) \/ ApplySummary(n) \/ CallFails(n)
       PROVE  Change
  BY <1>0, <1>3, <1>10 DEF ApplyList, ApplySummary, CallFails
<1>11. CASE OnBuild
  BY <1>11 DEF OnBuild, Refused, PostFails, Accepted
<1> QED
  BY <1>4, <1>5, <1>6, <1>7, <1>8, <1>9, <1>10, <1>11 DEF ConsoleNext, Refresh

----------------------------------------------------------------------------

LEMMA ConsoleStep == CInv /\ [ConsoleNext]_allVars => CInv'
<1>1. ASSUME CInv, ConsoleNext
      PROVE  CInv'
  BY <1>1, StepOfForge, StepInv, ConsoleTypeStep, BackedStep DEF CInv
<1>2. ASSUME CInv, UNCHANGED allVars
      PROVE  CInv'
  <2>1. IInv'
    BY <1>2, StepInv DEF CInv, allVars
  <2>2. ConsoleTypeOK'
    BY <1>2 DEF CInv, ConsoleTypeOK, allVars, pageVars
  <2>3. AnswersBacked' /\ Backed(list)' /\ Backed(summary)'
    BY <1>2 DEF CInv, AnswersBacked, Backed, allVars, pageVars, vars
  <2> QED
    BY <2>1, <2>2, <2>3 DEF CInv
<1> QED
  BY <1>1, <1>2

\* Every reachable state satisfies the inductive invariant.
THEOREM ConsoleInvariance == ConsoleSpec => []CInv
  BY InitConsole, ConsoleStep, PTL DEF ConsoleSpec

\* What the page holds has its type, for any number of events and refreshes in
\* flight.
THEOREM ConsoleTyping == ConsoleSpec => []ConsoleTypeOK
<1>1. CInv => ConsoleTypeOK
  BY DEF CInv
<1> QED
  BY <1>1, ConsoleInvariance, PTL

\* A corpus listed or counted by the page is one the manifest still describes, in
\* whatever order refreshes, builds, crashes and reloads come.
THEOREM NothingVanishes == ConsoleSpec => []ListIsBacked
<1>1. CInv => ListIsBacked
  BY DEF CInv, Backed, ListIsBacked
<1> QED
  BY <1>1, ConsoleInvariance, PTL
=============================================================================
