------------------------------ MODULE MCForge ------------------------------
(***************************************************************************)
(* Instances of Forge for TLC: one daemon with two threads (so that `busy` *)
(* has something to exclude) and one command line on one disk.             *)
(***************************************************************************)
EXTENDS Forge, TLC

CONSTANTS d, k, d1, d2, k1, small, big, empty, broken

TaskOwner == (d1 :> d) @@ (d2 :> d) @@ (k1 :> k)
MCOwner == [t \in Tasks |-> TaskOwner[t]]

\* With JournalEvery = 2: a corpus that never reaches a mark, one that reaches
\* one and goes on, one without a usable document, and one whose third document
\* is a line that is not UTF-8.
CorpusDocs == (small :> 1) @@ (big :> 3) @@ (empty :> 0) @@ (broken :> 2)
MCDocs == [c \in Corpora |-> CorpusDocs[c]]
MCReadable == [c \in Corpora |-> c # broken]

\* The two threads of the daemon are interchangeable.
ThreadSymmetry == Permutations({d1, d2})
=============================================================================
