----------------------------- MODULE MCConsole -----------------------------
(***************************************************************************)
(* Instances of Console for TLC: one daemon with one thread, and its page. *)
(***************************************************************************)
EXTENDS Console, TLC

CONSTANTS d, k, d1, k1, small, empty, broken

TaskOwner == (d1 :> d) @@ (k1 :> k)
MCOwner == [t \in Tasks |-> TaskOwner[t]]

CorpusDocs == (small :> 1) @@ (empty :> 0) @@ (broken :> 2)
MCDocs == [c \in Corpora |-> CorpusDocs[c]]
MCReadable == [c \in Corpora |-> c # broken]
=============================================================================
