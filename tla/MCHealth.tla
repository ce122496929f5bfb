------------------------------ MODULE MCHealth ------------------------------
(***************************************************************************)
(* Instance of Health for TLC: a daemon that builds and probes, and a      *)
(* command line that builds on the same disk.                              *)
(***************************************************************************)
EXTENDS Health, TLC

CONSTANTS d, k, d1, k1, small

TaskOwner == (d1 :> d) @@ (k1 :> k)
MCOwner == [t \in Tasks |-> TaskOwner[t]]

MCDocs == [c \in Corpora |-> 1]
MCReadable == [c \in Corpora |-> TRUE]
=============================================================================
