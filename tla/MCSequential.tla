---------------------------- MODULE MCSequential ----------------------------
(***************************************************************************)
(* Instances for TLC of the three computations that run to their end       *)
(* without anyone else: a build of an index document by document, the page *)
(* cache, and the sanitiser of queries.  They share no state, so a         *)
(* behaviour is one of one of them, with the variables of the others as    *)
(* they were at the start.                                                 *)
(***************************************************************************)
EXTENDS Indexer, PageCache, Query

----------------------------------------------------------------------------
(* A build: every corpus of up to MaxLines lines. *)

L(kind, importance) == [kind |-> kind, importance |-> importance]

\* Explicit importances above, between and equal to the defaults 0, -1, -2, ...
MCLines ==
    {L("blank", Default), L("malformed", Default), L("hollow", Default),
     L("unreadable", Default), L("doc", Default), L("doc", 5), L("doc", -1)}

H(magic, brace, ext) == [magic |-> magic, brace |-> brace, ext |-> ext]

JsonlFile == H(FALSE, TRUE, "jsonl")

\* A corpus as it should be, a ZIM archive renamed to .jsonl, one by its name only,
\* and a file that is neither.
MCHeaders == {JsonlFile, H(TRUE, FALSE, "jsonl"), H(FALSE, FALSE, "zim"), H(FALSE, FALSE, "txt")}

Rows(extract, index) == [extract |-> extract, index |-> index]

\* What builds with a mark every two documents leave: nothing, a build of four
\* documents that finished, and an import that failed after its first mark.
MCLeftovers ==
    {Rows(NoRow, NoRow),
     Rows(Completed(Marked(NoRow, 4, 4)), Completed(Marked(NoRow, 4, 4))),
     Rows(Marked(NoRow, 2, 2), Failed(NoRow))}

----------------------------------------------------------------------------
(* A source of seven bytes in pages of two: the last page is short, and reads  *)
(* start and end at every alignment, before and past the end.                  *)

MCOffsets == 0..7
MCLengths == {0, 1, 2, 3, 5, 8}

----------------------------------------------------------------------------

VARIABLE running  \* which of the three this behaviour is of

seqVars == <<indexerVars, vars, raw, running>>

\* What the two that stay at their start begin with is left at its simplest.
SeqInit ==
    /\ running \in {"indexer", "pagecache", "query"}
    /\ IF running = "indexer" THEN TRUE
       ELSE file = <<>> /\ header = JsonlFile /\ before = Rows(NoRow, NoRow)
    /\ IF running = "pagecache" THEN TRUE ELSE maxBytes = 4
    /\ IndexerInit /\ Init /\ QueryInit

SeqNext ==
    /\ \/ running = "indexer" /\ IndexerNext /\ UNCHANGED <<vars, raw>>
       \/ running = "pagecache" /\ Next /\ UNCHANGED <<indexerVars, raw>>
       \/ running = "query" /\ QueryNext /\ UNCHANGED <<indexerVars, vars>>
    /\ UNCHANGED running

SeqSpec == SeqInit /\ [][SeqNext]_seqVars

\* One of the three by itself, for the sentences of the sources it refutes.
IndexerOnly == SeqSpec /\ running = "indexer"
QueryOnly == SeqSpec /\ running = "query"
=============================================================================
