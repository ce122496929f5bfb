----------------------------- MODULE ByteSource -----------------------------
(***************************************************************************)
(* What a ByteSource promises its caller, whoever implements it: a read is *)
(* answered once, with exactly the bytes of the source in the range that   *)
(* was asked for, or with null when the source cannot serve it.  A read of *)
(* an empty range has nothing to wait for.                                 *)
(***************************************************************************)
EXTENDS Integers

CONSTANTS Size, Offsets, Lengths

VARIABLES
    asked,  \* {} or the one <<offset, length>> under way
    result  \* the last answer: its kind, and its bytes by index

\* The bytes of a range, clamped to what the source holds.
Bytes(offset, length) ==
    LET end == IF offset + length < Size THEN offset + length ELSE Size
    IN [k \in 0..(end - offset - 1) |-> offset + k]

Answer(kind, bytes) == [kind |-> kind, bytes |-> bytes]

NoBytes == Bytes(0, 0)

Init == asked = {} /\ result = Answer("none", NoBytes)

Ask(offset, length) ==
    /\ length > 0 /\ offset < Size
    /\ asked' = {<<offset, length>>}
    /\ result' = Answer("none", NoBytes)

AskNothing(offset, length) ==
    /\ length <= 0 \/ offset >= Size
    /\ result' = Answer("bytes", NoBytes)
    /\ UNCHANGED asked

Serve(read) ==
    /\ asked' = {}
    /\ result' = Answer("bytes", Bytes(read[1], read[2]))

Refuse ==
    /\ asked # {}
    /\ asked' = {}
    /\ result' = Answer("null", NoBytes)

Next ==
    \/ /\ asked = {}
       /\ \E offset \in Offsets, length \in Lengths :
              Ask(offset, length) \/ AskNothing(offset, length)
    \/ \E read \in asked : Serve(read)
    \/ Refuse

Spec == Init /\ [][Next]_<<asked, result>>
=============================================================================
