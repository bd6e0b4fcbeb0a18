------------------------------ MODULE TlvItems ------------------------------
(***************************************************************************)
(* What a sequence of bytes says as a list of parameters, as every reader  *)
(* of the library takes it: a tag and a length, a word each, then the      *)
(* value; reading ends where fewer than four bytes are left or the value   *)
(* does not fit into the rest.  The reference for the loops that read.     *)
(***************************************************************************)
EXTENDS Naturals, Sequences

CONSTANT Base

(* The word at byte i, counted from 1. *)
WordAt(s, i) == s[i] + Base * s[i + 1]

(* A parameter begins after the first k bytes and lies inside them all. *)
ItemFits(s, k) == k + 4 <= Len(s) /\ k + 4 + WordAt(s, k + 3) <= Len(s)

(* It, and how many bytes lie before the next. *)
ItemAt(s, k) == [tag |-> WordAt(s, k + 1),
                 val |-> SubSeq(s, k + 5, k + 4 + WordAt(s, k + 3))]
NextAfter(s, k) == k + 4 + WordAt(s, k + 3)

(* The parameters after the first k bytes, for every k. *)
Walk(s) ==
    LET from[k \in 0 .. Len(s)] ==
            IF ItemFits(s, k) THEN << ItemAt(s, k) >> \o from[NextAfter(s, k)]
            ELSE <<>>
    IN  from

ItemsFrom(s, k) == Walk(s)[k]

Items(s) == ItemsFrom(s, 0)

=============================================================================
