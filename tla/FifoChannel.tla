---------------------------- MODULE FifoChannel ----------------------------
(***************************************************************************)
(* What a queue between two threads of the client promises: values come    *)
(* out once, in the order they went in, and a poll reports nothing only    *)
(* when there is nothing.                                                  *)
(***************************************************************************)
EXTENDS Sequences

CONSTANTS Values,   \* what the writers put
          None      \* the outcome of a poll that found nothing

VARIABLES chan,     \* the values in flight, oldest first
          last      \* the outcome of the reader's latest poll

vars == <<chan, last>>

Init == chan = <<>> /\ last = None

Put(v) == chan' = Append(chan, v) /\ UNCHANGED last

Get ==
    /\ chan # <<>>
    /\ last' = Head(chan)
    /\ chan' = Tail(chan)

Miss ==
    /\ chan = <<>>
    /\ last' = None
    /\ UNCHANGED chan

Next == (\E v \in Values : Put(v)) \/ Get \/ Miss

Spec == Init /\ [][Next]_vars

\* A value that is in the channel does not stay in it forever.
FairSpec == Spec /\ WF_vars(Get)
=============================================================================
