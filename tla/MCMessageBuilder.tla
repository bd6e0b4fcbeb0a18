-------------------------- MODULE MCMessageBuilder --------------------------
(* MessageBuilder on a small array. *)
EXTENDS MessageBuilder

(* Nothing, one byte, two, and a value one longer than a word can say. *)
MCValues == { <<>>, <<1>>, <<2, 3>>, [i \in 1 .. WordMax + 1 |-> 1] }

=============================================================================
