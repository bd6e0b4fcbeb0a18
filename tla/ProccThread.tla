---------------------------- MODULE ProccThread ----------------------------
(***************************************************************************)
(* The life of the Procc thread: init() starts it, loop() feeds it from    *)
(* input_queue_, and ~Impl asks it to leave with a null request, but does  *)
(* not wait.  The members are destroyed next, the last declared first:     *)
(* timers and itimers go while Procc may still use them, and then procc, a *)
(* thread nobody joined, which ends the process (std::terminate).          *)
(*                                                                         *)
(* A request has no contents here, so that any number of them can be sent. *)
(* The queue is the FIFO channel that MpscPollableQueue implements.        *)
(***************************************************************************)
EXTENDS Naturals, Sequences

CONSTANTS
    Cap     \* bound: requests in the queue

ASSUME CapAssumption == Cap \in Nat \ {0}

VARIABLES
    input,  \* input_queue_: "request", or "null" from the destructor
    pc,     \* Procc: loop(), a handler, TestTimers, the rest of its turn, gone
    armed,  \* itimers is not empty
    life,   \* the Client: "up", its destructor on the way, "terminated"
    dead    \* Procc used a member after its destruction

pvars == <<input, pc, armed, life, dead>>

ProccInit ==
    /\ input = <<>> /\ pc = "loop" /\ armed = FALSE
    /\ life = "up" /\ dead = FALSE

Running == life # "terminated"

(* A handler's StartTimer and TestTimers use the timers. *)
TouchTimers == dead' = (dead \/ life = "destroyed")

-----------------------------------------------------------------------------
(* The application *)

Send ==
    /\ life = "up" /\ Len(input) < Cap
    /\ input' = Append(input, "request")
    /\ UNCHANGED <<pc, armed, life, dead>>

(* ~Impl: writer_put({ 0, nullptr }). *)
Destructor ==
    /\ life = "up"
    /\ life' = "asked"
    /\ input' = Append(input, "null")
    /\ UNCHANGED <<pc, armed, dead>>

(* timers_lock, timers, itimers, and the strings before them. *)
DestroyTimers ==
    /\ life = "asked"
    /\ life' = "destroyed"
    /\ UNCHANGED <<input, pc, armed, dead>>

(* procc: the thread is joinable, whether it has returned or not. *)
DestroyProcc ==
    /\ life = "destroyed"
    /\ life' = "terminated"
    /\ UNCHANGED <<input, pc, armed, dead>>

-----------------------------------------------------------------------------
(* The Procc thread *)

(* Mutant: the position in the queue stays where it is. *)
Get_Stays ==
    /\ Running /\ pc = "loop" /\ input # <<>> /\ Head(input) = "request"
    /\ pc' = "handle"
    /\ UNCHANGED <<input, armed, life, dead>>

Get ==
    /\ Running /\ pc = "loop" /\ input # <<>> /\ Head(input) = "request"
    /\ input' = Tail(input)
    /\ pc' = "handle"
    /\ UNCHANGED <<armed, life, dead>>

(* Mutant: the null request is skipped like any other that does nothing. *)
GetNull_Skips ==
    /\ Running /\ pc = "loop" /\ input # <<>> /\ Head(input) = "null"
    /\ input' = Tail(input)
    /\ pc' = "loop"
    /\ UNCHANGED <<armed, life, dead>>

(* loop() returns true and Procc breaks out of its while. *)
GetNull ==
    /\ Running /\ pc = "loop" /\ input # <<>> /\ Head(input) = "null"
    /\ input' = Tail(input)
    /\ pc' = "gone"
    /\ UNCHANGED <<armed, life, dead>>

(* The handler refuses, or sends the message and starts a timer. *)
OnRequest ==
    /\ Running /\ pc = "handle"
    /\ pc' = "loop"
    /\ \/ UNCHANGED <<armed, dead>>
       \/ armed' = TRUE /\ TouchTimers
    /\ UNCHANGED <<input, life>>

(* loop() returns false; itimers.size() is read without the lock. *)
LoopEnds ==
    /\ Running /\ pc = "loop" /\ input = <<>>
    /\ pc' = IF armed THEN "timers" ELSE "rest"
    /\ TouchTimers
    /\ UNCHANGED <<input, armed, life>>

TestTimers ==
    /\ Running /\ pc = "timers"
    /\ pc' = "rest"
    /\ armed' \in {TRUE, FALSE}
    /\ TouchTimers
    /\ UNCHANGED <<input, life>>

Rest ==
    /\ Running /\ pc = "rest"
    /\ pc' = "loop"
    /\ UNCHANGED <<input, armed, life, dead>>

ProccStep == Get \/ GetNull \/ OnRequest \/ LoopEnds \/ TestTimers \/ Rest

ProccNext == Send \/ Destructor \/ DestroyTimers \/ DestroyProcc \/ ProccStep

(* Procc is scheduled.  Nothing makes the application send, or destroy the *)
(* client, or the destructor run on.                                       *)
ProccSpec == ProccInit /\ [][ProccNext]_pvars /\ WF_pvars(ProccStep)

-----------------------------------------------------------------------------
(* Procc uses a destroyed member only while the destructor's null request  *)
(* is still in the queue: a destructor that waited until it is taken, and  *)
(* destroyed nothing before, would be enough.                              *)
DeadOnlyBeforeNull ==
    [][dead' # dead => \E k \in DOMAIN input : input[k] = "null"]_pvars

(* Timers are looked at again and again, unless the application never lets *)
(* the queue run empty: loop() returns to Procc only then, and a request   *)
(* whose 15 s are over waits for it.                                       *)
StarvedOnlyByFlood ==
    \/ []<>(pc = "rest")
    \/ []<><<Send>>_pvars
    \/ <>(pc = "gone" \/ life = "terminated")

(* Asked to leave, Procc leaves, and only after everything that was in the *)
(* queue has been handled, unless the process ends first, as it does when  *)
(* the destructor goes on.                                                 *)
LeavesWhenAsked ==
    life = "asked" ~> (pc = "gone" /\ input = <<>>) \/ life = "terminated"

=============================================================================
