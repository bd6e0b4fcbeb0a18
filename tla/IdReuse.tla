------------------------------ MODULE IdReuse ------------------------------
(***************************************************************************)
(* The timers when an application uses an id again.  Everything the client *)
(* keeps about a request is kept under its id: a timer's entry in itimers, *)
(* its command in timers, and BinStream erases by the id of the message it *)
(* has just handed over.  An application that waits for the answer before  *)
(* it uses the id again still meets what the earlier request left behind:  *)
(*   - its entry in itimers stays until its 15 s are over, and then times  *)
(*     the new request out, however young that is;                         *)
(*   - BinStream's erase comes after the answer, and may remove the timer  *)
(*     the new request has just been given, or emplace may find the old    *)
(*     command there and keep it;                                          *)
(*   - a reply that comes after a timeout answers the new request.         *)
(* And BinStream erases for every message, also for one that answers       *)
(* nothing: a cancel_rsp, for which its switch has no case, or a message   *)
(* of the server's own whose id happens to be in use.                      *)
(* The module says when a request is safe from this, and what is still     *)
(* true when it is not.  Gates and tables are RequestTimers's; here every  *)
(* command has its case in OnTimer.                                        *)
(***************************************************************************)
EXTENDS Integers, Sequences

CONSTANTS
    Ids,            \* ids of the application's requests
    Free, Procc,    \* timers_lock is free; the Procc thread holds it
    TIMEOUT,        \* the 15000 ms of TestTimers, in ticks of the model
    TickMod,        \* GetTickCount wraps here (2^32 ms)
    MaxStall,       \* bound: no timer waits this long for a pass of TestTimers
    MaxRequests,    \* bound: requests sent
    MaxUnasked,     \* bound: messages the server sends of its own accord
    NoId            \* the network thread has no message in hand

ASSUME ReuseAssumption ==
    /\ TIMEOUT \in Nat \ {0} /\ TickMod \in Nat /\ MaxStall \in Nat
    /\ TIMEOUT < MaxStall /\ MaxStall < TickMod
    /\ MaxRequests \in Nat /\ MaxUnasked \in Nat
    /\ Free # Procc /\ NoId \notin Ids

VARIABLES
    clock,          \* GetTickCount()
    reqs,           \* ids of the requests sent so far; a request is its place here
    open,           \* ids under which the application waits for an answer
    answers,        \* for whom it was answered under each id since it last used it
    input,          \* input_queue_
    ppc, cur, tick, \* Procc: where it is, the request in hand, TestTimers's tick
    itimers, timers, timers_lock,
    server,         \* requests the server may still answer
    npc,            \* the network thread: "idle", or before the erase of a message
                    \* that its switch has made an answer of, or not ("silent")
    nid, nreq,      \* the id of that message, the request the server meant by it
    unasked,        \* how many messages the server sent of its own accord
    fresh,          \* history: requests whose id nothing was left of
    cut,            \* history: requests whose timer went with an earlier one's reply
    overheard       \* history: ... or with a message that answered nothing

avars == <<reqs, open, answers, fresh>>
pvars == <<ppc, cur, tick>>
tvars == <<itimers, timers, timers_lock>>
nvars == <<npc, nid, nreq, unasked>>
hvars == <<cut, overheard>>
vars  == <<clock, avars, input, pvars, tvars, server, nvars, hvars>>

(* No request: they count from 1. *)
None == 0

Init ==
    /\ clock \in 0..TickMod - 1
    /\ reqs = <<>> /\ open = {} /\ answers = [i \in Ids |-> <<>>]
    /\ input = <<>>
    /\ ppc = "loop" /\ cur = None /\ tick = 0
    /\ itimers = <<>> /\ timers = [i \in {} |-> None] /\ timers_lock = Free
    /\ server = {} /\ npc = "idle" /\ nid = NoId /\ nreq = None /\ unasked = 0
    /\ fresh = {} /\ cut = {} /\ overheard = {}

Requests == 1..Len(reqs)

Of(id) == {n \in Requests : reqs[n] = id}

(* The request the application means by id. *)
Last(id) == CHOOSE n \in Of(id) : \A k \in Of(id) : k <= n

Queued(id) == \E k \in DOMAIN itimers : itimers[k].id = id

InHand(id) == \E n \in Of(id) : n = cur \/ \E k \in DOMAIN input : input[k] = n

(* Nothing is left of the earlier requests under this id. *)
Quiet(id) ==
    /\ ~Queued(id) /\ ~InHand(id)
    /\ Of(id) \cap server = {}
    /\ nreq \notin Of(id)

(* SendResp, and the application takes it for the answer it waits for. *)
Answer(id, n) ==
    /\ answers' = [answers EXCEPT ![id] = Append(@, n)]
    /\ open' = open \ {id}

-----------------------------------------------------------------------------
(* The application and the world *)

(* send() under an id that is new, or that has its answer.  What history   *)
(* keeps, it keeps of the latest request of an id.                         *)
send(id) ==
    /\ Len(reqs) < MaxRequests
    /\ id \notin open
    /\ reqs' = Append(reqs, id)
    /\ open' = open \cup {id}
    /\ answers' = [answers EXCEPT ![id] = <<>>]
    /\ input' = Append(input, Len(reqs) + 1)
    /\ fresh' = (fresh \ Of(id)) \cup (IF Quiet(id) THEN {Len(reqs) + 1} ELSE {})
    /\ cut' = cut \ Of(id) /\ overheard' = overheard \ Of(id)
    /\ UNCHANGED <<clock, pvars, tvars, server, nvars>>

(* A millisecond passes; age is how long an entry has really waited. *)
Tick ==
    /\ \A k \in DOMAIN itimers : itimers[k].age < MaxStall
    /\ clock' = (clock + 1) % TickMod
    /\ itimers' = [k \in DOMAIN itimers |-> [itimers[k] EXCEPT !.age = @ + 1]]
    /\ UNCHANGED <<avars, input, pvars, timers, timers_lock, server, nvars, hvars>>

-----------------------------------------------------------------------------
(* The Procc thread *)

(* The handler cannot get its message out and answers itself. *)
Refuse ==
    /\ ppc = "loop" /\ input # <<>>
    /\ LET n == Head(input) IN Answer(reqs[n], n)
    /\ input' = Tail(input)
    /\ UNCHANGED <<clock, reqs, fresh, pvars, tvars, server, nvars, hvars>>

(* The handler sends its message, which may be lost on the way. *)
SendOk ==
    /\ ppc = "loop" /\ input # <<>>
    /\ cur' = Head(input) /\ input' = Tail(input)
    /\ ppc' = "start"
    /\ server' \in {server, server \cup {Head(input)}}
    /\ UNCHANGED <<clock, avars, tick, tvars, nvars, hvars>>

(* Mutant: no emplace. *)
StartTimer_NotMapped ==
    /\ ppc = "start" /\ timers_lock = Free
    /\ itimers' = Append(itimers, [id |-> reqs[cur], tick |-> clock,
                                   age |-> 0, of |-> cur])
    /\ ppc' = "loop" /\ cur' = None
    /\ UNCHANGED <<clock, avars, input, tick, timers, timers_lock, server, nvars, hvars>>

(* push and emplace, which keeps a command that is there.  The command is  *)
(* modelled by the request it came with.                                   *)
StartTimer ==
    /\ ppc = "start" /\ timers_lock = Free
    /\ LET id == reqs[cur]
       IN  /\ itimers' = Append(itimers, [id |-> id, tick |-> clock,
                                          age |-> 0, of |-> cur])
           /\ timers' = [i \in DOMAIN timers \cup {id} |->
                            IF i \in DOMAIN timers THEN timers[i] ELSE cur]
    /\ ppc' = "loop" /\ cur' = None
    /\ UNCHANGED <<clock, avars, input, tick, timers_lock, server, nvars, hvars>>

LoopEnds ==
    /\ ppc = "loop" /\ input = <<>> /\ itimers # <<>>
    /\ ppc' = "lock" /\ tick' = clock
    /\ UNCHANGED <<clock, avars, input, cur, tvars, server, nvars, hvars>>

LockTimers ==
    /\ ppc = "lock" /\ timers_lock = Free
    /\ timers_lock' = Procc /\ ppc' = "scan"
    /\ UNCHANGED <<clock, avars, input, cur, tick, itimers, timers, server, nvars, hvars>>

(* Mutant: a tick too early. *)
Expired_Young(t) == (tick - t.tick) % TickMod >= TIMEOUT - 1

(* tick - t.tick in unsigned 32-bit arithmetic, against 15000. *)
Expired(t) == (tick - t.tick) % TickMod >= TIMEOUT

Erase(id) == timers' = [i \in DOMAIN timers \ {id} |-> timers[i]]

(* Mutant: the map keeps a command that has been answered for. *)
ExpireFirst_Keeps ==
    /\ ppc = "scan" /\ itimers # <<>> /\ Expired(Head(itimers))
    /\ LET id == Head(itimers).id
       IN  /\ IF id \in DOMAIN timers
              THEN Answer(id, timers[id])
              ELSE UNCHANGED <<answers, open>>
           /\ UNCHANGED timers
    /\ itimers' = Tail(itimers)
    /\ UNCHANGED <<clock, reqs, fresh, input, pvars, timers_lock, server, nvars, hvars>>

(* One turn of TestTimers's while: OnTimer answers for whatever the map    *)
(* has under the entry's id.                                               *)
ExpireFirst ==
    /\ ppc = "scan" /\ itimers # <<>> /\ Expired(Head(itimers))
    /\ LET id == Head(itimers).id
       IN  IF id \in DOMAIN timers
           THEN /\ Answer(id, timers[id])
                /\ Erase(id)
           ELSE UNCHANGED <<answers, open, timers>>
    /\ itimers' = Tail(itimers)
    /\ UNCHANGED <<clock, reqs, fresh, input, pvars, timers_lock, server, nvars, hvars>>

(* The scan ends, and Procc's turn with it. *)
ScanEnds ==
    /\ ppc = "scan"
    /\ itimers # <<>> => ~Expired(Head(itimers))
    /\ timers_lock' = Free
    /\ ppc' = "loop" /\ tick' = 0
    /\ UNCHANGED <<clock, avars, input, cur, itimers, timers, server, nvars, hvars>>

-----------------------------------------------------------------------------
(* The network thread: BinStream *)

(* The switch makes an answer of the reply, or has no case for it, as for  *)
(* cancel_rsp: a request's kind shows nowhere else.                        *)
DeliverReply ==
    /\ npc = "idle"
    /\ \E n \in server :
          /\ server' = server \ {n}
          /\ nid' = reqs[n] /\ nreq' = n
          /\ \/ npc' = "answered" /\ Answer(reqs[n], n)
             \/ npc' = "silent" /\ UNCHANGED <<answers, open>>
    /\ UNCHANGED <<clock, reqs, fresh, input, pvars, tvars, unasked, hvars>>

(* A message of the server's own, with the id of one of our requests: the  *)
(* application is given an indication, or nothing, but no answer.          *)
DeliverUnasked ==
    /\ npc = "idle"
    /\ unasked < MaxUnasked /\ unasked' = unasked + 1
    /\ nid' \in Ids /\ nreq' = None
    /\ npc' = "silent"
    /\ UNCHANGED <<clock, avars, input, pvars, tvars, server, hvars>>

(* The tail of BinStream, for the id of the message, whatever it was. *)
EraseTimer ==
    /\ npc # "idle" /\ timers_lock = Free
    /\ Erase(nid)
    /\ LET erased == nid \in DOMAIN timers
           earlier == nreq \notin {None, Last(nid)}
       IN  /\ cut' = IF erased /\ earlier THEN cut \cup {Last(nid)} ELSE cut
           /\ overheard' = IF erased /\ ~earlier /\ npc = "silent"
                           THEN overheard \cup {Last(nid)} ELSE overheard
    /\ npc' = "idle" /\ nid' = NoId /\ nreq' = None
    /\ UNCHANGED <<clock, avars, input, pvars, itimers, timers_lock, server, unasked>>

-----------------------------------------------------------------------------
ProccStep ==
    \/ Refuse \/ SendOk \/ StartTimer
    \/ LoopEnds \/ LockTimers \/ ExpireFirst \/ ScanEnds

Next ==
    \/ \E id \in Ids : send(id)
    \/ Tick
    \/ ProccStep
    \/ DeliverReply \/ DeliverUnasked \/ EraseTimer

(* The two threads are scheduled and time passes; the server and the       *)
(* application need never do anything again.                               *)
Spec == Init /\ [][Next]_vars /\ WF_vars(ProccStep) /\ WF_vars(EraseTimer) /\ WF_vars(Tick)

-----------------------------------------------------------------------------
(* Types, and the command in the map is one of the id's own requests. *)
TypeOK ==
    /\ clock \in 0..TickMod - 1 /\ tick \in 0..TickMod - 1
    /\ reqs \in Seq(Ids) /\ Len(reqs) <= MaxRequests
    /\ open \subseteq Ids /\ DOMAIN answers = Ids
    /\ input \in Seq(Requests)
    /\ ppc \in {"loop", "start", "lock", "scan"} /\ cur \in Requests \cup {None}
    /\ itimers \in Seq([id : Ids, tick : 0..TickMod - 1, age : 0..MaxStall, of : Requests])
    /\ DOMAIN timers \subseteq Ids /\ \A i \in DOMAIN timers : timers[i] \in Of(i)
    /\ timers_lock \in {Free, Procc}
    /\ server \subseteq Requests
    /\ npc \in {"idle", "answered", "silent"}
    /\ nid \in Ids \cup {NoId} /\ nreq \in Requests \cup {None}
    /\ unasked \in 0..MaxUnasked
    /\ fresh \subseteq Requests /\ cut \subseteq Requests /\ overheard \subseteq Requests

(* A request whose id was quiet when it was sent gets the answers meant    *)
(* for it and no others, and its timer carries its own command.            *)
FreshIsOwn ==
    \A id \in Ids : Of(id) # {} /\ Last(id) \in fresh =>
        /\ \A k \in DOMAIN answers[id] : answers[id][k] = Last(id)
        /\ id \in DOMAIN timers => timers[id] = Last(id)

(* ... and it is never early: TestTimers answers for it only when its own  *)
(* entry has waited 15 s.                                                  *)
FreshIsNotEarly ==
    [][\A id \in Ids :
          Of(id) # {} /\ Last(id) \in fresh /\ ppc = "scan"
              /\ Len(answers'[id]) > Len(answers[id]) /\ npc' = npc =>
          Head(itimers).of = Last(id) /\ Head(itimers).age >= TIMEOUT]_vars

(* A request the application waits for, out of Procc's hands and without a *)
(* timer, has lost it to the tail of BinStream in one of two ways: for the *)
(* reply to an earlier request under its id, which came through after its  *)
(* StartTimer, or for a message that answers nothing.  The first never     *)
(* happens to a request whose id was quiet; the second may, a Cancel_Req's *)
(* own cancel_rsp does it.                                                 *)
UntimedOnlyByErase ==
    /\ \A id \in open :
          ~InHand(id) /\ id \notin DOMAIN timers => Last(id) \in cut \cup overheard
    /\ fresh \cap cut = {}

(* Every request gets an answer under its id, its own or another's, but    *)
(* for those that lost their timer in one of these ways.                   *)
AnsweredUnlessErased ==
    \A id \in Ids : id \in open ~> id \notin open \/ Last(id) \in cut \cup overheard

=============================================================================
