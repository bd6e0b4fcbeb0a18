--------------------------- MODULE RequestTimers ---------------------------
(***************************************************************************)
(* How a request of the application gets its answer: Client::Impl::send,   *)
(* loop and the request handlers on the Procc thread, BinStream on the     *)
(* network thread, StartTimer and TestTimers, and the two structures they  *)
(* share under timers_lock: the queue itimers of (id, tick) and the map    *)
(* timers from id to the request's command.                                *)
(*                                                                         *)
(* The tables of the handlers are parameters.  Whether a gate is open is   *)
(* decided by the connection (see Connection), which changes behind the    *)
(* handlers' back.  An id is used for one request.                         *)
(***************************************************************************)
EXTENDS Integers, Sequences

CONSTANTS
    Ids,            \* ids of the application's requests
    Names,          \* requests it may send, by stem
    Request(_),     \* OnRequest: the descriptor of a request's handler
    Dispatch(_),    \* BinStream: what becomes of a message from the server
    Cases,          \* OnTimer: the timer commands it has a case for
    Unasked,        \* messages the server sends of its own accord: <<id, wire>>
    None,           \* no request, no timer, no answer
    Free, Procc,    \* timers_lock is free; the Procc thread holds it
    TIMEOUT,        \* the 15000 ms of TestTimers, in ticks of the model
    TickMod,        \* GetTickCount wraps here (2^32 ms)
    MaxStall,       \* bound: no timer waits this long for a pass of TestTimers
    MaxUnasked      \* bound: messages the server sends of its own accord

ASSUME TimersAssumption ==
    /\ TIMEOUT \in Nat \ {0} /\ TickMod \in Nat /\ MaxStall \in Nat
    /\ TIMEOUT < MaxStall /\ MaxStall < TickMod
    /\ None \notin Names \cup Ids \cup Cases
    /\ \A m \in Unasked : m[1] # None
    /\ MaxUnasked \in Nat
    /\ Free # Procc

(* The three tables agree on these requests: a refusal, a timeout and the  *)
(* server's reply to X_Req all become X_Rsp, and where there is a timeout  *)
(* there is a refusal too.                                                 *)
TablesAgree(names) ==
    \A name \in names :
        LET r == Request(name)
            reply == Dispatch(<<r.wire[1], r.wire[2], "rsp">>)
        IN  /\ r.fail \in {None, name}
            /\ r.timer \in Cases => r.timer = name /\ r.fail = name
            /\ r.wire[3] = "req" => /\ reply.kind # "Ind"
                                    /\ reply.kind = "Rsp" => reply.class = name

VARIABLES
    clock,          \* GetTickCount()
    gates,          \* the gates the connection keeps open
    input,          \* input_queue_, a FIFO channel of ids
    asked,          \* the request of each id, None before it is sent
    ppc, cur, tick, \* Procc: where it is, the request in hand, TestTimers's tick
    itimers, timers, timers_lock,
    server,         \* requests that reached the server: <<id, wire>>
    npc, nid,       \* the network thread: where it is, the id of its message
    unasked,        \* how many messages the server sent of its own accord
    answers,        \* what SendResp was given for each id, in order
    overheard,      \* ids whose timer a message that is no answer to them cancels
    overtaken       \* ids whose answer was through before StartTimer ran

pvars == <<ppc, cur, tick>>
tvars == <<itimers, timers, timers_lock>>
nvars == <<npc, nid, unasked, overheard, overtaken>>
vars  == <<clock, gates, input, asked, pvars, tvars, server, nvars, answers>>

ProccPC == {"loop", "gate", "send", "start", "lock", "scan", "rest"}
Gates == {"opened", "online"}

Init ==
    /\ clock \in 0..TickMod - 1
    /\ gates = {}
    /\ input = <<>> /\ asked = [i \in Ids |-> None]
    /\ ppc = "loop" /\ cur = None /\ tick = 0
    /\ itimers = <<>> /\ timers = [i \in {} |-> None] /\ timers_lock = Free
    /\ server = {}
    /\ npc = "idle" /\ nid = None /\ unasked = 0
    /\ overheard = {} /\ overtaken = {}
    /\ answers = [i \in Ids |-> <<>>]

(* SendResp: one more object for the application under this id. *)
Answer(id, class, kind, why) ==
    answers' = [answers EXCEPT ![id] =
                    Append(@, [class |-> class, kind |-> kind, why |-> why])]

-----------------------------------------------------------------------------
(* The application and the world *)

(* send(): a null function is dropped, anything else joins the queue. *)
send(id, name) ==
    /\ asked[id] = None
    /\ asked' = [asked EXCEPT ![id] = name]
    /\ input' = Append(input, id)
    /\ UNCHANGED <<clock, gates, pvars, tvars, server, nvars, answers>>

(* The connection moves on: past wait_open, online, or down again. *)
ConnectionChanges ==
    /\ gates' \in {{}, {"opened"}, {"opened", "online"}} \ {gates}
    /\ UNCHANGED <<clock, input, asked, pvars, tvars, server, nvars, answers>>

(* A millisecond passes.  age is how long an entry has really waited; that *)
(* no entry waits for the wrap of the tick count is the bound MaxStall.    *)
Tick ==
    /\ \A k \in 1..Len(itimers) : itimers[k].age < MaxStall
    /\ clock' = (clock + 1) % TickMod
    /\ itimers' = [k \in 1..Len(itimers) |-> [itimers[k] EXCEPT !.age = @ + 1]]
    /\ UNCHANGED <<gates, input, asked, pvars, timers, timers_lock, server, nvars, answers>>

-----------------------------------------------------------------------------
(* The Procc thread: loop() and the request handlers *)

Take ==
    /\ ppc = "loop" /\ input # <<>>
    /\ cur' = Head(input)
    /\ input' = Tail(input)
    /\ ppc' = "gate"
    /\ UNCHANGED <<clock, gates, asked, tick, tvars, server, nvars, answers>>

(* The end of every handler that did not get its message out. *)
Refuse ==
    LET fail == Request(asked[cur]).fail
    IN  /\ IF fail = None THEN UNCHANGED answers ELSE Answer(cur, fail, "Rsp", "fail")
        /\ ppc' = "loop" /\ cur' = None
        /\ UNCHANGED <<clock, gates, input, asked, tick, tvars, server, nvars>>

GateShut ==
    /\ ppc = "gate"
    /\ Request(asked[cur]).gate \notin gates
    /\ Refuse

GateOpen ==
    /\ ppc = "gate"
    /\ Request(asked[cur]).gate \in gates
    /\ ppc' = "send"
    /\ UNCHANGED <<clock, gates, input, asked, cur, tick, tvars, server, nvars, answers>>

(* No bin_stream is installed, or it returns false. *)
SendFails == ppc = "send" /\ Refuse

(* bin_stream returns true; the message may still be lost with the link.   *)
(* The request is on its way, and may be answered, before its timer runs.  *)
SendOk ==
    /\ ppc = "send"
    /\ \/ server' = server \cup {<<cur, Request(asked[cur]).wire>>}
       \/ UNCHANGED server
    /\ IF Request(asked[cur]).timer = None
       THEN ppc' = "loop" /\ cur' = None
       ELSE ppc' = "start" /\ UNCHANGED cur
    /\ UNCHANGED <<clock, gates, input, asked, tick, tvars, nvars, answers>>

(* Mutant: no emplace. *)
StartTimer_NotMapped ==
    /\ ppc = "start"
    /\ timers_lock = Free
    /\ itimers' = Append(itimers, [id |-> cur, tick |-> clock, age |-> 0])
    /\ ppc' = "loop" /\ cur' = None
    /\ UNCHANGED <<clock, gates, input, asked, tick, timers, timers_lock, server, nvars, answers>>

(* Mutant: the newest timer in front. *)
StartTimer_Front ==
    /\ ppc = "start"
    /\ timers_lock = Free
    /\ itimers' = <<[id |-> cur, tick |-> clock, age |-> 0]>> \o itimers
    /\ timers' = [i \in DOMAIN timers \cup {cur} |->
                    IF i \in DOMAIN timers THEN timers[i] ELSE Request(asked[cur]).timer]
    /\ ppc' = "loop" /\ cur' = None
    /\ UNCHANGED <<clock, gates, input, asked, tick, timers_lock, server, nvars, answers>>

(* StartTimer: push, and emplace, which leaves an id that is there alone.  *)
(* All of it happens inside timers_lock, so it is one step.                *)
StartTimer ==
    /\ ppc = "start"
    /\ timers_lock = Free
    /\ itimers' = Append(itimers, [id |-> cur, tick |-> clock, age |-> 0])
    /\ timers' = [i \in DOMAIN timers \cup {cur} |->
                    IF i \in DOMAIN timers THEN timers[i] ELSE Request(asked[cur]).timer]
    /\ ppc' = "loop" /\ cur' = None
    /\ UNCHANGED <<clock, gates, input, asked, tick, timers_lock, server, nvars, answers>>

-----------------------------------------------------------------------------
(* The Procc thread: TestTimers *)

(* loop() found the queue empty.  TestTimers reads the tick count first and *)
(* takes the lock afterwards.                                              *)
LoopEnds ==
    /\ ppc = "loop" /\ input = <<>>
    /\ ppc' = IF itimers = <<>> THEN "rest" ELSE "lock"
    /\ tick' = IF itimers = <<>> THEN tick ELSE clock
    /\ UNCHANGED <<clock, gates, input, asked, cur, tvars, server, nvars, answers>>

LockTimers ==
    /\ ppc = "lock"
    /\ timers_lock = Free
    /\ timers_lock' = Procc
    /\ ppc' = "scan"
    /\ UNCHANGED <<clock, gates, input, asked, cur, tick, itimers, timers, server, nvars, answers>>

(* Mutant: the operands of the difference swapped. *)
Expired_Swapped(t) == (t.tick - tick) % TickMod >= TIMEOUT

(* tick - t.tick in unsigned 32-bit arithmetic, against 15000. *)
Expired(t) == (tick - t.tick) % TickMod >= TIMEOUT

Erase(id) == timers' = [i \in DOMAIN timers \ {id} |-> timers[i]]

(* Mutant: the timeout is answered without a look at the map. *)
ExpireFirst_Unmapped ==
    /\ ppc = "scan" /\ itimers # <<>> /\ Expired(Head(itimers))
    /\ LET id == Head(itimers).id
       IN  Answer(id, asked[id], "Rsp", "timeout") /\ Erase(id)
    /\ itimers' = Tail(itimers)
    /\ UNCHANGED <<clock, gates, input, asked, pvars, timers_lock, server, nvars>>

(* One turn of the while loop: OnTimer answers if it has a case for the    *)
(* command, then the id leaves the map whether it answered or not.         *)
ExpireFirst ==
    /\ ppc = "scan" /\ itimers # <<>> /\ Expired(Head(itimers))
    /\ LET id == Head(itimers).id
       IN  IF id \in DOMAIN timers
           THEN /\ IF timers[id] \in Cases
                   THEN Answer(id, timers[id], "Rsp", "timeout")
                   ELSE UNCHANGED answers
                /\ Erase(id)
           ELSE UNCHANGED <<answers, timers>>
    /\ itimers' = Tail(itimers)
    /\ UNCHANGED <<clock, gates, input, asked, pvars, timers_lock, server, nvars>>

ScanEnds ==
    /\ ppc = "scan"
    /\ itimers # <<>> => ~Expired(Head(itimers))
    /\ timers_lock' = Free
    /\ ppc' = "rest"
    /\ tick' = 0
    /\ UNCHANGED <<clock, gates, input, asked, cur, itimers, timers, server, nvars, answers>>

(* The connection's turn and Sleep(10), then loop() again. *)
Rest ==
    /\ ppc = "rest"
    /\ ppc' = "loop"
    /\ UNCHANGED <<clock, gates, input, asked, cur, tick, tvars, server, nvars, answers>>

-----------------------------------------------------------------------------
(* The network thread: BinStream *)

(* The switch: the handler gives its object, if it has one, to SendResp.   *)
(* Neither the timers nor the request the id belongs to are looked at.     *)
Deliver(id, wire, why) ==
    /\ npc = "idle"
    /\ npc' = "erase" /\ nid' = id
    /\ IF id \in Ids /\ Dispatch(wire).kind \in {"Rsp", "Ind"}
       THEN Answer(id, Dispatch(wire).class, Dispatch(wire).kind, why)
       ELSE UNCHANGED answers
    /\ overheard' = IF why = "reply" /\ Dispatch(wire).kind = "Rsp"
                    THEN overheard ELSE overheard \cup (Ids \cap {id})
    /\ UNCHANGED <<clock, gates, input, asked, pvars, tvars, overtaken>>

(* The server answers command_req with command_rsp, once. *)
DeliverReply ==
    \E m \in server :
        /\ m[2][3] = "req"
        /\ server' = server \ {m}
        /\ Deliver(m[1], <<m[2][1], m[2][2], "rsp">>, "reply")
        /\ UNCHANGED unasked

DeliverUnasked ==
    \E m \in Unasked :
        /\ unasked < MaxUnasked
        /\ unasked' = unasked + 1
        /\ Deliver(m[1], m[2], "unasked")
        /\ UNCHANGED server

(* Mutant: no erase. *)
EraseTimer_Skipped ==
    /\ npc = "erase"
    /\ timers_lock = Free
    /\ npc' = "idle" /\ nid' = None
    /\ UNCHANGED <<clock, gates, input, asked, pvars, tvars, server,
                   unasked, overheard, overtaken, answers>>

(* The tail of BinStream: the timer of the message's id goes, whatever the *)
(* message was.                                                            *)
EraseTimer ==
    /\ npc = "erase"
    /\ timers_lock = Free
    /\ Erase(nid)
    /\ npc' = "idle" /\ nid' = None
    /\ overtaken' = IF cur = nid THEN overtaken \cup {nid} ELSE overtaken
    /\ UNCHANGED <<clock, gates, input, asked, pvars, itimers, timers_lock, server,
                   unasked, overheard, answers>>

-----------------------------------------------------------------------------
ProccStep ==
    \/ Take \/ GateShut \/ GateOpen \/ SendFails \/ SendOk \/ StartTimer
    \/ LoopEnds \/ LockTimers \/ ExpireFirst \/ ScanEnds \/ Rest

Next ==
    \/ \E id \in Ids, name \in Names : send(id, name)
    \/ ConnectionChanges
    \/ Tick
    \/ ProccStep
    \/ DeliverReply \/ DeliverUnasked \/ EraseTimer

Spec == Init /\ [][Next]_vars

(* The two threads are scheduled and time passes; the application, the     *)
(* connection and the server need never do anything again.  The network    *)
(* thread takes timers_lock once per message, so it cannot shut Procc out. *)
FairSpec == Spec /\ WF_vars(ProccStep) /\ WF_vars(EraseTimer) /\ WF_vars(Tick)

-----------------------------------------------------------------------------
Whys == {"fail", "reply", "timeout", "unasked"}

(* Type invariant. *)
TypeOK ==
    /\ clock \in 0..TickMod - 1 /\ tick \in 0..TickMod - 1
    /\ gates \in SUBSET Gates
    /\ input \in Seq(Ids) /\ asked \in [Ids -> Names \cup {None}]
    /\ ppc \in ProccPC /\ cur \in Ids \cup {None}
    /\ itimers \in Seq([id : Ids, tick : 0..TickMod - 1, age : 0..MaxStall])
    /\ DOMAIN timers \subseteq Ids
    /\ timers_lock \in {Free, Procc}
    /\ npc \in {"idle", "erase"}
    /\ unasked \in 0..MaxUnasked
    /\ overheard \subseteq Ids /\ overtaken \subseteq Ids
    /\ DOMAIN answers = Ids

Count(id, why) == {k \in DOMAIN answers[id] : answers[id][k].why = why}

HasAnswer(id, why) == Count(id, why) # {}

InHand(id) == cur = id \/ \E k \in DOMAIN input : input[k] = id

(* What the request handlers, BinStream's switch and OnTimer answer agree: *)
(* every answer to X_Req is an X_Rsp.                                      *)
AnswerMatchesRequest ==
    \A id \in Ids : \A k \in DOMAIN answers[id] :
        answers[id][k].why # "unasked" =>
            answers[id][k].class = asked[id] /\ answers[id][k].kind = "Rsp"

(* A request that is out of Procc's hands and still unanswered has both    *)
(* halves of a timer: its command in the map and an entry in the queue.    *)
(* Only a message with its id that is no answer to it can take that away.  *)
PendingIsTimed ==
    \A id \in Ids :
        (/\ asked[id] # None /\ ~InHand(id) /\ answers[id] = <<>>
         /\ Request(asked[id]).timer \in Cases /\ id \notin overheard)
        => /\ id \in DOMAIN timers
           /\ \E k \in DOMAIN itimers : itimers[k].id = id

(* A refusal is the only answer there will be.  Otherwise a request gets   *)
(* at most one reply and at most one timeout.  It may still get both: a    *)
(* timer armed for a request that has its reply has one of two causes.     *)
(* BinStream is between its switch and its erase, or it was through before *)
(* StartTimer armed the timer.                                             *)
TwiceOnlyByRace ==
    /\ \A id \in Ids :
          /\ \A why \in Whys \ {"unasked"} : \A j, k \in Count(id, why) : j = k
          /\ HasAnswer(id, "fail") => ~HasAnswer(id, "reply") /\ ~HasAnswer(id, "timeout")
    /\ \A id \in DOMAIN timers :
          HasAnswer(id, "reply") => (npc = "erase" /\ nid = id) \/ id \in overtaken

(* Nothing follows a reply whose timer is erased. *)
Settled(id) == HasAnswer(id, "reply") /\ ~InHand(id) /\ id \notin DOMAIN timers

(* A request whose reply came and whose timer is erased gets no other      *)
(* reply, refusal or timeout, however long its entry stays in itimers.     *)
SettledForGood ==
    [][\A id \in Ids : Settled(id) =>
          /\ Settled(id)'
          /\ \A why \in Whys \ {"unasked"} : Count(id, why)' = Count(id, why)]_vars

(* TestTimers answers for the server only when the full 15 s have passed   *)
(* since StartTimer, across the wrap of the tick count too.                *)
NoEarlyTimeout ==
    [][\A id \in Ids : Count(id, "timeout")' # Count(id, "timeout") =>
          Head(itimers).id = id /\ Head(itimers).age >= TIMEOUT]_vars

(* The scan may stop at the first entry that is not due: it leaves none    *)
(* that was due when it read the tick count.                               *)
ScanIsComplete ==
    [][timers_lock = Procc /\ timers_lock' = Free =>
          \A k \in DOMAIN itimers : ~Expired(itimers[k])]_vars

(* A request is answered, by the server, a refusal or a timeout, whatever  *)
(* the connection and the server do.  The exceptions are Ping and TestMsg, *)
(* for which OnTimer has no case, and an id that was overheard.            *)
EventuallyAnswered ==
    \A id \in Ids :
        (asked[id] # None /\ asked[id] \notin {"Ping", "TestMsg"}
                         /\ Request(asked[id]).timer # None)
        ~> (answers[id] # <<>> \/ id \in overheard)

=============================================================================
