----------------------------- MODULE Connection -----------------------------
(***************************************************************************)
(* The connection of Client::Impl: how the Procc thread drives constate    *)
(* from start to online, how the callbacks of the network thread           *)
(* (OnConnect, OnDisconnect, StrStream, BinStream) move it, and what the   *)
(* requests Online, Offline, Logout and RegistrationRequired_Cnf do to it. *)
(*                                                                         *)
(* on, constate and code are plain variables that both threads read and    *)
(* write with no lock.  So every handler that reads one and then writes is *)
(* two steps, and the other thread's steps may come between.  Procc keeps  *)
(* what it read in pstate, the network thread in nstate and non.           *)
(***************************************************************************)
EXTENDS Integers, Sequences

CONSTANTS
    MaxCmds,        \* bound: requests of the application
    MaxTroubles     \* bound: connections lost, commands and sends refused by the host's
                    \* callbacks, answers of the server that are not the good one, and
                    \* 10 s timeouts while an answer is still coming, all together

ASSUME ConnectionAssumption == MaxCmds \in Nat /\ MaxTroubles \in Nat

VARIABLES
    on, constate, code, number,     \* of Client::Impl: code and number are not empty
    input,                          \* input_queue_
    ppc, pstate,                    \* Procc: where it is, the state it read
    npc, event, nstate, non,        \* network thread: where, its event, what it read
    sock, up, inbox,                \* host: the socket, what was sent, what arrived
    session,                        \* server: what it knows of this connection
    status, owes, given, blank,     \* application: last ConnectStatus; it was asked for
                                    \* a code; its code has been taken and not yet sent;
                                    \* what it last answered with is an empty one
    late,                           \* a thread has acted on a view that was out of date
    cmds, troubles                  \* what is left of each bound

client == <<on, constate, code, number>>
procc  == <<ppc, pstate>>
net    == <<npc, event, nstate, non>>
host   == <<sock, up, inbox, session>>
app    == <<status, owes, given, blank>>
bounds == <<cmds, troubles>>
vars   == <<client, input, procc, net, host, app, late, bounds>>

Waits == {"wait_connect", "wait_open", "wait_reg", "wait_reg_newreg", "wait_reg_auth"}

PConnectState == Waits \cup
    {"offline", "start", "connect", "open", "need_req", "need_auth",
     "wait_disconnect", "online"}

(* What Procc writes before it acts, and what it asks of the host. *)
WaitFor == [start |-> "wait_connect", connect |-> "wait_open", open |-> "wait_reg",
            need_req |-> "wait_reg_newreg", need_auth |-> "wait_reg_auth"]

(* The message each Gen function hands to the host. *)
GenOpen           == "open"
GenRegister       == "init"
GenRegisterNewReg == "newreg"
GenRegisterAuth   == "auth"

Message == [connect  |-> GenOpen,           open      |-> GenRegister,
            need_req |-> GenRegisterNewReg, need_auth |-> GenRegisterAuth]

(* What it writes when the host refuses.  GenRegister's result is ignored. *)
Fallback == [start |-> "start", connect |-> "connect", need_req |-> "open", need_auth |-> "open"]

(* Mutant: only a wait for the socket or for Open times out. *)
TimeoutTo_Unregistered(s) == CASE s = "wait_connect" -> "start"
                               [] s = "wait_open"    -> "connect"
                               [] OTHER              -> s

(* What it writes when 10 s have passed in a waiting state. *)
TimeoutTo(s) == CASE s = "wait_connect" -> "start"
                  [] s = "wait_open"    -> "connect"
                  [] OTHER              -> "open"

(* Events reach the network thread in order.  old marks those of a         *)
(* connection that a later sock_command(connect) has replaced.             *)
Arrives(e) == inbox' = Append(inbox, [what |-> e, old |-> FALSE])

NoEvent == [what |-> "none", old |-> FALSE]

Init ==
    /\ on = FALSE /\ constate = "offline" /\ code = FALSE /\ number = FALSE
    /\ input = <<>>
    /\ ppc = "loop" /\ pstate = "offline"
    /\ npc = "idle" /\ event = NoEvent /\ nstate = "offline" /\ non = FALSE
    /\ sock = "closed" /\ up = <<>> /\ inbox = <<>> /\ session = "none"
    /\ status = "offline" /\ owes = FALSE /\ given = FALSE /\ blank = FALSE
    /\ late = FALSE
    /\ cmds = MaxCmds /\ troubles = MaxTroubles

Trouble == troubles > 0 /\ troubles' = troubles - 1

(* The socket goes away and the host will call OnDisconnect. *)
Closed == sock' = "closed" /\ up' = <<>> /\ session' = "none" /\ Arrives("disconnect")

(* sock_command(disconnect): no callback follows for a closed socket; the  *)
(* host may also refuse and leave the socket as it is.                     *)
Disconnect ==
    \/ sock # "closed" /\ Closed /\ UNCHANGED troubles
    \/ sock = "closed" /\ UNCHANGED <<host, troubles>>
    \/ Trouble /\ UNCHANGED host

-----------------------------------------------------------------------------
(* The application *)

Cmds == {"info", "info_code", "online", "offline", "logout"}

send(cmd) ==
    /\ cmds > 0 /\ cmds' = cmds - 1
    /\ input' = Append(input, cmd)
    /\ UNCHANGED <<client, procc, net, host, app, late, troubles>>

(* It answers RegistrationRequired_Ind with a code. *)
Confirm ==
    /\ owes
    /\ owes' = FALSE
    /\ input' = Append(input, "cnf")
    /\ UNCHANGED <<client, procc, net, host, status, given, blank, late, bounds>>

-----------------------------------------------------------------------------
(* Procc: loop() and the requests about the connection *)

Taken(cmd) == ppc = "loop" /\ input # <<>> /\ Head(input) = cmd /\ input' = Tail(input)

(* Sets the subscriber's number, which may be empty, and the code if the   *)
(* request brings one.                                                     *)
OnSetSubcriberInfo ==
    /\ \/ Taken("info") /\ UNCHANGED code
       \/ Taken("info_code") /\ code' = TRUE
    /\ number' \in BOOLEAN
    /\ UNCHANGED <<on, constate, procc, net, host, app, late, bounds>>

(* Procc goes on to what with the state it has read, or back to loop(). *)
ReadsFor(what, states) ==
    IF constate \in states THEN ppc' = what /\ pstate' = constate
                           ELSE ppc' = "loop" /\ pstate' = "offline"

(* Heeded only when offline or disconnecting, and not without a number; in *)
(* every other state it is dropped without an answer.                      *)
OnRequest_Online ==
    /\ Taken("online")
    /\ ReadsFor("online", IF number THEN {"offline", "wait_disconnect"} ELSE {})
    /\ UNCHANGED <<client, net, host, app, late, bounds>>

(* Procc writes over a state it has not seen. *)
StaleProcc == late' = (late \/ constate # pstate)

OnlineEnds ==
    /\ ppc = "online"
    /\ on' = TRUE /\ constate' = "start"
    /\ status' = "connecting"
    /\ StaleProcc
    /\ ppc' = "loop" /\ pstate' = "offline"
    /\ UNCHANGED <<code, number, input, net, host, owes, given, blank, bounds>>

OnRequest_Offline ==
    /\ Taken("offline")
    /\ on' = FALSE
    /\ pstate' = constate
    /\ ppc' = "offline"
    /\ UNCHANGED <<constate, code, number, net, host, app, late, bounds>>

(* The rest of OnRequest_Offline, with the state it read: it writes ...    *)
OfflineEnds ==
    /\ ppc = "offline"
    /\ IF pstate = "offline"
       THEN ppc' = "loop" /\ UNCHANGED <<constate, late>>
       ELSE ppc' = "drop" /\ constate' = "wait_disconnect" /\ StaleProcc
    /\ pstate' = "offline"
    /\ UNCHANGED <<on, code, number, input, net, host, app, bounds>>

(* ... and then has the host close the socket. *)
ProccDrops ==
    /\ ppc = "drop"
    /\ Disconnect
    /\ ppc' = "loop"
    /\ UNCHANGED <<client, input, pstate, net, app, late, cmds>>

(* The application's answer to the question for a code may be empty. *)
OnRegistrationRequired_Cnf ==
    /\ Taken("cnf")
    /\ code' \in BOOLEAN
    /\ given' = code' /\ blank' = ~code'
    /\ UNCHANGED <<on, constate, number, procc, net, host, status, owes, late, bounds>>

(* OnLogout_Req and OnLogoutAll_Req: not sent unless online, nor if the    *)
(* host refuses; the reply comes on the network thread.                    *)
OnLogout_Req ==
    /\ Taken("logout")
    /\ \/ constate = "online" /\ sock = "open" /\ up' = Append(up, "logout")
       \/ UNCHANGED up
    /\ UNCHANGED <<client, procc, net, sock, inbox, session, app, late, bounds>>

-----------------------------------------------------------------------------
(* Procc: its turn at the connection *)

TurnBegins ==
    /\ ppc = "loop" /\ input = <<>> /\ on
    /\ ppc' = "state"
    /\ UNCHANGED <<client, input, pstate, net, host, app, late, bounds>>

(* Sleep(10) and nothing to do. *)
Rest ==
    /\ ppc = "loop" /\ input = <<>> /\ ~on
    /\ UNCHANGED vars

ReadState ==
    /\ ppc = "state"
    /\ ReadsFor("act", Waits \cup DOMAIN WaitFor)
    /\ UNCHANGED <<client, input, net, host, app, late, bounds>>

NoCode ==
    /\ ppc = "act" /\ pstate = "need_req" /\ ~code
    /\ ppc' = "loop" /\ pstate' = "offline"
    /\ UNCHANGED <<client, input, net, host, app, late, bounds>>

WriteWait ==
    /\ ppc = "act" /\ pstate \in DOMAIN WaitFor
    /\ pstate = "need_req" => code
    /\ constate' = WaitFor[pstate]
    /\ StaleProcc
    /\ ppc' = "call"
    /\ UNCHANGED <<on, code, number, input, pstate, net, host, app, bounds>>

CallDone(next) == ppc' = next /\ pstate' = IF next = "loop" THEN "offline" ELSE pstate

(* sock_command(connect): a fresh connection, whatever the socket was. *)
CallConnect ==
    /\ ppc = "call" /\ pstate = "start"
    /\ sock' = "connecting" /\ up' = <<>> /\ session' = "none"
    /\ inbox' = [k \in DOMAIN inbox |-> [inbox[k] EXCEPT !.old = TRUE]]
    /\ event' = [event EXCEPT !.old = event # NoEvent]
    /\ CallDone("loop")
    /\ UNCHANGED <<client, input, npc, nstate, non, app, late, bounds>>

(* GenOpen, GenRegister, GenRegisterNewReg, GenRegisterAuth: sent, or said *)
(* to be sent on a socket that is gone.  The code is used up by sending it. *)
CallSend ==
    /\ ppc = "call" /\ pstate \in DOMAIN Message
    /\ up' = IF sock = "open" THEN Append(up, Message[pstate]) ELSE up
    /\ code' = IF pstate = "need_req" THEN FALSE ELSE code
    /\ given' = IF pstate = "need_req" THEN FALSE ELSE given
    /\ CallDone("loop")
    /\ UNCHANGED <<on, constate, number, input, net, sock, inbox, session,
                   status, owes, blank, late, bounds>>

(* Mutant: the code is cleared before it is sent. *)
CallFails_CodeGone ==
    /\ ppc = "call"
    /\ IF sock = "open" \/ pstate = "start" THEN Trouble ELSE UNCHANGED troubles
    /\ CallDone(IF pstate = "open" THEN "loop" ELSE "fallback")
    /\ code' = IF pstate = "need_req" THEN FALSE ELSE code
    /\ UNCHANGED <<on, constate, number, input, net, host, app, late, cmds>>

CallFails ==
    /\ ppc = "call"
    /\ IF sock = "open" \/ pstate = "start" THEN Trouble ELSE UNCHANGED troubles
    /\ CallDone(IF pstate = "open" THEN "loop" ELSE "fallback")
    /\ UNCHANGED <<client, input, net, host, app, late, cmds>>

WriteFallback ==
    /\ ppc = "fallback"
    /\ constate' = Fallback[pstate]
    /\ late' = (late \/ constate # WaitFor[pstate])
    /\ CallDone("loop")
    /\ UNCHANGED <<on, code, number, input, net, host, app, bounds>>

(* Nothing is under way between the client and the server. *)
Quiet == up = <<>> /\ inbox = <<>> /\ npc = "idle" /\ sock # "connecting"

WaitMore ==
    /\ ppc = "act" /\ pstate \in Waits
    /\ ~(Quiet /\ constate = pstate)
    /\ ppc' = "loop" /\ pstate' = "offline"
    /\ UNCHANGED <<client, input, net, host, app, late, bounds>>

(* The 10 s are over: for want of an answer, or (a trouble) while it is    *)
(* still coming or just when it has come.                                  *)
StateTimeout ==
    /\ ppc = "act" /\ pstate \in Waits
    /\ IF Quiet /\ constate = pstate THEN UNCHANGED troubles ELSE Trouble
    /\ constate' = TimeoutTo(pstate)
    /\ StaleProcc
    /\ ppc' = "loop" /\ pstate' = "offline"
    /\ UNCHANGED <<on, code, number, input, net, host, app, cmds>>

-----------------------------------------------------------------------------
(* The network thread: each callback reads, then writes *)

NetTakes ==
    /\ npc = "idle" /\ inbox # <<>>
    /\ event' = Head(inbox) /\ inbox' = Tail(inbox)
    /\ nstate' = constate
    /\ on' = IF Head(inbox).what = "logout_ok" THEN FALSE ELSE on
    /\ non' = on'
    /\ npc' = "write"
    /\ UNCHANGED <<constate, code, number, input, procc, sock, up, session,
                   app, late, bounds>>

(* What each callback makes of the state it read. *)
OnConnect == IF nstate = "wait_connect" THEN "connect" ELSE constate

(* Mutant: OnDisconnect does not look at on. *)
OnDisconnect_Blind == "offline"

(* Mutant: OnDisconnect starts again only what is not online. *)
OnDisconnect_Lingers ==
    CASE nstate = "online" -> constate [] non -> "start" [] OTHER -> "offline"

OnDisconnect == IF non THEN "start" ELSE "offline"

StrStream(good) == IF nstate = "wait_open" THEN (IF good THEN "open" ELSE "connect") ELSE constate

(* The refusals that OnRegister, OnRegisterAuth and OnRegisterReg know are *)
(* written without a look at the state.                                    *)
OnRegister(rsp) == CASE rsp = "unauthorized" -> "need_auth"
                     [] rsp = "not_found"    -> "need_req"
                     [] rsp = "error"        -> "open"

OnRegisterAuth == IF nstate = "wait_reg_auth" THEN "online" ELSE "open"
OnRegisterReg  == IF nstate = "wait_reg_newreg" THEN "online" ELSE "open"
OnLogoutRsp    == IF nstate = "offline" THEN constate ELSE "wait_disconnect"

NetState ==
    CASE event.what = "connect"    -> OnConnect
      [] event.what = "disconnect" -> OnDisconnect
      [] event.what \in {"open_ok", "open_bad"} -> StrStream(event.what = "open_ok")
      [] event.what \in {"unauthorized", "not_found", "error"} -> OnRegister(event.what)
      [] event.what = "auth_ok"    -> OnRegisterAuth
      [] event.what = "newreg_ok"  -> OnRegisterReg
      [] event.what = "logout_ok"  -> OnLogoutRsp

(* Mutant: OnDisconnect says nothing when it is to connect again. *)
DisconnectStatus_Silent == IF non THEN "none" ELSE "offline"

DisconnectStatus == IF non THEN "connecting" ELSE "offline"

(* The ConnectStatus the callback then reports, if any. *)
NetStatus ==
    CASE event.what = "disconnect" -> DisconnectStatus
      [] event.what = "open_ok" /\ nstate = "wait_open"  -> "registration"
      [] event.what = "open_bad" /\ nstate = "wait_open" -> "connecting"
      [] event.what \in {"unauthorized", "not_found", "error"} -> "registration"
      [] event.what = "auth_ok" /\ nstate = "wait_reg_auth" -> "online"
      [] event.what = "newreg_ok" /\ nstate = "wait_reg_newreg" -> "online"
      [] OTHER -> "none"

(* The states in which each answer is awaited; most are taken in any.      *)
Awaited ==
    [open_ok   |-> {"wait_open"},       open_bad     |-> {"wait_open"},
     auth_ok   |-> {"wait_reg_auth"},   unauthorized |-> {"wait_reg"},
     newreg_ok |-> {"wait_reg_newreg"},
     not_found |-> {"wait_reg", "wait_reg_auth", "wait_reg_newreg"},
     error     |-> {"wait_reg", "wait_reg_auth", "wait_reg_newreg"}]

(* An answer nobody waits for any more, or a view that is out of date.     *)
(* OnDisconnect goes by on alone; the on that a logout has cleared may     *)
(* have been set again, in a state that looks like the one it read.        *)
LateAnswer == event.what \in DOMAIN Awaited
              /\ (constate \notin Awaited[event.what] \/ ~on \/ event.old)
StaleNet == NetState # constate
            /\ \/ event.what \in {"disconnect", "logout_ok"} /\ non # on
               \/ event.what # "disconnect" /\ nstate # constate

NetDone == event' = NoEvent /\ nstate' = "offline" /\ non' = FALSE

(* Logout_Rsp runs OnRequest_Offline, as Procc does for Offline_Req. *)
NetWrites ==
    /\ npc = "write"
    /\ constate' = NetState
    /\ late' = (late \/ LateAnswer \/ StaleNet)
    /\ npc' = IF NetStatus # "none" THEN "report"
              ELSE IF event.what = "logout_ok" /\ nstate # "offline" THEN "drop" ELSE "idle"
    /\ IF npc' = "report" THEN UNCHANGED <<event, nstate, non>> ELSE NetDone
    /\ UNCHANGED <<on, code, number, input, procc, host, app, bounds>>

NetDrops ==
    /\ npc = "drop"
    /\ Disconnect
    /\ npc' = "idle"
    /\ UNCHANGED <<client, input, procc, event, nstate, non, app, late, cmds>>

(* Mutant: not_found moves the client and asks nobody for a code. *)
NetReports_NoQuestion ==
    /\ npc = "report"
    /\ status' = NetStatus
    /\ late' = (late \/ constate # NetState)
    /\ npc' = "idle"
    /\ NetDone
    /\ UNCHANGED <<client, input, procc, host, owes, given, blank, bounds>>

(* SetConnectStatus: what the client has just become, if Procc has not     *)
(* moved it on since.                                                      *)
NetReports ==
    /\ npc = "report"
    /\ status' = NetStatus
    /\ late' = (late \/ constate # NetState)
    /\ npc' = IF event.what = "not_found" THEN "clear" ELSE "idle"
    /\ NetDone
    /\ UNCHANGED <<client, input, procc, host, owes, given, blank, bounds>>

(* Send_RegistrationRequired_Ind: the code goes first, then the question. *)
ClearCode ==
    /\ npc = "clear"
    /\ code' = FALSE
    /\ npc' = "ask"
    /\ UNCHANGED <<on, constate, number, input, procc, event, nstate, non,
                   host, app, late, bounds>>

AskCode ==
    /\ npc = "ask"
    /\ owes' = TRUE /\ given' = FALSE /\ blank' = FALSE
    /\ npc' = "idle"
    /\ UNCHANGED <<client, input, procc, event, nstate, non, host, status, late, bounds>>

-----------------------------------------------------------------------------
(* The socket and the server *)

SockOpens ==
    /\ sock = "connecting"
    /\ sock' = "open"
    /\ Arrives("connect")
    /\ UNCHANGED <<client, input, procc, net, up, session, app, late, bounds>>

SockDrops ==
    /\ sock # "closed"
    /\ Trouble
    /\ Closed
    /\ UNCHANGED <<client, input, procc, net, app, late, cmds>>

(* Good answers, and the others the client knows.  Before Open the server  *)
(* takes nothing else.                                                     *)
Good == [open |-> {"open_ok"}, init |-> {"unauthorized", "not_found"}, auth |-> {"auth_ok"},
         newreg |-> {"newreg_ok"}, logout |-> {"logout_ok"}]
Bad  == [open |-> {"open_bad"}, init |-> {"error"}, auth |-> {"not_found", "error"},
         newreg |-> {"not_found", "error"}, logout |-> {}]

ServerAnswers ==
    /\ sock = "open" /\ up # <<>>
    /\ up' = Tail(up)
    /\ LET m == Head(up)
       IN  \/ /\ m # "open" /\ session = "none"
              /\ UNCHANGED <<inbox, session, troubles>>
           \/ /\ m = "open" \/ session # "none"
              /\ \/ \E e \in Good[m] :
                      /\ Arrives(e)
                      /\ session' = CASE m = "open" -> "opened"
                                      [] m \in {"auth", "newreg"} -> "registered"
                                      [] OTHER -> session
                      /\ UNCHANGED troubles
                 \/ \E e \in Bad[m] : Arrives(e) /\ Trouble /\ UNCHANGED session
    /\ UNCHANGED <<client, input, procc, net, sock, app, late, cmds>>

-----------------------------------------------------------------------------
ProccStep ==
    \/ OnSetSubcriberInfo \/ OnRequest_Online \/ OnlineEnds \/ OnRequest_Offline \/ OfflineEnds
    \/ ProccDrops \/ OnRegistrationRequired_Cnf \/ OnLogout_Req
    \/ TurnBegins \/ Rest \/ ReadState \/ NoCode \/ WriteWait
    \/ CallConnect \/ CallSend \/ CallFails \/ WriteFallback
    \/ WaitMore \/ StateTimeout

NetStep == NetTakes \/ NetWrites \/ NetDrops \/ NetReports \/ ClearCode \/ AskCode

HostStep == SockOpens \/ ServerAnswers

Next ==
    \/ \E cmd \in Cmds : send(cmd)
    \/ Confirm
    \/ ProccStep \/ NetStep \/ HostStep \/ SockDrops

Spec == Init /\ [][Next]_vars

(* Both threads are scheduled; a connection attempt ends, and the server   *)
(* answers what reaches it.  The application need do nothing.              *)
FairSpec == Spec /\ WF_vars(ProccStep) /\ WF_vars(NetStep) /\ WF_vars(HostStep)

-----------------------------------------------------------------------------
(* Type invariant. *)
TypeOK ==
    /\ on \in BOOLEAN /\ code \in BOOLEAN /\ number \in BOOLEAN
    /\ constate \in PConnectState /\ pstate \in PConnectState /\ nstate \in PConnectState
    /\ ppc \in {"loop", "online", "offline", "drop", "state", "act", "call", "fallback"}
    /\ npc \in {"idle", "write", "drop", "report", "clear", "ask"} /\ non \in BOOLEAN
    /\ sock \in {"closed", "connecting", "open"}
    /\ session \in {"none", "opened", "registered"}
    /\ status \in {"offline", "connecting", "registration", "online"}
    /\ owes \in BOOLEAN /\ given \in BOOLEAN /\ blank \in BOOLEAN
    /\ late \in BOOLEAN

(* A client that is online was accepted by the server on the connection it *)
(* has, or the loss of that connection is on its way to OnDisconnect.      *)
OnlineIsRegistered ==
    constate = "online" =>
        \/ session = "registered"
        \/ event.what = "disconnect" \/ \E k \in DOMAIN inbox : inbox[k].what = "disconnect"
        \/ late

(* The code the application gave in answer to the latest question is there *)
(* until it is sent: Send_RegistrationRequired_Ind clears before it asks.  *)
CodeKept == given /\ npc # "ask" => code

(* In need_req without a code somebody has been asked for one: the client  *)
(* waits for the application and not for nothing.  An application that has *)
(* answered with an empty code is not asked again.                         *)
NeedReqIsAsked ==
    constate = "need_req" /\ ~code /\ npc = "idle" =>
        owes \/ blank \/ \E k \in DOMAIN input : input[k] = "cnf"

(* Nobody will move the client on: it is meant to be online and sits in a  *)
(* state whose next step needs a connection, or an opened one, that is not *)
(* there; or it is meant to be offline and Online_Req would be dropped.    *)
Stuck ==
    /\ Quiet /\ ppc = "loop" /\ input = <<>>
    /\ IF on
       THEN \/ constate \in {"offline", "wait_disconnect"}
            \/ constate \in {"connect", "wait_open"} /\ sock # "open"
            \/ /\ constate \in {"open", "need_req", "need_auth", "wait_reg",
                                "wait_reg_newreg", "wait_reg_auth"}
               /\ session = "none"
       ELSE constate \notin {"offline", "wait_disconnect"}

(* The application is told "online" when and only while the client is, up  *)
(* to the disconnecting that Offline_Req and Logout_Rsp begin.             *)
StatusAgrees ==
    npc # "report" /\ ~late =>
        /\ constate = "online" => status = "online"
        /\ status = "online" => constate \in {"online", "wait_disconnect"}

(* The client gets stuck only when a thread wrote constate on a view of it *)
(* that had changed, or the registrar's answer came to a client that was   *)
(* not waiting for it: with neither, on and constate agree.                *)
StuckOnlyByRace == Stuck => late

(* A client told to go online gets there, whatever is lost or refused on   *)
(* the way, unless it is told off again or it is the application's turn.   *)
(* Not so once a thread has acted on an outdated view: an answer that      *)
(* comes after its 10 s leaves two registrations under way, whose answers  *)
(* can undo each other for ever.                                           *)
GoesOnline ==
    on ~> \/ constate = "online" \/ ~on
          \/ constate = "need_req" /\ (owes \/ blank)
          \/ late

=============================================================================
