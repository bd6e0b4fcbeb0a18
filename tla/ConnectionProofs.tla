-------------------------- MODULE ConnectionProofs --------------------------
(***************************************************************************)
(* What holds of Connection for any number of requests and troubles.       *)
(***************************************************************************)
EXTENDS Connection, SequenceTheorems, TLAPS

Events == {"connect", "disconnect", "open_ok", "open_bad", "unauthorized", "not_found",
           "error", "auth_ok", "newreg_ok", "logout_ok"}
Event == [what : Events, old : BOOLEAN]
Messages == {"open", "init", "newreg", "auth", "logout"}

Flags ==
    /\ on \in BOOLEAN /\ code \in BOOLEAN /\ number \in BOOLEAN /\ non \in BOOLEAN
    /\ owes \in BOOLEAN /\ given \in BOOLEAN /\ blank \in BOOLEAN /\ late \in BOOLEAN

Places ==
    /\ constate \in PConnectState /\ pstate \in PConnectState /\ nstate \in PConnectState
    /\ ppc \in {"loop", "online", "offline", "drop", "state", "act", "call", "fallback"}
    /\ npc \in {"idle", "write", "drop", "report", "clear", "ask"}
    /\ sock \in {"closed", "connecting", "open"}
    /\ session \in {"none", "opened", "registered"}
    /\ status \in {"offline", "connecting", "registration", "online"}

(* The types of everything, and what each thread's place says of its own   *)
(* variables.                                                              *)
Typed ==
    /\ Flags /\ Places
    /\ input \in Seq(Cmds \cup {"cnf"}) /\ up \in Seq(Messages) /\ inbox \in Seq(Event)
    /\ event \in Event \cup {NoEvent}
    /\ npc \in {"write", "report"} => event \in Event
    /\ npc = "report" => NetStatus # "none"
    /\ ppc = "call" => pstate \in DOMAIN WaitFor
    /\ ppc = "fallback" => pstate \in DOMAIN Fallback
    /\ ppc = "offline" => ~on

Confirmed == \E k \in DOMAIN input : input[k] = "cnf"

(* The network thread is on its way to ask the application for a code. *)
Asking == npc \in {"clear", "ask"} \/ (npc = "report" /\ event.what = "not_found")

(* The code is not there, or is about to be used up.  A client that needs  *)
(* one has asked, is asking, has the answer in its queue, or has been      *)
(* answered with an empty code.                                            *)
Asked == constate = "need_req" /\ (~code \/ (ppc = "call" /\ pstate = "need_req"))
         => owes \/ blank \/ Confirmed \/ Asking

Linking == {"wait_connect", "connect", "wait_open"}
Registering == {"open", "need_req", "need_auth", "wait_reg", "wait_reg_newreg", "wait_reg_auth",
                "online"}

(* Procc is between writing wait_connect and what comes of it. *)
Dialling == ppc \in {"call", "fallback"} /\ pstate = "start"

(* OnDisconnect is still to come, or to write. *)
LostAfter(k) == \E j \in DOMAIN inbox : j > k /\ inbox[j].what = "disconnect"
Lost == (npc = "write" /\ event.what = "disconnect") \/ LostAfter(0)

(* An answer of this connection is true of the server, or will have been   *)
(* followed by OnDisconnect.                                               *)
Vouched(e) ==
    ~e.old => /\ e.what = "open_ok" => session # "none"
              /\ e.what \in {"auth_ok", "newreg_ok"} => session = "registered"

Answered ==
    /\ \A k \in DOMAIN inbox : Vouched(inbox[k]) \/ LostAfter(k)
    /\ npc = "write" => Vouched(event) \/ LostAfter(0)

(* The server has seen no registration on this connection, nor will it of  *)
(* what is on its way.                                                     *)
Fresh == session # "registered" /\ \A k \in DOMAIN up : up[k] = "open"

(* Nothing undoes a registration but the loss of its connection: no Open   *)
(* follows anything else.                                                  *)
OpenFirst ==
    /\ session = "registered" => \A k \in DOMAIN up : up[k] # "open"
    /\ \A j, k \in DOMAIN up : j < k /\ up[k] = "open" => up[j] = "open"
    /\ ppc = "call" /\ pstate = "connect" => Fresh

(* What the state says of the socket and the server. *)
Linked ==
    /\ constate \in Linking => Dialling \/ (Fresh /\ (sock # "closed" \/ Lost))
    /\ constate \in Registering => session # "none" \/ Lost
    /\ constate = "online" => session = "registered" \/ Lost
    /\ Dialling => constate \notin Registering \cup {"wait_open"}
    /\ ppc = "call" /\ pstate \in {"open", "need_req", "need_auth"} => constate \notin Linking

(* on and constate agree, but for a thread that has cleared on and is yet  *)
(* to write constate.                                                      *)
Agree ==
    /\ on => constate \notin {"offline", "wait_disconnect"}
    /\ ~on => \/ constate \in {"offline", "wait_disconnect"}
              \/ ppc = "offline" /\ pstate # "offline"
              \/ npc = "write" /\ event.what = "logout_ok" /\ nstate # "offline"
    /\ npc = "write" /\ event.what = "logout_ok" => ~non

Calm == ~late => Answered /\ OpenFirst /\ Linked /\ Agree

-----------------------------------------------------------------------------
(* Sequences *)

(* A queue without its first element. *)
LEMMA TailFacts ==
    ASSUME NEW S, NEW s \in Seq(S), s # <<>>
    PROVE  /\ Tail(s) \in Seq(S) /\ Head(s) \in S /\ 1 \in DOMAIN s /\ Head(s) = s[1]
           /\ \A k \in DOMAIN s : k \in Nat /\ k >= 1
           /\ \A k \in DOMAIN Tail(s) : k \in Nat /\ k >= 1 /\ k + 1 \in DOMAIN s /\ Tail(s)[k] = s[k + 1]
           /\ \A k \in DOMAIN s : k = 1 \/ (k - 1 \in DOMAIN Tail(s) /\ Tail(s)[k - 1] = s[k])
<1>1. Len(s) \in Nat /\ Len(s) # 0 /\ DOMAIN s = 1 .. Len(s) /\ s \in [1 .. Len(s) -> S]
  BY EmptySeq, LenProperties
<1>2. Tail(s) \in Seq(S) /\ Head(s) \in S /\ Head(s) = s[1]
  BY <1>1, HeadTailProperties
<1>3. /\ DOMAIN Tail(s) = 1 .. Len(s) - 1
      /\ \A k \in 1 .. Len(s) - 1 : Tail(s)[k] = s[k + 1]
  BY <1>1, HeadTailProperties, LenProperties
<1> QED
  BY <1>1, <1>2, <1>3

(* A queue with one more element, which comes after all others. *)
LEMMA AppendFacts ==
    ASSUME NEW S, NEW s \in Seq(S), NEW e \in S
    PROVE  /\ Append(s, e) \in Seq(S)
           /\ DOMAIN Append(s, e) = DOMAIN s \cup {Len(s) + 1}
           /\ Len(s) \in Nat
           /\ \A k \in DOMAIN s : k \in Nat /\ k >= 1 /\ k < Len(s) + 1 /\ Append(s, e)[k] = s[k]
           /\ Append(s, e)[Len(s) + 1] = e
<1>1. Len(s) \in Nat /\ DOMAIN s = 1 .. Len(s)
  BY LenProperties
<1>2. /\ Append(s, e) \in Seq(S)
      /\ Len(Append(s, e)) = Len(s) + 1
      /\ \A k \in 1 .. Len(s) : Append(s, e)[k] = s[k]
      /\ Append(s, e)[Len(s) + 1] = e
  BY AppendProperties
<1>3. DOMAIN Append(s, e) = 1 .. Len(s) + 1
  BY <1>2, LenProperties
<1> QED
  BY <1>1, <1>2, <1>3

-----------------------------------------------------------------------------
(* Types *)

(* An event of the network arrives. *)
LEMMA ArrivesFacts ==
    ASSUME inbox \in Seq(Event), NEW e \in Events, Arrives(e)
    PROVE  /\ inbox' \in Seq(Event)
           /\ DOMAIN inbox' = DOMAIN inbox \cup {Len(inbox) + 1} /\ Len(inbox) \in Nat
           /\ \A k \in DOMAIN inbox : k \in Nat /\ k >= 1 /\ k < Len(inbox) + 1 /\ inbox'[k] = inbox[k]
           /\ inbox'[Len(inbox) + 1] = [what |-> e, old |-> FALSE]
<1>1. [what |-> e, old |-> FALSE] \in Event
  BY DEF Event
<1> QED
  BY <1>1, AppendFacts DEF Arrives

(* What becomes of the host when the client asks it to disconnect. *)
LEMMA DisconnectFacts ==
    ASSUME Typed, Disconnect
    PROVE  \/ /\ sock' = "closed" /\ up' = <<>> /\ session' = "none" /\ Arrives("disconnect")
              /\ inbox' \in Seq(Event)
           \/ UNCHANGED <<sock, up, inbox, session>>
  BY ArrivesFacts DEF Disconnect, Closed, host, Typed, Events

LEMMA NetFacts ==
    ASSUME Typed, npc \in {"write", "report"}
    PROVE  /\ NetState \in PConnectState
           /\ NetStatus \in {"none", "offline", "connecting", "registration", "online"}
<1>1. event.what \in Events /\ constate \in PConnectState
  BY DEF Typed, Places, Event
<1>2. NetState \in PConnectState
  BY <1>1 DEF NetState, OnConnect, OnDisconnect, StrStream, OnRegister, OnRegisterAuth, OnRegisterReg,
     OnLogoutRsp, Events, PConnectState, Waits
<1> QED
  BY <1>2 DEF NetStatus, DisconnectStatus

(* The steps that take a request from the queue. *)
LEMMA TakenFacts ==
    ASSUME Typed, NEW cmd, Taken(cmd)
    PROVE  /\ input' \in Seq(Cmds \cup {"cnf"}) /\ ppc = "loop"
           /\ cmd # "cnf" /\ Confirmed => Confirmed'
<1>1. input \in Seq(Cmds \cup {"cnf"}) /\ input # <<>> /\ input' = Tail(input) /\ Head(input) = cmd
  BY DEF Taken, Typed
<1>2. /\ input' \in Seq(Cmds \cup {"cnf"}) /\ Head(input) = input[1]
      /\ \A k \in DOMAIN input : k = 1 \/ (k - 1 \in DOMAIN input' /\ input'[k - 1] = input[k])
  BY <1>1, TailFacts
<1> QED
  BY <1>1, <1>2 DEF Taken, Confirmed

(* The Boolean variables. *)
LEMMA StepFlags ==
    ASSUME Flags, ppc = "offline" => ~on, [Next]_vars
    PROVE  Flags' /\ (ppc' = "offline" => ~on')
<1> USE DEF client, procc, net, host, app, bounds, Flags
<1>1. CASE UNCHANGED vars
  BY <1>1, Zenon DEF vars
<1>2. ASSUME NEW cmd \in Cmds, send(cmd) PROVE Flags' /\ (ppc' = "offline" => ~on')
  BY <1>2, Zenon DEF send
<1>3. CASE Confirm
  BY <1>3, Zenon DEF Confirm
<1>4. CASE OnSetSubcriberInfo
  BY <1>4, Zenon DEF OnSetSubcriberInfo
<1>5. CASE OnRequest_Online
  <2>1. ppc' # "offline" /\ UNCHANGED <<client, net, app, late>>
    BY <1>5 DEF OnRequest_Online, ReadsFor
  <2> QED
    BY <2>1, Zenon
<1>6. CASE OnRequest_Offline
  BY <1>6, Zenon DEF OnRequest_Offline
<1>7. CASE OnRegistrationRequired_Cnf
  BY <1>7, Zenon DEF OnRegistrationRequired_Cnf, Taken
<1>8. CASE OnLogout_Req
  BY <1>8, Zenon DEF OnLogout_Req, Taken
<1>9. CASE OnlineEnds
  <2>1. ppc' # "offline"
    BY <1>9 DEF OnlineEnds
  <2> QED
    BY <1>9, <2>1, Zenon DEF OnlineEnds, StaleProcc
<1>10. CASE OfflineEnds
  <2>1. ppc' # "offline"
    BY <1>10 DEF OfflineEnds
  <2> QED
    BY <1>10, <2>1, Zenon DEF OfflineEnds, StaleProcc
<1>11. CASE TurnBegins \/ Rest \/ ReadState \/ NoCode \/ WaitMore
  <2>1. (ppc' = "offline" => ppc = "offline") /\ UNCHANGED <<client, net, app, late>>
    BY <1>11 DEF TurnBegins, Rest, ReadState, NoCode, WaitMore, ReadsFor, vars
  <2> QED
    BY <2>1, Zenon
<1>12. CASE WriteWait \/ StateTimeout \/ WriteFallback
  <2>1. ppc' # "offline"
    BY <1>12 DEF WriteWait, StateTimeout, WriteFallback, CallDone
  <2>2. late' \in BOOLEAN /\ UNCHANGED <<on, code, number, net, app>>
    BY <1>12, Zenon DEF WriteWait, StateTimeout, WriteFallback, StaleProcc
  <2> QED
    BY <2>1, <2>2, Zenon
<1>13. CASE CallConnect \/ CallFails
  <2>1. ppc' # "offline" /\ UNCHANGED <<client, non, app, late>>
    BY <1>13 DEF CallConnect, CallFails, CallDone
  <2> QED
    BY <2>1, Zenon
<1>14. CASE CallSend
  <2>1. ppc' # "offline"
    BY <1>14 DEF CallSend, CallDone
  <2> QED
    BY <1>14, <2>1, Zenon DEF CallSend
<1>15. CASE NetTakes
  <2>1. UNCHANGED <<ppc, code, number, app, late>> /\ on' \in {on, FALSE} /\ non' = on'
    BY <1>15, Zenon DEF NetTakes
  <2>2. on' \in BOOLEAN /\ (~on => ~on')
    <3>1. CASE on' = on
      BY <3>1, Zenon
    <3>2. CASE on' = FALSE
      BY <3>2, Zenon
    <3> QED
      BY <2>1, <3>1, <3>2, Zenon
  <2> QED
    BY <2>1, <2>2, Zenon
<1>16. CASE NetWrites
  <2>1. non' \in BOOLEAN
    BY <1>16, Zenon DEF NetWrites, NetDone
  <2>2. late' \in BOOLEAN /\ UNCHANGED <<on, code, number, procc, app>>
    BY <1>16, Zenon DEF NetWrites
  <2> QED
    BY <2>1, <2>2, Zenon
<1>17. CASE NetReports
  BY <1>17, Zenon DEF NetReports, NetDone
<1>18. CASE ClearCode \/ AskCode
  <2>1. UNCHANGED <<on, number, non, ppc, late>>
    BY <1>18 DEF ClearCode, AskCode
  <2>2. /\ code' \in {code, FALSE} /\ owes' \in {owes, TRUE} /\ given' \in {given, FALSE}
        /\ blank' \in {blank, FALSE}
    BY <1>18, Zenon DEF ClearCode, AskCode
  <2> QED
    BY <2>1, <2>2, Zenon
<1>19. CASE SockOpens \/ SockDrops \/ ServerAnswers
  <2>1. UNCHANGED <<client, procc, net, app, late>>
    BY <1>19 DEF SockOpens, SockDrops, ServerAnswers
  <2> QED
    BY <2>1, Zenon
<1>20. CASE ProccDrops \/ NetDrops
  <2>1. (ppc' = "offline" => ppc = "offline") /\ UNCHANGED <<client, non, app, late>>
    BY <1>20 DEF ProccDrops, NetDrops
  <2> QED
    BY <2>1, Zenon
<1> QED
  BY <1>1, <1>2, <1>3, <1>4, <1>5, <1>6, <1>7, <1>8, <1>9, <1>10, <1>11, <1>12, <1>13, <1>14, <1>15, <1>16,
     <1>17, <1>18, <1>19, <1>20, Zenon DEF Next, ProccStep, NetStep, HostStep

LEMMA StepTyped == Typed /\ [Next]_vars => Typed'
<1> SUFFICES ASSUME Typed, [Next]_vars PROVE Typed'
  OBVIOUS
<1> USE DEF client, procc, net, host, app, bounds
<1>0. Places /\ (ppc = "offline" => ~on)
  BY DEF Typed
<1>f. Flags' /\ (ppc' = "offline" => ~on')
  BY StepFlags DEF Typed
<1>1. CASE UNCHANGED vars
  BY <1>0, <1>f, <1>1 DEF vars, Typed, Places, NetStatus, DisconnectStatus
<1>2. ASSUME NEW cmd \in Cmds, send(cmd) PROVE Typed'
  <2>1. input' \in Seq(Cmds \cup {"cnf"})
    BY <1>2, AppendFacts DEF send, Typed
  <2> QED
    BY <1>0, <1>f, <1>2, <2>1 DEF send, Typed, Places, NetStatus, DisconnectStatus
<1>3. CASE Confirm
  <2>1. input' \in Seq(Cmds \cup {"cnf"})
    BY <1>3, AppendFacts DEF Confirm, Typed
  <2> QED
    BY <1>0, <1>f, <1>3, <2>1 DEF Confirm, Typed, Places, NetStatus, DisconnectStatus
<1>4. CASE OnSetSubcriberInfo
  <2>1. input' \in Seq(Cmds \cup {"cnf"}) /\ ppc = "loop"
    BY <1>4, TakenFacts DEF OnSetSubcriberInfo
  <2> QED
    BY <1>0, <1>f, <1>4, <2>1 DEF OnSetSubcriberInfo, Typed, Places, NetStatus, DisconnectStatus
<1>5. CASE OnRequest_Online
  <2>1. input' \in Seq(Cmds \cup {"cnf"}) /\ ppc = "loop"
    BY <1>5, TakenFacts DEF OnRequest_Online
  <2> QED
    BY <1>0, <1>f, <1>5, <2>1 DEF OnRequest_Online, ReadsFor, Typed, Places, NetStatus, DisconnectStatus,
                            PConnectState
<1>6. CASE OnRequest_Offline
  <2>1. input' \in Seq(Cmds \cup {"cnf"}) /\ ppc = "loop"
    BY <1>6, TakenFacts DEF OnRequest_Offline
  <2> QED
    BY <1>0, <1>f, <1>6, <2>1 DEF OnRequest_Offline, Typed, Places, NetStatus, DisconnectStatus
<1>7. CASE OnRegistrationRequired_Cnf
  <2>1. input' \in Seq(Cmds \cup {"cnf"}) /\ ppc = "loop"
    BY <1>7, TakenFacts DEF OnRegistrationRequired_Cnf
  <2> QED
    BY <1>0, <1>f, <1>7, <2>1 DEF OnRegistrationRequired_Cnf, Typed, Places, NetStatus, DisconnectStatus
<1>8. CASE OnLogout_Req
  <2>1. input' \in Seq(Cmds \cup {"cnf"}) /\ ppc = "loop"
    BY <1>8, TakenFacts DEF OnLogout_Req
  <2>2. up' \in Seq(Messages)
    BY <1>8, AppendFacts, SMTT(30) DEF OnLogout_Req, Typed, Messages
  <2> QED
    BY <1>0, <1>f, <1>8, <2>1, <2>2 DEF OnLogout_Req, Typed, Places, NetStatus, DisconnectStatus
<1>9. CASE OnlineEnds
  BY <1>0, <1>f, <1>9 DEF OnlineEnds, StaleProcc, Typed, Places, NetStatus, DisconnectStatus, PConnectState
<1>10. CASE OfflineEnds
  BY <1>0, <1>f, <1>10 DEF OfflineEnds, StaleProcc, Typed, Places, NetStatus, DisconnectStatus, PConnectState
<1>11. CASE TurnBegins \/ Rest \/ ReadState \/ NoCode \/ WaitMore
  BY <1>0, <1>f, <1>11 DEF TurnBegins, Rest, ReadState, NoCode, WaitMore, ReadsFor, vars, Typed, Places,
                     NetStatus, DisconnectStatus, PConnectState
<1>12. CASE WriteWait
  BY <1>0, <1>f, <1>12 DEF WriteWait, StaleProcc, WaitFor, Typed, Places, NetStatus, DisconnectStatus,
                     PConnectState, Waits
<1>13. CASE CallConnect
  <2>1. event'.what = event.what /\ event' \in Event \cup {NoEvent} /\ (event \in Event => event' \in Event)
    <3>1. event' = [event EXCEPT !.old = event # NoEvent] /\ event \in Event \cup {NoEvent}
      BY <1>13 DEF CallConnect, Typed
    <3>2. CASE event = NoEvent
      BY <3>1, <3>2 DEF Event, Events, NoEvent
    <3>3. CASE event # NoEvent
      <4>1. event \in Event /\ event' = [event EXCEPT !.old = TRUE]
        BY <3>1, <3>3
      <4> QED
        BY <4>1 DEF Event
    <3> QED
      BY <3>2, <3>3
  <2>2. inbox' \in Seq(Event)
    <3>1. Len(inbox) \in Nat /\ DOMAIN inbox = 1 .. Len(inbox) /\ \A k \in DOMAIN inbox : inbox[k] \in Event
      BY LenProperties DEF Typed
    <3>2. \A k \in DOMAIN inbox : [inbox[k] EXCEPT !.old = TRUE] \in Event
      BY <3>1 DEF Event
    <3> QED
      BY <1>13, <3>1, <3>2, SeqDef DEF CallConnect
  <2>3. NetStatus' = NetStatus
    BY <1>13, <2>1 DEF CallConnect, NetStatus, DisconnectStatus
  <2>4. <<>> \in Seq(Messages)
    BY EmptySeq
  <2> QED
    BY <1>0, <1>f, <1>13, <2>1, <2>2, <2>3, <2>4 DEF CallConnect, CallDone, Typed, Places, PConnectState
<1>14. CASE CallSend
  <2>1. up' \in Seq(Messages)
    <3>1. Message[pstate] \in Messages
      BY <1>14 DEF CallSend, Message, Messages, GenOpen, GenRegister, GenRegisterNewReg, GenRegisterAuth
    <3> QED
      BY <1>14, <3>1, AppendFacts DEF CallSend, Typed
  <2> QED
    BY <1>0, <1>f, <1>14, <2>1 DEF CallSend, CallDone, Typed, Places, NetStatus, DisconnectStatus, PConnectState
<1>15. CASE CallFails
  BY <1>0, <1>f, <1>15 DEF CallFails, CallDone, WaitFor, Fallback, Typed, Places, NetStatus, DisconnectStatus,
                     PConnectState
<1>16. CASE WriteFallback
  BY <1>0, <1>f, <1>16 DEF WriteFallback, CallDone, Fallback, WaitFor, Typed, Places, NetStatus, DisconnectStatus,
                     PConnectState
<1>17. CASE StateTimeout
  BY <1>0, <1>f, <1>17 DEF StateTimeout, StaleProcc, TimeoutTo, Typed, Places, NetStatus, DisconnectStatus,
                     PConnectState
<1>18. CASE NetTakes
  <2>1. event' \in Event /\ inbox' \in Seq(Event)
    BY <1>18, TailFacts DEF NetTakes, Typed
  <2> QED
    BY <1>0, <1>f, <1>18, <2>1 DEF NetTakes, Typed, Places
<1>19. CASE NetWrites
  <2>1. constate' \in PConnectState
    BY <1>19, NetFacts DEF NetWrites
  <2>2. CASE npc' # "report"
    BY <1>0, <1>f, <1>19, <2>1, <2>2 DEF NetWrites, NetDone, Typed, Places, PConnectState
  <2>3. CASE npc' = "report"
    <3>1. NetStatus # "none" /\ UNCHANGED <<event, nstate, non>>
      BY <1>19, <2>3 DEF NetWrites
    <3> QED
      BY <1>0, <1>f, <1>19, <2>1, <2>3, <3>1 DEF NetWrites, Typed, Places, NetStatus, DisconnectStatus
  <2> QED
    BY <2>2, <2>3
<1>25. CASE ProccDrops \/ NetDrops
  <2>1. /\ sock' \in {"closed", "connecting", "open"} /\ session' \in {"none", "opened", "registered"}
        /\ up' \in Seq(Messages) /\ inbox' \in Seq(Event)
    BY <1>0, <1>25, DisconnectFacts, EmptySeq DEF ProccDrops, NetDrops, Typed, Places
  <2>2. CASE ProccDrops
    BY <1>0, <1>f, <2>1, <2>2 DEF ProccDrops, Typed, Places, NetStatus, DisconnectStatus
  <2>3. CASE NetDrops
    BY <1>0, <1>f, <2>1, <2>3 DEF NetDrops, Typed, Places
  <2> QED
    BY <1>25, <2>2, <2>3
<1>20. CASE NetReports
  <2>1. status' \in {"offline", "connecting", "registration", "online"}
    BY <1>20, NetFacts DEF NetReports, Typed
  <2> QED
    BY <1>0, <1>f, <1>20, <2>1 DEF NetReports, NetDone, Typed, Places, PConnectState
<1>21. CASE ClearCode \/ AskCode
  BY <1>0, <1>f, <1>21 DEF ClearCode, AskCode, Typed, Places
<1>22. CASE SockOpens
  <2>1. inbox' \in Seq(Event)
    BY <1>22, ArrivesFacts DEF SockOpens, Typed, Events
  <2> QED
    BY <1>0, <1>f, <1>22, <2>1 DEF SockOpens, Typed, Places, NetStatus, DisconnectStatus
<1>23. CASE SockDrops
  <2>1. inbox' \in Seq(Event) /\ up' \in Seq(Messages)
    BY <1>23, ArrivesFacts, EmptySeq DEF SockDrops, Closed, Typed, Events
  <2> QED
    BY <1>0, <1>f, <1>23, <2>1 DEF SockDrops, Closed, Typed, Places, NetStatus, DisconnectStatus
<1>24. CASE ServerAnswers
  <2>1. up' \in Seq(Messages) /\ Head(up) \in Messages
    BY <1>24, TailFacts DEF ServerAnswers, Typed
  <2>2. \A m \in Messages : Good[m] \subseteq Events /\ Bad[m] \subseteq Events
    BY DEF Good, Bad, Messages, Events
  <2>3. inbox' \in Seq(Event)
    <3>1. ASSUME NEW e \in Events, Arrives(e) PROVE inbox' \in Seq(Event)
      BY <3>1, ArrivesFacts DEF Typed
    <3> QED
      BY <1>24, <2>1, <2>2, <3>1 DEF ServerAnswers, Typed
  <2>4. session' \in {"none", "opened", "registered"}
    BY <1>0, <1>f, <1>24 DEF ServerAnswers, Places
  <2> QED
    BY <1>0, <1>f, <1>24, <2>1, <2>3, <2>4 DEF ServerAnswers, Typed, Places, NetStatus, DisconnectStatus
<1> QED
  BY <1>1, <1>2, <1>3, <1>4, <1>5, <1>6, <1>7, <1>8, <1>9, <1>10, <1>11, <1>12, <1>13, <1>14, <1>15, <1>16,
     <1>17, <1>18, <1>19, <1>20, <1>21, <1>22, <1>23, <1>24, <1>25 DEF Next, ProccStep, NetStep, HostStep

(* The types, with what StepTyped needs of the queues and the threads. *)
LEMMA TypedAlways == Spec => []Typed
<1>1. Init => Typed
  <2> SUFFICES ASSUME Init PROVE Typed
    OBVIOUS
  <2>1. <<>> \in Seq(Messages) /\ <<>> \in Seq(Event) /\ <<>> \in Seq(Cmds \cup {"cnf"})
    BY EmptySeq
  <2> QED
    BY <2>1 DEF Init, Typed, Flags, Places, PConnectState
<1> QED
  BY <1>1, StepTyped, PTL DEF Spec

(* The state of the client, of both threads, of the host and of the        *)
(* server keeps its type; in particular the callbacks of the network       *)
(* thread know every event that can reach them.                            *)
THEOREM TypeCorrect == Spec => []TypeOK
<1>1. Typed => TypeOK
  BY DEF Typed, Flags, Places, TypeOK
<1> QED
  BY <1>1, TypedAlways, PTL

-----------------------------------------------------------------------------
(* The code of the registration *)

(* A step that leaves the code, what is known of it and the network        *)
(* thread's place alone cannot disturb CodeKept.                           *)
LEMMA CodeUntouched ==
    ASSUME CodeKept, UNCHANGED <<code, given, npc>>
    PROVE  CodeKept'
  BY DEF CodeKept

(* The steps of the Procc thread keep the code until they send it. *)
LEMMA ProccKeepsCode ==
    ASSUME CodeKept, ProccStep
    PROVE  CodeKept'
  <1> USE DEF client, procc, net, host, app, bounds
  <1>1. CASE OnSetSubcriberInfo
    <2>1. UNCHANGED <<given, npc>>
      BY <1>1 DEF OnSetSubcriberInfo
    <2>2. code => code'
      BY <1>1, Zenon DEF OnSetSubcriberInfo
    <2> QED
      BY <2>1, <2>2, Zenon DEF CodeKept
  <1>2. CASE OnRegistrationRequired_Cnf
    BY <1>2 DEF OnRegistrationRequired_Cnf, CodeKept
  <1>3. CASE CallSend
    BY <1>3 DEF CallSend, CodeKept
  <1>4. ASSUME \/ OnRequest_Online \/ OnlineEnds \/ OnRequest_Offline \/ OfflineEnds \/ ProccDrops
               \/ OnLogout_Req
        PROVE  UNCHANGED <<code, given, npc>>
    BY <1>4 DEF OnRequest_Online, OnlineEnds, OnRequest_Offline, OfflineEnds, ProccDrops, OnLogout_Req
  <1>5. ASSUME TurnBegins \/ Rest \/ ReadState \/ NoCode \/ WriteWait
        PROVE  UNCHANGED <<code, given, npc>>
    BY <1>5 DEF TurnBegins, Rest, ReadState, NoCode, WriteWait, vars
  <1>6. ASSUME CallConnect \/ CallFails \/ WriteFallback \/ WaitMore \/ StateTimeout
        PROVE  UNCHANGED <<code, given, npc>>
    BY <1>6 DEF CallConnect, CallFails, WriteFallback, WaitMore, StateTimeout
  <1> QED
    BY <1>1, <1>2, <1>3, <1>4, <1>5, <1>6, CodeUntouched DEF ProccStep

(* The network thread clears the code only on its way to ask for another. *)
LEMMA NetKeepsCode ==
    ASSUME CodeKept, NetStep
    PROVE  CodeKept'
  <1> USE DEF client, procc, net, host, app, bounds
  <1>1. CASE NetTakes
    BY <1>1 DEF NetTakes, CodeKept
  <1>2. CASE NetWrites
    BY <1>2 DEF NetWrites, CodeKept
  <1>3. CASE NetReports
    BY <1>3 DEF NetReports, CodeKept
  <1>4. CASE ClearCode
    BY <1>4 DEF ClearCode, CodeKept
  <1>5. CASE AskCode
    BY <1>5 DEF AskCode, CodeKept
  <1>6. CASE NetDrops
    BY <1>6 DEF NetDrops, CodeKept
  <1> QED
    BY <1>1, <1>2, <1>3, <1>4, <1>5, <1>6 DEF NetStep

(* The code that the application gave in answer to the latest question is  *)
(* kept until GenRegisterNewReg has sent it, however the two threads, the  *)
(* losses and the refusals interleave.                                     *)
THEOREM CodeIsKept == Spec => []CodeKept
  <1>1. Init => CodeKept
    BY DEF Init, CodeKept
  <1>2. CodeKept /\ [Next]_vars => CodeKept'
    <2> SUFFICES ASSUME CodeKept, [Next]_vars PROVE CodeKept'
      OBVIOUS
    <2> USE DEF client, procc, net, host, app, bounds
    <2>1. ASSUME NEW cmd \in Cmds, send(cmd) PROVE UNCHANGED <<code, given, npc>>
      BY <2>1 DEF send
    <2>2. ASSUME Confirm \/ SockOpens \/ ServerAnswers \/ SockDrops
          PROVE  UNCHANGED <<code, given, npc>>
      BY <2>2 DEF Confirm, SockOpens, ServerAnswers, SockDrops
    <2>3. ASSUME UNCHANGED vars PROVE UNCHANGED <<code, given, npc>>
      BY <2>3 DEF vars
    <2> QED
      BY <2>1, <2>2, <2>3, CodeUntouched, ProccKeepsCode, NetKeepsCode DEF Next, HostStep
  <1> QED
    BY <1>1, <1>2, PTL DEF Spec

(* A step that does not touch what Asked speaks of. *)
LEMMA AskedFrame ==
    ASSUME Asked, UNCHANGED <<constate, code, owes, blank, event, npc>>, Confirmed => Confirmed',
           ppc' = "call" /\ pstate' = "need_req" => ppc = "call" /\ pstate = "need_req"
    PROVE  Asked'
<1>1. Asking' = Asking
  BY DEF Asking
<1> QED
  BY <1>1, Zenon DEF Asked

(* Procc never moves the client to need_req, and leaves the answer of the  *)
(* application in the queue while it uses up the code it has.              *)
LEMMA ProccAsked ==
    ASSUME Typed, Asked, ProccStep
    PROVE  Asked'
<1> USE DEF client, procc, net, host, app, bounds
<1>1. CASE OnRequest_Online \/ OnRequest_Offline \/ OnLogout_Req
  <2>1. PICK cmd \in {"online", "offline", "logout"} : Taken(cmd)
    BY <1>1 DEF OnRequest_Online, OnRequest_Offline, OnLogout_Req
  <2>2. Confirmed => Confirmed'
    BY <2>1, TakenFacts
  <2>3. UNCHANGED <<constate, code, owes, blank, event, npc>> /\ ~(ppc' = "call")
    BY <1>1, <2>1, TakenFacts DEF OnRequest_Online, OnRequest_Offline, OnLogout_Req, ReadsFor
  <2> QED
    BY <2>2, <2>3, AskedFrame
<1>2. CASE OnSetSubcriberInfo
  <2>1. PICK cmd \in {"info", "info_code"} : Taken(cmd)
    BY <1>2 DEF OnSetSubcriberInfo
  <2>2. (Confirmed => Confirmed') /\ ppc = "loop"
    BY <2>1, TakenFacts
  <2>3. UNCHANGED <<constate, owes, blank, event, npc>> /\ ppc' # "call"
    BY <1>2, <2>2 DEF OnSetSubcriberInfo
  <2>4. code' = code \/ code' = TRUE
    BY <1>2, Zenon DEF OnSetSubcriberInfo
  <2>5. CASE code' = TRUE
    BY <2>3, <2>5, Zenon DEF Asked
  <2> QED
    BY <2>2, <2>3, <2>4, <2>5, AskedFrame
<1>3. CASE OnRegistrationRequired_Cnf
  <2>1. ppc' # "call"
    BY <1>3 DEF OnRegistrationRequired_Cnf, Taken
  <2>2. code' \/ blank'
    BY <1>3, Zenon DEF OnRegistrationRequired_Cnf
  <2> QED
    BY <2>1, <2>2, Zenon DEF Asked
<1>4. CASE OnlineEnds \/ WriteWait \/ WriteFallback \/ StateTimeout
  <2>1. constate' # "need_req"
    <3>1. CASE OnlineEnds
      BY <3>1 DEF OnlineEnds
    <3>2. CASE WriteWait
      BY <3>2 DEF WriteWait, WaitFor
    <3>3. CASE WriteFallback
      BY <3>3 DEF WriteFallback, Fallback, Typed
    <3>4. CASE StateTimeout
      BY <3>4 DEF StateTimeout, TimeoutTo
    <3> QED
      BY <1>4, <3>1, <3>2, <3>3, <3>4
  <2> QED
    BY <2>1, Zenon DEF Asked
<1>5. CASE OfflineEnds
  <2>1. CASE constate' = "wait_disconnect"
    BY <2>1 DEF Asked
  <2>2. CASE UNCHANGED constate
    <3>1. UNCHANGED <<constate, code, owes, blank, event, npc, input>> /\ ppc' # "call"
      BY <1>5, <2>2 DEF OfflineEnds
    <3>2. Confirmed' = Confirmed
      BY <3>1 DEF Confirmed
    <3> QED
      BY <3>1, <3>2, AskedFrame
  <2> QED
    BY <1>5, <2>1, <2>2 DEF OfflineEnds
<1>6. CASE TurnBegins \/ Rest \/ ReadState \/ NoCode \/ WaitMore \/ CallFails \/ ProccDrops
  <2>1. UNCHANGED <<constate, code, owes, blank, event, npc, input>>
    BY <1>6 DEF TurnBegins, Rest, ReadState, NoCode, WaitMore, CallFails, ProccDrops, vars
  <2>2. ppc' = "call" => ppc = "call" /\ pstate' = pstate
    BY <1>6 DEF TurnBegins, Rest, ReadState, NoCode, WaitMore, CallFails, ProccDrops, CallDone, ReadsFor, vars
  <2>3. Confirmed' = Confirmed
    BY <2>1 DEF Confirmed
  <2> QED
    BY <2>1, <2>2, <2>3, AskedFrame
<1>7. CASE CallConnect
  <2>1. UNCHANGED <<constate, code, owes, blank, npc, input>> /\ ppc' # "call"
    BY <1>7 DEF CallConnect, CallDone
  <2>2. event'.what = event.what
    BY <1>7 DEF CallConnect, Typed, Event, NoEvent
  <2>3. Confirmed' = Confirmed /\ Asking' = Asking
    BY <2>1, <2>2 DEF Confirmed, Asking
  <2> QED
    BY <2>1, <2>3, Zenon DEF Asked
<1>8. CASE CallSend
  <2>1. UNCHANGED <<constate, owes, blank, npc, event, input>> /\ ppc = "call" /\ ppc' # "call"
    BY <1>8 DEF CallSend, CallDone
  <2>2. Confirmed' = Confirmed /\ Asking' = Asking
    BY <2>1 DEF Confirmed, Asking
  <2>3. pstate = "need_req" \/ code' = code
    BY <1>8, Zenon DEF CallSend
  <2> QED
    BY <2>1, <2>2, <2>3, Zenon DEF Asked
<1> QED
  BY <1>1, <1>2, <1>3, <1>4, <1>5, <1>6, <1>7, <1>8 DEF ProccStep

(* The network thread asks whenever it moves the client to need_req. *)
LEMMA NetAsked ==
    ASSUME Typed, Asked, NetStep
    PROVE  Asked'
<1> USE DEF client, procc, net, host, app, bounds
<1>1. CASE NetTakes
  <2>1. UNCHANGED <<constate, code, owes, blank, ppc, pstate, input>> /\ npc' = "write" /\ npc = "idle"
    BY <1>1 DEF NetTakes
  <2>2. Confirmed' = Confirmed /\ ~Asking
    BY <2>1 DEF Confirmed, Asking
  <2> QED
    BY <2>1, <2>2, Zenon DEF Asked
<1>2. CASE NetWrites
  <2>1. UNCHANGED <<code, owes, blank, ppc, pstate, input>> /\ constate' = NetState /\ npc = "write"
    BY <1>2 DEF NetWrites
  <2>2. Confirmed' = Confirmed /\ ~Asking
    BY <2>1 DEF Confirmed, Asking
  <2>3. event.what \in Events
    BY <2>1 DEF Typed, Event
  <2>4. CASE event.what = "not_found"
    <3>1. NetStatus = "registration"
      BY <2>4 DEF NetStatus
    <3>2. npc' = "report" /\ event' = event
      BY <1>2, <3>1 DEF NetWrites
    <3>3. Asking'
      BY <2>4, <3>2 DEF Asking
    <3> QED
      BY <3>3, Zenon DEF Asked
  <2>5. CASE event.what # "not_found"
    <3>1. NetState = "need_req" => constate = "need_req"
      BY <2>3, <2>5 DEF NetState, OnConnect, OnDisconnect, StrStream, OnRegister, OnRegisterAuth,
                        OnRegisterReg, OnLogoutRsp, Events
    <3> QED
      BY <2>1, <2>2, <3>1, Zenon DEF Asked
  <2> QED
    BY <2>4, <2>5
<1>3. CASE NetReports
  <2>1. /\ UNCHANGED <<constate, code, owes, blank, ppc, pstate, input>> /\ npc = "report"
        /\ event.what = "not_found" => npc' = "clear"
    BY <1>3 DEF NetReports
  <2>2. Confirmed' = Confirmed /\ (Asking => Asking')
    BY <2>1 DEF Confirmed, Asking
  <2> QED
    BY <2>1, <2>2, Zenon DEF Asked
<1>4. CASE ClearCode
  <2>1. Asking'
    BY <1>4 DEF ClearCode, Asking
  <2> QED
    BY <2>1, Zenon DEF Asked
<1>5. CASE AskCode
  <2>1. owes'
    BY <1>5, Zenon DEF AskCode
  <2> QED
    BY <2>1, Zenon DEF Asked
<1>6. CASE NetDrops
  <2>1. UNCHANGED <<constate, code, owes, blank, ppc, pstate, input>> /\ npc = "drop"
    BY <1>6 DEF NetDrops
  <2>2. Confirmed' = Confirmed /\ ~Asking
    BY <2>1 DEF Confirmed, Asking
  <2> QED
    BY <2>1, <2>2, Zenon DEF Asked
<1> QED
  BY <1>1, <1>2, <1>3, <1>4, <1>5, <1>6 DEF NetStep

LEMMA StepAsked == Typed /\ Asked /\ [Next]_vars => Asked'
<1> SUFFICES ASSUME Typed, Asked, [Next]_vars PROVE Asked'
  OBVIOUS
<1> USE DEF client, procc, net, host, app, bounds
<1>1. CASE SockOpens \/ SockDrops \/ ServerAnswers \/ UNCHANGED vars
  <2>1. UNCHANGED <<constate, code, owes, blank, event, npc, input, ppc, pstate>>
    BY <1>1 DEF SockOpens, SockDrops, ServerAnswers, vars
  <2>2. Confirmed' = Confirmed
    BY <2>1 DEF Confirmed
  <2> QED
    BY <2>1, <2>2, AskedFrame
<1>2. ASSUME NEW cmd \in Cmds \cup {"cnf"}, input' = Append(input, cmd)
      PROVE  (Confirmed => Confirmed') /\ (cmd = "cnf" => Confirmed')
  <2>1. input \in Seq(Cmds \cup {"cnf"})
    BY DEF Typed
  <2>2. /\ DOMAIN input' = DOMAIN input \cup {Len(input) + 1}
        /\ \A k \in DOMAIN input : input'[k] = input[k]
        /\ input'[Len(input) + 1] = cmd
    BY <1>2, <2>1, AppendFacts
  <2> QED
    BY <2>2 DEF Confirmed
<1>3. ASSUME NEW cmd \in Cmds, send(cmd) PROVE Asked'
  <2>1. UNCHANGED <<constate, code, owes, blank, event, npc, ppc, pstate>> /\ input' = Append(input, cmd)
    BY <1>3 DEF send
  <2> QED
    BY <1>2, <2>1, AskedFrame
<1>4. CASE Confirm
  <2>1. Confirmed'
    BY <1>2, <1>4 DEF Confirm
  <2> QED
    BY <2>1, Zenon DEF Asked
<1> QED
  BY <1>1, <1>3, <1>4, ProccAsked, NetAsked DEF Next, HostStep

(* A client that needs a code to register has asked the application for    *)
(* one and waits for it, in every order of the two threads: neither a code *)
(* cleared before the question nor one used up late leaves it waiting for  *)
(* nothing.                                                                *)
THEOREM CodeIsAskedFor == Spec => []NeedReqIsAsked
<1>1. Init => Asked
  BY DEF Init, Asked
<1>2. Asked => NeedReqIsAsked
  <2> SUFFICES ASSUME Asked, constate = "need_req", ~code, npc = "idle" PROVE owes \/ blank \/ Confirmed
    BY Zenon DEF NeedReqIsAsked, Confirmed
  <2>1. ~Asking
    BY DEF Asking
  <2> QED
    BY <2>1, Zenon DEF Asked
<1> QED
  BY <1>1, <1>2, StepAsked, TypedAlways, PTL DEF Spec

-----------------------------------------------------------------------------
(* What the application is told *)

(* Once a thread has acted on an outdated view, that is remembered. *)
LEMMA LateStays ==
    ASSUME [Next]_vars, late
    PROVE  late'
<1> USE DEF client, procc, net, host, app, bounds
<1>1. CASE UNCHANGED late
  BY <1>1, Zenon
<1>2. CASE OnlineEnds \/ OfflineEnds \/ WriteWait \/ WriteFallback \/ StateTimeout
  BY <1>2, Zenon DEF OnlineEnds, OfflineEnds, WriteWait, WriteFallback, StateTimeout, StaleProcc
<1>3. CASE NetWrites \/ NetReports
  BY <1>3, Zenon DEF NetWrites, NetReports
<1>4. ASSUME NEW cmd \in Cmds, send(cmd) PROVE UNCHANGED late
  BY <1>4 DEF send
<1>5. ASSUME \/ Confirm \/ OnSetSubcriberInfo \/ OnRequest_Online \/ OnRequest_Offline
             \/ OnRegistrationRequired_Cnf \/ OnLogout_Req \/ TurnBegins \/ Rest \/ ReadState \/ NoCode
      PROVE  UNCHANGED late
  BY <1>5 DEF Confirm, OnSetSubcriberInfo, OnRequest_Online, OnRequest_Offline,
              OnRegistrationRequired_Cnf, OnLogout_Req, TurnBegins, Rest, ReadState, NoCode, vars
<1>6. ASSUME \/ CallConnect \/ CallSend \/ CallFails \/ WaitMore \/ NetTakes \/ ClearCode \/ AskCode
             \/ ProccDrops \/ NetDrops \/ SockOpens \/ SockDrops \/ ServerAnswers \/ UNCHANGED vars
      PROVE  UNCHANGED late
  BY <1>6 DEF CallConnect, CallSend, CallFails, WaitMore, NetTakes, ClearCode, AskCode,
              ProccDrops, NetDrops, SockOpens, SockDrops, ServerAnswers, vars
<1> QED
  BY <1>1, <1>2, <1>3, <1>4, <1>5, <1>6 DEF Next, ProccStep, NetStep, HostStep

(* Procc has written in time: over the state that it had read. *)
LEMMA ProccOnTime ==
    ASSUME Typed, ~late'
    PROVE  /\ WriteWait => constate = pstate /\ constate' = WaitFor[pstate] /\ pstate \in DOMAIN WaitFor
           /\ WriteFallback => /\ constate = WaitFor[pstate] /\ constate' = Fallback[pstate]
                               /\ pstate \in DOMAIN Fallback
           /\ StateTimeout => constate = pstate /\ constate' = TimeoutTo(pstate) /\ pstate \in Waits
           /\ OfflineEnds => constate' = "wait_disconnect" \/ (UNCHANGED constate /\ pstate = "offline")
<1>1. ASSUME WriteWait PROVE constate = pstate /\ constate' = WaitFor[pstate] /\ pstate \in DOMAIN WaitFor
  BY <1>1, Zenon DEF WriteWait, StaleProcc
<1>2. ASSUME WriteFallback
      PROVE  constate = WaitFor[pstate] /\ constate' = Fallback[pstate] /\ pstate \in DOMAIN Fallback
  BY <1>2, Zenon DEF WriteFallback, Typed
<1>3. ASSUME StateTimeout PROVE constate = pstate /\ constate' = TimeoutTo(pstate) /\ pstate \in Waits
  BY <1>3, Zenon DEF StateTimeout, StaleProcc
<1>4. ASSUME OfflineEnds
      PROVE  constate' = "wait_disconnect" \/ (UNCHANGED constate /\ pstate = "offline")
  BY <1>4 DEF OfflineEnds
<1> QED
  BY <1>1, <1>2, <1>3, <1>4, Zenon

(* What each callback makes of the state when its view of it is up to      *)
(* date and its answer is awaited.                                         *)
LEMMA NetOnTime ==
    ASSUME Typed, NetWrites, ~late'
    PROVE  /\ ~late /\ npc = "write" /\ event.what \in Events
           /\ event.what = "connect" =>
                 constate' = constate \/ (constate = "wait_connect" /\ constate' = "connect")
           /\ event.what = "disconnect" =>
                 /\ constate' = IF non THEN "start" ELSE "offline"
                 /\ constate' = constate \/ non = on
           /\ event.what \in {"open_ok", "open_bad"} =>
                 /\ on /\ ~event.old /\ constate = "wait_open"
                 /\ \/ constate' = "wait_open"
                    \/ constate' = "open" /\ event.what = "open_ok"
                    \/ constate' = "connect" /\ event.what = "open_bad"
           /\ event.what \in {"unauthorized", "not_found", "error"} =>
                 /\ on /\ constate \in {"wait_reg", "wait_reg_auth", "wait_reg_newreg"}
                 /\ constate' \in {"need_auth", "need_req", "open"}
           /\ event.what \in {"auth_ok", "newreg_ok"} =>
                 /\ on /\ ~event.old /\ constate \in {"wait_reg_auth", "wait_reg_newreg"}
                 /\ constate' = "online" /\ NetStatus = "online"
           /\ event.what = "logout_ok" =>
                 \/ constate' = constate
                 \/ constate' = "wait_disconnect" /\ non = on /\ nstate = constate
<1>0. npc = "write" /\ event.what \in Events /\ constate' = NetState
  BY DEF NetWrites, Typed, Event
<1>1. ~late /\ ~LateAnswer /\ ~StaleNet
  BY Zenon DEF NetWrites
<1>2. \/ NetState = constate
      \/ event.what = "disconnect" /\ non = on
      \/ event.what = "logout_ok" /\ non = on /\ nstate = constate
      \/ event.what \notin {"disconnect", "logout_ok"} /\ nstate = constate
  BY <1>1 DEF StaleNet
<1>3. event.what \in DOMAIN Awaited => constate \in Awaited[event.what] /\ on /\ ~event.old
  BY <1>1 DEF LateAnswer
<1>4. event.what = "connect" =>
          constate' = constate \/ (constate = "wait_connect" /\ constate' = "connect")
  BY <1>0, <1>2 DEF NetState, OnConnect
<1>5. event.what = "disconnect" => /\ constate' = IF non THEN "start" ELSE "offline"
                                   /\ constate' = constate \/ non = on
  BY <1>0, <1>2 DEF NetState, OnDisconnect
<1>6. event.what \in {"open_ok", "open_bad"} =>
          /\ on /\ ~event.old /\ constate = "wait_open"
          /\ \/ constate' = "wait_open"
             \/ constate' = "open" /\ event.what = "open_ok"
             \/ constate' = "connect" /\ event.what = "open_bad"
  BY <1>0, <1>3 DEF NetState, StrStream, Awaited
<1>7. event.what \in {"unauthorized", "not_found", "error"} =>
          /\ on /\ constate \in {"wait_reg", "wait_reg_auth", "wait_reg_newreg"}
          /\ constate' \in {"need_auth", "need_req", "open"}
  BY <1>0, <1>3 DEF NetState, OnRegister, Awaited
<1>8. event.what \in {"auth_ok", "newreg_ok"} =>
          /\ on /\ ~event.old /\ constate \in {"wait_reg_auth", "wait_reg_newreg"}
          /\ constate' = "online" /\ NetStatus = "online"
  BY <1>0, <1>2, <1>3 DEF NetState, NetStatus, OnRegisterAuth, OnRegisterReg, Awaited
<1>9. event.what = "logout_ok" =>
          constate' = constate \/ (constate' = "wait_disconnect" /\ non = on /\ nstate = constate)
  BY <1>0, <1>2 DEF NetState, OnLogoutRsp
<1> QED
  BY <1>0, <1>1, <1>4, <1>5, <1>6, <1>7, <1>8, <1>9, Zenon

(* The application's view moves with the state. *)
LEMMA StepStatus == Typed /\ StatusAgrees /\ [Next]_vars => StatusAgrees'
<1> SUFFICES ASSUME Typed, StatusAgrees, [Next]_vars, npc' # "report", ~late'
             PROVE  /\ constate' = "online" => status' = "online"
                    /\ status' = "online" => constate' \in {"online", "wait_disconnect"}
  BY DEF StatusAgrees
<1> USE DEF client, procc, net, host, app, bounds
<1>0. ~late
  BY LateStays, Zenon
<1>1. npc # "report" => /\ constate = "online" => status = "online"
                        /\ status = "online" => constate \in {"online", "wait_disconnect"}
  BY <1>0 DEF StatusAgrees
<1>2. CASE UNCHANGED <<constate, status, npc>>
  BY <1>1, <1>2
<1>3. CASE OnlineEnds
  BY <1>3 DEF OnlineEnds
<1>4. CASE OfflineEnds
  <2>1. UNCHANGED <<status, npc>>
    BY <1>4 DEF OfflineEnds
  <2> QED
    BY <1>1, <1>4, <2>1, ProccOnTime
<1>5. CASE WriteWait \/ WriteFallback \/ StateTimeout
  <2>1. UNCHANGED <<status, npc>>
    BY <1>5 DEF WriteWait, WriteFallback, StateTimeout
  <2>2. constate \notin {"online", "wait_disconnect"} /\ constate' # "online"
    BY <1>5, ProccOnTime DEF WaitFor, Fallback, TimeoutTo, Waits
  <2> QED
    BY <1>1, <2>1, <2>2
<1>6. CASE NetWrites
  <2>1. UNCHANGED status /\ npc = "write" /\ NetStatus = "none"
    BY <1>6 DEF NetWrites
  <2>2. event.what \in {"connect", "logout_ok", "open_ok", "open_bad"}
    <3>1. event.what \in Events /\ (event.what \in {"auth_ok", "newreg_ok"} => NetStatus = "online")
      BY <1>6, NetOnTime
    <3> QED
      BY <2>1, <3>1 DEF Events, NetStatus, DisconnectStatus
  <2>3. \/ constate' = constate
        \/ constate \in {"wait_connect", "wait_open"} /\ constate' \in {"connect", "open"}
        \/ constate' = "wait_disconnect"
    BY <1>6, <2>2, NetOnTime
  <2> QED
    BY <1>1, <2>1, <2>3
<1>7. CASE NetReports
  <2>1. status' = NetStatus /\ npc = "report" /\ UNCHANGED constate
    BY <1>7 DEF NetReports
  <2>2. constate = NetState
    BY <1>7, Zenon DEF NetReports
  <2>3. event.what \in Events /\ NetStatus # "none"
    BY <2>1 DEF Typed, Event
  <2>4. NetStatus = "online" <=> NetState = "online"
    BY <2>2, <2>3 DEF NetStatus, DisconnectStatus, NetState, OnConnect, OnDisconnect, StrStream, OnRegister,
       OnRegisterAuth, OnRegisterReg, OnLogoutRsp, Events
  <2> QED
    BY <2>1, <2>2, <2>4
<1>8. CASE NetTakes
  <2>1. UNCHANGED <<constate, status>> /\ npc = "idle"
    BY <1>8 DEF NetTakes
  <2> QED
    BY <1>1, <2>1
<1>9. CASE ClearCode \/ AskCode \/ ProccDrops \/ NetDrops
  <2>1. UNCHANGED <<constate, status>> /\ npc # "report"
    BY <1>9 DEF ClearCode, AskCode, ProccDrops, NetDrops
  <2> QED
    BY <1>1, <2>1
<1>10. ASSUME NEW cmd \in Cmds, send(cmd) PROVE UNCHANGED <<constate, status, npc>>
  BY <1>10 DEF send
<1>11. ASSUME \/ Confirm \/ OnSetSubcriberInfo \/ OnRequest_Online \/ OnRequest_Offline
              \/ OnRegistrationRequired_Cnf \/ OnLogout_Req \/ TurnBegins \/ Rest \/ ReadState \/ NoCode
       PROVE  UNCHANGED <<constate, status, npc>>
  BY <1>11 DEF Confirm, OnSetSubcriberInfo, OnRequest_Online, OnRequest_Offline,
              OnRegistrationRequired_Cnf, OnLogout_Req, TurnBegins, Rest, ReadState, NoCode, vars
<1>12. ASSUME \/ CallConnect \/ CallSend \/ CallFails \/ WaitMore
              \/ SockOpens \/ SockDrops \/ ServerAnswers \/ UNCHANGED vars
       PROVE  UNCHANGED <<constate, status, npc>>
  BY <1>12 DEF CallConnect, CallSend, CallFails, WaitMore, SockOpens, SockDrops, ServerAnswers, vars
<1> QED
  BY <1>2, <1>3, <1>4, <1>5, <1>6, <1>7, <1>8, <1>9, <1>10, <1>11, <1>12
     DEF Next, ProccStep, NetStep, HostStep

(* Without a thread that acts on an outdated view, the application is told *)
(* "online" when and only while the client is online, up to the            *)
(* disconnecting.                                                          *)
THEOREM StatusIsTrue == Spec => []StatusAgrees
<1>1. Init => StatusAgrees
  BY DEF Init, StatusAgrees
<1> QED
  BY <1>1, StepStatus, TypedAlways, PTL DEF Spec

-----------------------------------------------------------------------------
(* The connection as long as no thread acts on an outdated view *)

(* The steps that move neither the client's state nor the socket. *)
Elsewhere ==
    \/ \E cmd \in Cmds : send(cmd)
    \/ Confirm \/ OnSetSubcriberInfo \/ OnRegistrationRequired_Cnf \/ ClearCode \/ AskCode
    \/ UNCHANGED vars

LEMMA ElsewhereFacts ==
    ASSUME Elsewhere
    PROVE  /\ UNCHANGED <<on, constate, ppc, pstate, event, nstate, non, sock, up, inbox, session, late>>
           /\ npc' = npc \/ (npc \in {"clear", "ask"} /\ npc' \in {"ask", "idle"})
  BY DEF Elsewhere, send, Confirm, OnSetSubcriberInfo, OnRegistrationRequired_Cnf, ClearCode, AskCode,
         client, procc, net, host, app, bounds, vars

(* Procc's reads. *)
Reads == OnRequest_Online \/ TurnBegins \/ Rest \/ ReadState \/ NoCode \/ WaitMore

LEMMA ReadsFacts ==
    ASSUME Reads
    PROVE  /\ UNCHANGED <<on, constate, net, sock, up, inbox, session, late>>
           /\ ppc \notin {"call", "fallback", "offline"} /\ ppc' \notin {"call", "fallback", "offline"}
  BY DEF Reads, OnRequest_Online, Taken, TurnBegins, Rest, ReadState, NoCode, WaitMore, ReadsFor,
         client, procc, host, app, bounds, vars

(* on and constate part only while a thread is between its two writes. *)
LEMMA StepAgree ==
    ASSUME Typed, Agree, [Next]_vars, ~late'
    PROVE  Agree'
<1> USE DEF client, procc, net, host, app, bounds
<1>1. CASE Elsewhere
  BY <1>1, ElsewhereFacts DEF Agree
<1>2. CASE Reads
  BY <1>2, ReadsFacts DEF Agree
<1>3. CASE OnLogout_Req
  BY <1>3 DEF OnLogout_Req, Agree
<1>4. CASE OnlineEnds
  <2>1. on'
    BY <1>4, Zenon DEF OnlineEnds
  <2>2. constate' = "start" /\ UNCHANGED <<npc, event, non>>
    BY <1>4 DEF OnlineEnds
  <2> QED
    BY <2>1, <2>2 DEF Agree
<1>5. CASE OnRequest_Offline
  <2>1. ~on'
    BY <1>5, Zenon DEF OnRequest_Offline
  <2>2. UNCHANGED <<constate, npc, event, non>> /\ ppc' = "offline" /\ pstate' = constate
    BY <1>5 DEF OnRequest_Offline
  <2> QED
    BY <2>1, <2>2 DEF Agree
<1>6. CASE OfflineEnds
  <2>1. UNCHANGED <<on, npc, event, nstate, non>> /\ ppc = "offline"
    BY <1>6 DEF OfflineEnds
  <2>2. ~on
    BY <2>1 DEF Typed
  <2>3. constate' = "wait_disconnect" \/ (constate' = constate /\ pstate = "offline")
    BY <1>6, ProccOnTime
  <2> QED
    BY <2>1, <2>2, <2>3 DEF Agree
<1>7. CASE WriteWait \/ WriteFallback \/ StateTimeout
  <2>1. UNCHANGED <<on, npc, event, nstate, non>> /\ ppc # "offline"
    BY <1>7 DEF WriteWait, WriteFallback, StateTimeout
  <2>2. constate \notin {"offline", "wait_disconnect"} /\ constate' \notin {"offline", "wait_disconnect"}
    BY <1>7, ProccOnTime DEF WaitFor, Fallback, TimeoutTo, Waits
  <2> QED
    BY <2>1, <2>2 DEF Agree
<1>8. CASE CallConnect
  <2>1. UNCHANGED <<on, constate, npc, nstate, non>> /\ ppc # "offline" /\ event'.what = event.what
    BY <1>8 DEF CallConnect, Typed, Event, NoEvent
  <2> QED
    BY <2>1 DEF Agree
<1>9. CASE CallSend \/ CallFails
  <2>1. UNCHANGED <<on, constate, net>> /\ ppc # "offline"
    BY <1>9 DEF CallSend, CallFails
  <2> QED
    BY <2>1 DEF Agree
<1>10. CASE NetTakes
  <2>1. UNCHANGED <<constate, ppc, pstate>> /\ npc = "idle" /\ npc' = "write" /\ nstate' = constate
    BY <1>10 DEF NetTakes
  <2>2. CASE event'.what = "logout_ok"
    <3>1. ~on' /\ ~non'
      BY <1>10, <2>2, Zenon DEF NetTakes
    <3> QED
      BY <2>1, <2>2, <3>1 DEF Agree
  <2>3. CASE event'.what # "logout_ok"
    <3>1. on' = on
      BY <1>10, <2>3, Zenon DEF NetTakes
    <3> QED
      BY <2>1, <2>3, <3>1 DEF Agree
  <2> QED
    BY <2>2, <2>3
<1>11. CASE NetWrites
  <2>1. UNCHANGED <<on, ppc, pstate>> /\ npc = "write" /\ npc' # "write" /\ event.what \in Events
        /\ constate' = NetState
    BY <1>11 DEF NetWrites, Typed, Event
  <2>2. CASE event.what = "logout_ok"
    <3>1. NetState = IF nstate = "offline" THEN constate ELSE "wait_disconnect"
      BY <2>2 DEF NetState, OnLogoutRsp
    <3>2. constate' = constate \/ (constate' = "wait_disconnect" /\ non = on)
      BY <1>11, <2>2, NetOnTime
    <3>3. ~non
      BY <2>1, <2>2 DEF Agree
    <3> QED
      BY <2>1, <2>2, <3>1, <3>2, <3>3 DEF Agree
  <2>3. CASE event.what = "disconnect"
    <3>1. /\ constate' = IF non THEN "start" ELSE "offline"
          /\ constate' = constate \/ non = on
      BY <1>11, <2>3, NetOnTime
    <3> QED
      BY <2>1, <2>3, <3>1 DEF Agree
  <2>4. CASE event.what = "connect"
    <3>1. constate' = constate \/ (constate = "wait_connect" /\ constate' = "connect")
      BY <1>11, <2>4, NetOnTime
    <3> QED
      BY <2>1, <2>4, <3>1 DEF Agree
  <2>5. CASE event.what \notin {"connect", "disconnect", "logout_ok"}
    <3>1. on /\ constate' \notin {"offline", "wait_disconnect"}
      BY <1>11, <2>1, <2>5, NetOnTime DEF Events
    <3> QED
      BY <2>1, <3>1 DEF Agree
  <2> QED
    BY <2>2, <2>3, <2>4, <2>5
<1>12. CASE NetReports
  <2>1. UNCHANGED <<on, constate, ppc, pstate>> /\ npc = "report" /\ npc' # "write"
    BY <1>12 DEF NetReports
  <2> QED
    BY <2>1 DEF Agree
<1>13. CASE SockOpens \/ SockDrops \/ ServerAnswers
  <2>1. UNCHANGED <<on, constate, procc, net>>
    BY <1>13 DEF SockOpens, SockDrops, ServerAnswers
  <2> QED
    BY <2>1 DEF Agree
<1>14. CASE ProccDrops \/ NetDrops
  <2>1. /\ UNCHANGED <<on, constate, pstate, event, nstate, non>>
        /\ ppc = "offline" <=> ppc' = "offline"
        /\ npc = "write" <=> npc' = "write"
    BY <1>14 DEF ProccDrops, NetDrops
  <2> QED
    BY <2>1 DEF Agree
<1> QED
  BY <1>1, <1>2, <1>3, <1>4, <1>5, <1>6, <1>7, <1>8, <1>9, <1>10, <1>11, <1>12, <1>13, <1>14
     DEF Next, ProccStep, NetStep, HostStep, Elsewhere, Reads

(* A step on the inbox: what arrives comes last. *)
LEMMA ArrivesLost ==
    ASSUME Typed, NEW e \in Events, Arrives(e)
    PROVE  /\ \A k \in DOMAIN inbox' :
                 k \in DOMAIN inbox \/ inbox'[k] = [what |-> e, old |-> FALSE]
           /\ \A k \in DOMAIN inbox : inbox'[k] = inbox[k]
           /\ \A k \in Nat : LostAfter(k) => LostAfter(k)'
           /\ DOMAIN inbox \subseteq Nat
           /\ e = "disconnect" => LostAfter(0)' /\ \A k \in DOMAIN inbox : LostAfter(k)'
<1>1. /\ DOMAIN inbox' = DOMAIN inbox \cup {Len(inbox) + 1} /\ Len(inbox) \in Nat
      /\ \A k \in DOMAIN inbox : k \in Nat /\ k >= 1 /\ k < Len(inbox) + 1 /\ inbox'[k] = inbox[k]
      /\ inbox'[Len(inbox) + 1] = [what |-> e, old |-> FALSE]
  BY ArrivesFacts DEF Typed
<1>2. inbox'[Len(inbox) + 1].what = e
  BY <1>1
<1> QED
  BY <1>1, <1>2 DEF LostAfter

(* The inbox without its first event, and with every event made old. *)
LEMMA TakesLost ==
    ASSUME Typed, NetTakes
    PROVE  /\ \A k \in DOMAIN inbox' : /\ k \in Nat /\ k + 1 \in DOMAIN inbox /\ inbox'[k] = inbox[k + 1]
                                       /\ LostAfter(k + 1) => LostAfter(k)'
           /\ 1 \in DOMAIN inbox /\ event' = inbox[1]
           /\ LostAfter(1) => LostAfter(0)'
           /\ LostAfter(0) => event'.what = "disconnect" \/ LostAfter(0)'
<1>1. inbox \in Seq(Event) /\ inbox # <<>> /\ inbox' = Tail(inbox) /\ event' = Head(inbox)
  BY DEF NetTakes, Typed
<1>2. /\ 1 \in DOMAIN inbox /\ Head(inbox) = inbox[1]
      /\ \A k \in DOMAIN inbox : k \in Nat /\ k >= 1
      /\ \A k \in DOMAIN inbox' : k \in Nat /\ k >= 1 /\ k + 1 \in DOMAIN inbox /\ inbox'[k] = inbox[k + 1]
      /\ \A k \in DOMAIN inbox : k = 1 \/ (k - 1 \in DOMAIN inbox' /\ inbox'[k - 1] = inbox[k])
  BY <1>1, TailFacts
<1>3. ASSUME NEW k \in Nat, LostAfter(k + 1) PROVE LostAfter(k)'
  <2>1. PICK j \in DOMAIN inbox : j > k + 1 /\ inbox[j].what = "disconnect"
    BY <1>3 DEF LostAfter
  <2>2. j \in Nat /\ j - 1 \in DOMAIN inbox' /\ inbox'[j - 1] = inbox[j] /\ j - 1 > k
    BY <1>2, <2>1
  <2> QED
    BY <2>1, <2>2 DEF LostAfter
<1>4. LostAfter(1) => LostAfter(0)'
  <2>1. LostAfter(0 + 1) => LostAfter(0)'
    BY <1>3
  <2> QED
    BY <2>1
<1>5. LostAfter(0) => event'.what = "disconnect" \/ LostAfter(0)'
  BY <1>1, <1>2, <1>4 DEF LostAfter
<1> QED
  BY <1>1, <1>2, <1>3, <1>4, <1>5

LEMMA ConnectLost ==
    ASSUME Typed, CallConnect
    PROVE  /\ DOMAIN inbox' = DOMAIN inbox
           /\ \A k \in DOMAIN inbox' : inbox'[k].old /\ inbox'[k].what = inbox[k].what
           /\ event'.what = event.what /\ (npc = "write" => event'.old) /\ npc' = npc
<1>1. \A k \in DOMAIN inbox : inbox[k] \in Event
  BY LenProperties DEF Typed
<1>2. ASSUME NEW k \in DOMAIN inbox PROVE inbox'[k].old /\ inbox'[k].what = inbox[k].what
  BY <1>1 DEF CallConnect, Event
<1>3. event'.what = event.what /\ npc' = npc
  BY DEF CallConnect, Typed, Event, NoEvent
<1>4. npc = "write" => event'.old
  <2> SUFFICES ASSUME npc = "write" PROVE event'.old
    OBVIOUS
  <2>1. event \in Event /\ event # NoEvent
    BY DEF Typed, Event, Events, NoEvent
  <2>2. event' = [event EXCEPT !.old = TRUE]
    BY <2>1 DEF CallConnect
  <2> QED
    BY <2>1, <2>2 DEF Event
<1> QED
  BY <1>2, <1>3, <1>4 DEF CallConnect

(* The server's answer and what it has just become belong together. *)
LEMMA ServerFacts ==
    ASSUME Typed, OpenFirst, ServerAnswers
    PROVE  /\ up' = Tail(up) /\ up # <<>> /\ UNCHANGED <<client, procc, net, sock, late>>
           /\ session # "none" => session' # "none"
           /\ session = "registered" => session' = "registered"
           /\ session' = "registered" => session = "registered" \/ Head(up) # "open"
           /\ \/ UNCHANGED inbox
              \/ \E e \in Events : /\ Arrives(e)
                                   /\ e = "open_ok" => session' # "none"
                                   /\ e \in {"auth_ok", "newreg_ok"} => session' = "registered"
<1>1. /\ up' = Tail(up) /\ up # <<>> /\ UNCHANGED <<client, procc, net, sock, late>>
  BY DEF ServerAnswers
<1>2. Head(up) \in Messages /\ 1 \in DOMAIN up /\ Head(up) = up[1]
  BY <1>1, TailFacts DEF Typed
<1>3. session = "registered" => Head(up) # "open"
  BY <1>2 DEF OpenFirst
<1>4. CASE UNCHANGED <<inbox, session>>
  BY <1>1, <1>4
<1>5. ASSUME NEW e \in Good[Head(up)], Arrives(e),
             session' = CASE Head(up) = "open" -> "opened"
                          [] Head(up) \in {"auth", "newreg"} -> "registered"
                          [] OTHER -> session
      PROVE  /\ e \in Events
             /\ session # "none" => session' # "none"
             /\ session = "registered" => session' = "registered"
             /\ session' = "registered" => session = "registered" \/ Head(up) # "open"
             /\ e = "open_ok" => session' # "none"
             /\ e \in {"auth_ok", "newreg_ok"} => session' = "registered"
  BY <1>2, <1>3, <1>5 DEF Good, Messages, Events
<1>6. ASSUME NEW e \in Bad[Head(up)], Arrives(e), UNCHANGED session
      PROVE  e \in Events \ {"open_ok", "auth_ok", "newreg_ok"}
  BY <1>2, <1>6 DEF Bad, Messages, Events
<1>7. \/ UNCHANGED <<inbox, session>>
      \/ \E e \in Good[Head(up)] :
            /\ Arrives(e)
            /\ session' = CASE Head(up) = "open" -> "opened"
                            [] Head(up) \in {"auth", "newreg"} -> "registered"
                            [] OTHER -> session
      \/ \E e \in Bad[Head(up)] : Arrives(e) /\ UNCHANGED session
  BY DEF ServerAnswers
<1> QED
  BY <1>1, <1>4, <1>5, <1>6, <1>7

LEMMA StepAnswered ==
    ASSUME Typed, Answered, OpenFirst, [Next]_vars
    PROVE  Answered'
<1> USE DEF client, procc, net, host, app, bounds
<1>1. ASSUME UNCHANGED <<inbox, session>>, npc' = "write" => npc = "write" /\ event' = event
      PROVE  Answered'
  <2>1. \A k : LostAfter(k)' = LostAfter(k)
    BY <1>1 DEF LostAfter
  <2> QED
    BY <1>1, <2>1 DEF Answered, Vouched
<1>2. ASSUME Closed, npc' = "write" => npc = "write" /\ event' = event
      PROVE  Answered'
  <2>1. /\ \A k \in DOMAIN inbox' : k \in DOMAIN inbox \/ inbox'[k] = [what |-> "disconnect", old |-> FALSE]
        /\ LostAfter(0)' /\ \A k \in DOMAIN inbox : LostAfter(k)'
    BY <1>2, ArrivesLost DEF Closed, Events
  <2>2. \A k \in DOMAIN inbox' : k \in DOMAIN inbox \/ inbox'[k].what = "disconnect"
    BY <2>1
  <2> QED
    BY <2>1, <2>2 DEF Answered, Vouched
<1>3. ASSUME NEW e \in Events, Arrives(e), UNCHANGED <<npc, event>>,
             session # "none" => session' # "none", session = "registered" => session' = "registered",
             e = "open_ok" => session' # "none",
             e \in {"auth_ok", "newreg_ok"} => session' = "registered"
      PROVE  Answered'
  <2>1. /\ \A k \in DOMAIN inbox' : k \in DOMAIN inbox \/ inbox'[k] = [what |-> e, old |-> FALSE]
        /\ \A k \in DOMAIN inbox : inbox'[k] = inbox[k]
        /\ \A k \in DOMAIN inbox \cup {0} : LostAfter(k) => LostAfter(k)'
    BY <1>3, ArrivesLost
  <2>2. ASSUME NEW k \in DOMAIN inbox' PROVE Vouched(inbox[k])' \/ LostAfter(k)'
    <3>1. CASE k \in DOMAIN inbox
      BY <1>3, <2>1, <3>1 DEF Answered, Vouched
    <3>2. CASE inbox'[k] = [what |-> e, old |-> FALSE]
      <4>1. inbox'[k].what = e
        BY <3>2
      <4> QED
        BY <1>3, <4>1 DEF Vouched
    <3> QED
      BY <2>1, <3>1, <3>2
  <2>3. npc' = "write" => Vouched(event)' \/ LostAfter(0)'
    BY <1>3, <2>1 DEF Answered, Vouched
  <2> QED
    BY <2>2, <2>3 DEF Answered
<1>5. CASE CallConnect
  BY <1>5, ConnectLost DEF Answered, Vouched
<1>6. CASE NetTakes
  <2>1. UNCHANGED session /\ npc' = "write"
    BY <1>6 DEF NetTakes
  <2> QED
    BY <1>6, <2>1, TakesLost DEF Answered, Vouched
<1>7. CASE NetWrites
  <2>1. npc' # "write" /\ UNCHANGED <<inbox, session>>
    BY <1>7 DEF NetWrites
  <2> QED
    BY <1>1, <2>1
<1>8. CASE ProccDrops \/ NetDrops
  <2>1. Disconnect /\ (npc' = "write" => npc = "write" /\ event' = event)
    BY <1>8 DEF ProccDrops, NetDrops
  <2> QED
    BY <1>1, <1>2, <2>1 DEF Disconnect
<1>9. CASE SockDrops
  BY <1>2, <1>9 DEF SockDrops
<1>10. CASE SockOpens
  BY <1>3, <1>10 DEF SockOpens, Events
<1>11. CASE ServerAnswers
  <2>1. UNCHANGED <<npc, event>>
    BY <1>11 DEF ServerAnswers
  <2>2. CASE UNCHANGED inbox
    <3>1. \A k : LostAfter(k)' = LostAfter(k)
      BY <2>2 DEF LostAfter
    <3>2. /\ session # "none" => session' # "none"
          /\ session = "registered" => session' = "registered"
      BY <1>11, ServerFacts
    <3> QED
      BY <2>1, <2>2, <3>1, <3>2 DEF Answered, Vouched
  <2>3. CASE \E e \in Events : /\ Arrives(e)
                               /\ e = "open_ok" => session' # "none"
                               /\ e \in {"auth_ok", "newreg_ok"} => session' = "registered"
    <3>1. /\ session # "none" => session' # "none"
          /\ session = "registered" => session' = "registered"
      BY <1>11, ServerFacts
    <3> QED
      BY <1>3, <2>1, <2>3, <3>1
  <2> QED
    BY <1>11, <2>2, <2>3, ServerFacts
<1>12. CASE Elsewhere
  BY <1>1, <1>12, ElsewhereFacts
<1>13. CASE Reads
  BY <1>1, <1>13, ReadsFacts
<1>14. CASE \/ OnLogout_Req \/ OnlineEnds \/ OnRequest_Offline \/ OfflineEnds
            \/ WriteWait \/ WriteFallback \/ StateTimeout \/ CallSend \/ CallFails \/ NetReports
  <2>1. UNCHANGED <<inbox, session>> /\ (npc' = "write" => npc = "write" /\ event' = event)
    BY <1>14 DEF OnLogout_Req, OnlineEnds, OnRequest_Offline, OfflineEnds, WriteWait, WriteFallback, StateTimeout,
                 CallSend, CallFails, NetReports
  <2> QED
    BY <1>1, <2>1
<1> QED
  BY <1>5, <1>6, <1>7, <1>8, <1>9, <1>10, <1>11, <1>12, <1>13, <1>14
     DEF Next, ProccStep, NetStep, HostStep, Elsewhere, Reads

(* What the client sends joins the end of what is on its way. *)
LEMMA SendsFacts ==
    ASSUME Typed, NEW m \in Messages, up' = Append(up, m)
    PROVE  /\ \A k \in DOMAIN up' : k \in Nat /\ (k \in DOMAIN up \/ (k = Len(up) + 1 /\ up'[k] = m))
           /\ \A k \in DOMAIN up : k < Len(up) + 1 /\ up'[k] = up[k]
           /\ Len(up) \in Nat
<1>1. up \in Seq(Messages)
  BY DEF Typed
<1> QED
  BY <1>1, AppendFacts

LEMMA StepOpenFirst ==
    ASSUME Typed, OpenFirst, Linked, [Next]_vars, ~late'
    PROVE  OpenFirst'
<1> USE DEF client, procc, net, host, app, bounds
<1>1. ASSUME UNCHANGED <<up, session>>, ppc' = "call" => ppc = "call" /\ pstate' = pstate
      PROVE  OpenFirst'
  BY <1>1 DEF OpenFirst, Fresh
<1>2. ASSUME up' = <<>>, session' = "none" PROVE OpenFirst'
  <2>1. DOMAIN up' = {}
    BY <1>2
  <2> QED
    BY <1>2, <2>1 DEF OpenFirst, Fresh
<1>3. ASSUME NEW m \in Messages \ {"open"}, up' = Append(up, m), UNCHANGED session, ppc' # "call"
      PROVE  OpenFirst'
  BY <1>3, SendsFacts DEF OpenFirst
<1>4. CASE WriteWait
  <2>1. UNCHANGED <<up, session, pstate>> /\ ppc = "act"
    BY <1>4 DEF WriteWait
  <2>2. constate = pstate
    BY <1>4, ProccOnTime
  <2>3. pstate = "connect" => Fresh
    BY <2>1, <2>2 DEF Linked, Linking, Dialling
  <2> QED
    BY <2>1, <2>3 DEF OpenFirst, Fresh
<1>5. CASE CallConnect
  BY <1>2, <1>5 DEF CallConnect
<1>6. CASE CallSend
  <2>1. UNCHANGED session /\ ppc = "call" /\ ppc' = "loop" /\ pstate \in DOMAIN Message
        /\ (up' = up \/ up' = Append(up, Message[pstate]))
    BY <1>6 DEF CallSend, CallDone
  <2>2. CASE up' = up
    BY <1>1, <2>1, <2>2
  <2>3. CASE up' = Append(up, Message[pstate]) /\ pstate = "connect"
    <3>1. Fresh
      BY <2>1, <2>3 DEF OpenFirst
    <3>2. Message[pstate] = "open"
      BY <2>3 DEF Message, GenOpen
    <3>3. \A k \in DOMAIN up' : up'[k] = "open"
      BY <2>3, <3>1, <3>2, SendsFacts DEF Fresh, Messages
    <3> QED
      BY <2>1, <3>1, <3>3 DEF OpenFirst, Fresh
  <2>4. CASE up' = Append(up, Message[pstate]) /\ pstate # "connect"
    <3>1. Message[pstate] \in Messages \ {"open"}
      BY <2>1, <2>4 DEF Message, Messages, GenOpen, GenRegister, GenRegisterNewReg, GenRegisterAuth
    <3> QED
      BY <1>3, <2>1, <2>4, <3>1
  <2> QED
    BY <2>1, <2>2, <2>3, <2>4
<1>7. CASE OnLogout_Req
  <2>1. UNCHANGED session /\ ppc' = ppc /\ ppc = "loop" /\ (up' = up \/ up' = Append(up, "logout"))
    BY <1>7 DEF OnLogout_Req, Taken
  <2> QED
    BY <1>1, <1>3, <2>1 DEF Messages
<1>8. CASE ProccDrops \/ NetDrops
  <2>1. Disconnect /\ (ppc' = "call" => ppc = "call" /\ pstate' = pstate)
    BY <1>8 DEF ProccDrops, NetDrops
  <2> QED
    BY <1>1, <1>2, <2>1 DEF Disconnect, Closed
<1>10. CASE SockDrops
  BY <1>2, <1>10 DEF SockDrops, Closed
<1>11. CASE ServerAnswers
  <2>1. up' = Tail(up) /\ up # <<>> /\ UNCHANGED procc /\ up \in Seq(Messages)
    BY <1>11, ServerFacts DEF Typed
  <2>2. /\ session = "registered" => session' = "registered"
        /\ session' = "registered" => session = "registered" \/ Head(up) # "open"
    BY <1>11, ServerFacts
  <2>3. /\ Head(up) = up[1] /\ 1 \in DOMAIN up
        /\ \A k \in DOMAIN up' : k \in Nat /\ k >= 1 /\ k + 1 \in DOMAIN up /\ up'[k] = up[k + 1]
    BY <2>1, TailFacts
  <2>4. session' = "registered" => \A k \in DOMAIN up' : up'[k] # "open"
    <3>1. CASE session = "registered"
      BY <2>3, <3>1 DEF OpenFirst
    <3>2. CASE Head(up) # "open"
      <4>1. \A k \in DOMAIN up' : 1 < k + 1 /\ k + 1 \in DOMAIN up /\ up'[k] = up[k + 1]
        BY <2>3
      <4> QED
        BY <2>3, <3>2, <4>1 DEF OpenFirst
    <3> QED
      BY <2>2, <3>1, <3>2
  <2>5. ASSUME NEW j \in DOMAIN up', NEW k \in DOMAIN up', j < k, up'[k] = "open" PROVE up'[j] = "open"
    <3>1. j + 1 < k + 1 /\ j + 1 \in DOMAIN up /\ k + 1 \in DOMAIN up /\ up[k + 1] = "open"
      BY <2>3, <2>5
    <3>2. up[j + 1] = "open"
      BY <3>1 DEF OpenFirst
    <3> QED
      BY <2>3, <3>2
  <2>6. Fresh => Fresh'
    BY <2>2, <2>3 DEF Fresh
  <2> QED
    BY <2>1, <2>4, <2>5, <2>6 DEF OpenFirst
<1>12. CASE Elsewhere
  BY <1>1, <1>12, ElsewhereFacts
<1>13. CASE Reads
  BY <1>1, <1>13, ReadsFacts
<1>14. CASE \/ OnlineEnds \/ OnRequest_Offline \/ WriteFallback \/ StateTimeout \/ CallFails
            \/ OfflineEnds \/ NetTakes \/ NetWrites \/ NetReports \/ SockOpens
  <2>1. UNCHANGED <<up, session>> /\ (ppc' = "call" => ppc = "call" /\ pstate' = pstate)
    BY <1>14 DEF OnlineEnds, OnRequest_Offline, WriteFallback, StateTimeout, CallFails, CallDone,
                 OfflineEnds, NetTakes, NetWrites, NetReports, SockOpens
  <2> QED
    BY <1>1, <2>1
<1> QED
  BY <1>4, <1>5, <1>6, <1>7, <1>8, <1>10, <1>11, <1>12, <1>13, <1>14
     DEF Next, ProccStep, NetStep, HostStep, Elsewhere, Reads

(* OnDisconnect stays on its way until it writes. *)
LEMMA LostFrame ==
    ASSUME UNCHANGED inbox, npc = "write" => npc' = "write" /\ event' = event
    PROVE  Lost => Lost'
  BY DEF Lost, LostAfter

LEMMA StepLinked ==
    ASSUME Typed, Answered, OpenFirst, Linked, [Next]_vars, ~late'
    PROVE  Linked'
<1> USE DEF client, procc, net, host, app, bounds
(* Steps after which nothing is claimed of the socket and the server. *)
<1>1. ASSUME constate' \notin Linking \cup Registering PROVE Linked'
  BY <1>1 DEF Linked, Linking, Registering
(* Steps that leave the state, the socket and the server alone. *)
<1>2. ASSUME UNCHANGED <<constate, up, session>>, sock # "closed" => sock' # "closed", Lost => Lost',
             Dialling' = Dialling, ppc' = "call" => ppc = "call" /\ pstate' = pstate
      PROVE  Linked'
  BY <1>2 DEF Linked, Fresh
<1>3. ASSUME sock' = "closed", up' = <<>>, session' = "none", Arrives("disconnect"),
             UNCHANGED <<constate, ppc, pstate>>
      PROVE  Linked'
  <2>1. Lost'
    BY <1>3, ArrivesLost DEF Lost, Events
  <2>2. Fresh'
    BY <1>3 DEF Fresh
  <2> QED
    BY <1>3, <2>1, <2>2 DEF Linked, Dialling
<1>4. CASE Elsewhere
  <2>1. /\ UNCHANGED <<constate, ppc, pstate, event, sock, up, inbox, session>>
        /\ npc = "write" => npc' = "write"
    BY <1>4, ElsewhereFacts
  <2>2. (Lost => Lost') /\ Dialling' = Dialling
    BY <2>1, LostFrame DEF Dialling
  <2> QED
    BY <1>2, <2>1, <2>2
<1>5. CASE Reads
  <2>1. /\ UNCHANGED <<constate, npc, event, sock, up, inbox, session>>
        /\ ppc \notin {"call", "fallback"} /\ ppc' \notin {"call", "fallback"}
    BY <1>5, ReadsFacts
  <2>2. (Lost => Lost') /\ Dialling' = Dialling
    BY <2>1, LostFrame DEF Dialling
  <2> QED
    BY <1>2, <2>1, <2>2
<1>6. CASE OnRequest_Offline \/ CallFails
  <2>1. /\ UNCHANGED <<constate, npc, event, sock, up, inbox, session>>
        /\ ppc' # "call" /\ Dialling' = Dialling
    BY <1>6 DEF OnRequest_Offline, Taken, CallFails, CallDone, Dialling
  <2>2. Lost => Lost'
    BY <2>1, LostFrame
  <2> QED
    BY <1>2, <2>1, <2>2
<1>7. CASE OnlineEnds
  BY <1>1, <1>7 DEF OnlineEnds, Linking, Registering
<1>8. CASE OfflineEnds
  <2>1. CASE constate' = "wait_disconnect"
    BY <1>1, <2>1 DEF Linking, Registering
  <2>2. CASE UNCHANGED constate
    <3>1. UNCHANGED <<npc, event, sock, up, inbox, session>> /\ ppc' # "call" /\ Dialling' = Dialling
      BY <1>8 DEF OfflineEnds, Dialling
    <3>2. Lost => Lost'
      BY <3>1, LostFrame
    <3> QED
      BY <1>2, <2>2, <3>1, <3>2
  <2> QED
    BY <1>8, <2>1, <2>2, ProccOnTime
<1>9. CASE OnLogout_Req
  <2>1. UNCHANGED <<constate, ppc, pstate, npc, event, sock, inbox, session>> /\ ppc = "loop"
        /\ (up' = up \/ constate = "online")
    BY <1>9 DEF OnLogout_Req, Taken
  <2>2. (Lost => Lost') /\ Dialling' = Dialling
    BY <2>1, LostFrame DEF Dialling
  <2>3. CASE constate = "online"
    BY <2>1, <2>2, <2>3 DEF Linked, Linking
  <2> QED
    BY <1>2, <2>1, <2>2, <2>3
<1>10. CASE WriteWait
  <2>1. UNCHANGED <<npc, event, sock, up, inbox, session, pstate>> /\ ppc = "act" /\ ppc' = "call"
    BY <1>10 DEF WriteWait
  <2>2. constate = pstate /\ constate' = WaitFor[pstate] /\ pstate \in DOMAIN WaitFor
    BY <1>10, ProccOnTime
  <2>3. (Lost => Lost') /\ ~Dialling /\ (Dialling' <=> pstate = "start") /\ (Fresh => Fresh')
    BY <2>1, LostFrame DEF Dialling, Fresh
  <2>4. CASE pstate = "start"
    BY <2>1, <2>2, <2>3, <2>4 DEF Linked, Linking, Registering, WaitFor
  <2>5. CASE pstate = "connect"
    BY <2>1, <2>2, <2>3, <2>5 DEF Linked, Linking, Registering, WaitFor
  <2>6. CASE pstate \in {"open", "need_req", "need_auth"}
    BY <2>1, <2>2, <2>3, <2>6 DEF Linked, Linking, Registering, WaitFor
  <2> QED
    BY <2>2, <2>4, <2>5, <2>6 DEF WaitFor
<1>11. CASE CallConnect
  <2>1. /\ UNCHANGED constate /\ Dialling /\ ppc' = "loop"
        /\ sock' = "connecting" /\ up' = <<>> /\ session' = "none"
    BY <1>11 DEF CallConnect, CallDone, Dialling
  <2>2. Fresh'
    BY <2>1 DEF Fresh
  <2> QED
    BY <2>1, <2>2 DEF Linked, Dialling, Registering
<1>12. CASE CallSend
  <2>1. /\ UNCHANGED <<constate, npc, event, sock, inbox, session>> /\ ppc = "call" /\ ppc' = "loop"
        /\ pstate \in DOMAIN Message /\ (up' = up \/ up' = Append(up, Message[pstate]))
    BY <1>12 DEF CallSend, CallDone
  <2>2. (Lost => Lost') /\ ~Dialling /\ ~Dialling'
    BY <2>1, LostFrame DEF Dialling, Message
  <2>3. constate \in Linking => Fresh'
    <3> SUFFICES ASSUME constate \in Linking PROVE Fresh'
      OBVIOUS
    <3>1. Fresh /\ pstate = "connect"
      BY <2>1, <2>2 DEF Linked, Message
    <3>2. Message[pstate] = "open"
      BY <3>1 DEF Message, GenOpen
    <3> QED
      BY <2>1, <3>1, <3>2, SendsFacts DEF Fresh, Messages
  <2> QED
    BY <2>1, <2>2, <2>3 DEF Linked
<1>13. CASE WriteFallback \/ StateTimeout
  <2>1. UNCHANGED <<npc, event, sock, up, inbox, session>> /\ ppc' = "loop"
    BY <1>13 DEF WriteFallback, StateTimeout, CallDone
  <2>2. \/ constate' = "start"
        \/ constate = "wait_open" /\ constate' = "connect"
        \/ constate \in {"wait_reg", "wait_reg_newreg", "wait_reg_auth"} /\ constate' = "open"
    <3>1. CASE WriteFallback
      BY <3>1, ProccOnTime DEF WaitFor, Fallback
    <3>2. CASE StateTimeout
      BY <3>2, ProccOnTime DEF Waits, TimeoutTo
    <3> QED
      BY <1>13, <3>1, <3>2
  <2>3. (Lost => Lost') /\ ~Dialling' /\ (Fresh => Fresh')
    BY <2>1, LostFrame DEF Dialling, Fresh
  <2> QED
    BY <1>1, <2>1, <2>2, <2>3 DEF Linked, Linking, Registering
<1>14. CASE NetTakes
  <2>1. UNCHANGED <<constate, up, session, sock, ppc, pstate>> /\ npc = "idle" /\ npc' = "write"
    BY <1>14 DEF NetTakes
  <2>2. Lost => Lost'
    BY <1>14, <2>1, TakesLost DEF Lost
  <2>3. Dialling' = Dialling
    BY <2>1 DEF Dialling
  <2> QED
    BY <1>2, <2>1, <2>2, <2>3
<1>15. CASE NetReports
  <2>1. UNCHANGED <<constate, up, session, sock, inbox, ppc, pstate>> /\ npc = "report"
    BY <1>15 DEF NetReports
  <2>2. (Lost => Lost') /\ Dialling' = Dialling
    BY <2>1, LostFrame DEF Dialling
  <2> QED
    BY <1>2, <2>1, <2>2
<1>16. CASE NetWrites
  <2>1. UNCHANGED <<ppc, pstate>> /\ npc = "write" /\ event.what \in Events /\ constate' = NetState
    BY <1>16 DEF NetWrites, Typed, Event
  <2>2. CASE event.what = "disconnect"
    BY <1>1, <1>16, <2>2, NetOnTime DEF Linking, Registering
  <2>3. CASE event.what = "logout_ok" /\ nstate # "offline"
    <3>1. NetState = "wait_disconnect"
      BY <2>3 DEF NetState, OnLogoutRsp
    <3> QED
      BY <1>1, <2>1, <3>1 DEF Linking, Registering
  <2>4. CASE ~(event.what = "logout_ok" /\ nstate # "offline") /\ event.what # "disconnect"
    <3>1. UNCHANGED <<sock, up, inbox, session>>
      BY <1>16 DEF NetWrites
    <3>2. (LostAfter(0) => Lost') /\ (Lost => Lost') /\ Dialling' = Dialling /\ Fresh' = Fresh
      BY <2>1, <2>4, <3>1 DEF Lost, LostAfter, Dialling, Fresh
    <3>3. CASE constate' = constate
      BY <1>2, <2>1, <3>1, <3>2, <3>3
    <3>4. CASE constate = "wait_connect" /\ constate' = "connect"
      BY <2>1, <3>1, <3>2, <3>4 DEF Linked, Linking, Registering
    <3>5. CASE constate = "wait_open" /\ constate' = "connect"
      BY <2>1, <3>1, <3>2, <3>5 DEF Linked, Linking, Registering
    <3>6. CASE constate = "wait_open" /\ constate' = "open" /\ event.what = "open_ok" /\ ~event.old
      <4>1. session # "none" \/ Lost'
        BY <2>1, <3>2, <3>6 DEF Answered, Vouched
      <4> QED
        BY <2>1, <3>1, <3>2, <3>6, <4>1 DEF Linked, Linking, Registering
    <3>7. CASE /\ constate \in {"wait_reg", "wait_reg_auth", "wait_reg_newreg"}
               /\ constate' \in {"need_auth", "need_req", "open"}
      BY <2>1, <3>1, <3>2, <3>7 DEF Linked, Linking, Registering
    <3>8. CASE /\ event.what \in {"auth_ok", "newreg_ok"} /\ ~event.old /\ constate' = "online"
               /\ constate \in {"wait_reg_auth", "wait_reg_newreg"}
      <4>1. session = "registered" \/ Lost'
        BY <2>1, <3>2, <3>8 DEF Answered, Vouched
      <4> QED
        BY <2>1, <3>1, <3>2, <3>8, <4>1 DEF Linked, Linking, Registering
    <3>9. event.what = "logout_ok" => constate' = constate
      BY <2>1, <2>4 DEF NetState, OnLogoutRsp
    <3> QED
      BY <1>16, <2>1, <2>4, <3>3, <3>4, <3>5, <3>6, <3>7, <3>8, <3>9, NetOnTime DEF Events
  <2> QED
    BY <2>2, <2>3, <2>4
<1>17. CASE SockDrops
  BY <1>3, <1>17 DEF SockDrops, Closed
<1>20. CASE ProccDrops \/ NetDrops
  <2>1. /\ Disconnect /\ UNCHANGED <<constate, pstate, event>> /\ (npc # "write" \/ npc' = npc)
        /\ (ppc' = ppc \/ (ppc = "drop" /\ ppc' = "loop"))
    BY <1>20 DEF ProccDrops, NetDrops
  <2>2. Dialling' = Dialling /\ (ppc' = "call" => ppc = "call")
    BY <2>1 DEF Dialling
  <2>3. CASE UNCHANGED host
    BY <1>2, <2>1, <2>2, <2>3, LostFrame
  <2>4. CASE Closed
    <3>1. Lost' /\ Fresh'
      BY <2>4, ArrivesLost DEF Closed, Lost, Fresh, Events
    <3> QED
      BY <2>1, <2>2, <2>4, <3>1 DEF Linked
  <2> QED
    BY <2>1, <2>3, <2>4 DEF Disconnect
<1>18. CASE SockOpens
  <2>1. UNCHANGED <<constate, up, session, npc, event, ppc, pstate>> /\ sock' = "open" /\ Arrives("connect")
    BY <1>18 DEF SockOpens
  <2>2. (Lost => Lost') /\ Dialling' = Dialling
    BY <2>1, ArrivesLost DEF Lost, Dialling, Events
  <2> QED
    BY <1>2, <2>1, <2>2
<1>19. CASE ServerAnswers
  <2>1. /\ up' = Tail(up) /\ up # <<>> /\ UNCHANGED <<constate, ppc, pstate, npc, event, sock>>
        /\ session # "none" => session' # "none"
        /\ session = "registered" => session' = "registered"
        /\ session' = "registered" => session = "registered" \/ Head(up) # "open"
        /\ up \in Seq(Messages)
    BY <1>19, ServerFacts DEF Typed
  <2>2. Lost => Lost'
    <3>1. CASE UNCHANGED inbox
      BY <2>1, <3>1, LostFrame
    <3>2. ASSUME NEW e \in Events, Arrives(e) PROVE Lost => Lost'
      BY <2>1, <3>2, ArrivesLost DEF Lost
    <3> QED
      BY <1>19, <3>1, <3>2, ServerFacts
  <2>3. Fresh => Fresh'
    <3>1. /\ Head(up) = up[1] /\ 1 \in DOMAIN up
          /\ \A k \in DOMAIN up' : k + 1 \in DOMAIN up /\ up'[k] = up[k + 1]
      BY <2>1, TailFacts
    <3> QED
      BY <2>1, <3>1 DEF Fresh
  <2> QED
    BY <2>1, <2>2, <2>3 DEF Linked, Dialling
<1> QED
  BY <1>4, <1>5, <1>6, <1>7, <1>8, <1>9, <1>10, <1>11, <1>12, <1>13, <1>14, <1>15, <1>16, <1>17, <1>18, <1>19,
     <1>20 DEF Next, ProccStep, NetStep, HostStep, Elsewhere, Reads

LEMMA CalmAlways == Spec => []Calm
<1>1. Init => Calm
  <2> SUFFICES ASSUME Init PROVE Answered /\ OpenFirst /\ Linked /\ Agree
    BY DEF Calm
  <2>1. DOMAIN inbox = {} /\ DOMAIN up = {} /\ npc = "idle" /\ ppc = "loop" /\ constate = "offline"
        /\ session = "none"
    BY DEF Init
  <2>2. ~on
    BY Zenon DEF Init
  <2>3. Answered /\ OpenFirst
    BY <2>1 DEF Answered, OpenFirst
  <2>4. Linked
    BY <2>1 DEF Linked, Linking, Registering, Dialling
  <2>5. Agree
    BY <2>1, <2>2 DEF Agree
  <2> QED
    BY <2>3, <2>4, <2>5
<1>2. Typed /\ Calm /\ [Next]_vars => Calm'
  <2> SUFFICES ASSUME Typed, Calm, [Next]_vars, ~late'
               PROVE  Answered' /\ OpenFirst' /\ Linked' /\ Agree'
    BY Zenon DEF Calm
  <2>1. ~late
    BY LateStays, Zenon
  <2>2. Answered /\ OpenFirst /\ Linked /\ Agree
    BY <2>1, Zenon DEF Calm
  <2> QED
    BY <2>2, StepAnswered, StepOpenFirst, StepLinked, StepAgree, Zenon
<1> QED
  BY <1>1, <1>2, TypedAlways, PTL DEF Spec

(* A client that is online was registered by the server on the connection  *)
(* it has, or OnDisconnect is on its way, unless a thread has acted on an  *)
(* outdated view.                                                          *)
THEOREM OnlineMeansRegistered == Spec => []OnlineIsRegistered
<1>1. Calm => OnlineIsRegistered
  <2> SUFFICES ASSUME Calm, constate = "online", ~late
               PROVE  session = "registered" \/ event.what = "disconnect"
                      \/ \E k \in DOMAIN inbox : inbox[k].what = "disconnect"
    BY Zenon DEF OnlineIsRegistered
  <2>1. session = "registered" \/ Lost
    BY Zenon DEF Calm, Linked
  <2> QED
    BY <2>1, Zenon DEF Lost, LostAfter
<1> QED
  BY <1>1, CalmAlways, PTL

(* The client never comes to rest where nobody would move it on, however   *)
(* requests, losses, refusals, early timeouts and the two threads          *)
(* interleave, unless one of them has acted on an outdated view.           *)
THEOREM NeverStuckInTime == Spec => []StuckOnlyByRace
<1>1. Typed /\ Calm => StuckOnlyByRace
  <2> SUFFICES ASSUME Typed, Calm, Stuck, ~late PROVE FALSE
    BY Zenon DEF StuckOnlyByRace
  <2>1. Linked /\ Agree
    BY Zenon DEF Calm
  <2>2. inbox = <<>> /\ npc = "idle" /\ sock # "connecting" /\ ppc = "loop"
        /\ sock \in {"closed", "connecting", "open"}
    BY DEF Stuck, Quiet, Typed, Places
  <2>3. ~Lost /\ ~Dialling
    BY <2>2 DEF Lost, LostAfter, Dialling
  <2>4. CASE on
    BY <2>1, <2>2, <2>3, <2>4 DEF Stuck, Linked, Agree, Linking, Registering
  <2>5. CASE ~on
    BY <2>1, <2>2, <2>3, <2>5 DEF Stuck, Agree
  <2> QED
    BY <2>4, <2>5
<1> QED
  BY <1>1, TypedAlways, CalmAlways, PTL

=============================================================================
