------------------------ MODULE RequestTimersProofs ------------------------
(***************************************************************************)
(* The requests.  What holds of RequestTimers for any ids, any tables, any *)
(* clock and any interleaving of the application, Procc and the network    *)
(* thread; and, at the end, what RequestBuilder loses of the parameters of *)
(* a request, for any handlers and any lengths.                            *)
(***************************************************************************)
EXTENDS RequestTimers, RequestBuilder, SequenceTheorems, TLAPS

Wires == {<<Request(n).wire[1], Request(n).wire[2], "rsp">> : n \in Names}
         \cup {m[2] : m \in Unasked}

(* What SendResp may be given. *)
Objects == [class : Cases \cup {Request(n).fail : n \in Names} \cup {Dispatch(w).class : w \in Wires},
            kind  : {"Rsp", "Ind"},
            why   : Whys]

Entry == [id : Ids, tick : 0..TickMod - 1, age : 0..MaxStall]

Typed == TypeOK /\ answers \in [Ids -> Seq(Objects)]

Waiting(id) == \E k \in DOMAIN input : input[k] = id
Queued(id) == \E k \in DOMAIN itimers : itimers[k].id = id
AtServer(id) == \E m \in server : m[1] = id

(* Nothing of this request has left the client yet. *)
Unsent(id) == asked[id] = None \/ Waiting(id) \/ (cur = id /\ ppc # "start")

(* Where a request is: each id is in the queue once, or in Procc's hand, or *)
(* past it.  Procc holds the lock exactly while it scans.                  *)
Hands ==
    /\ cur # None <=> ppc \in {"gate", "send", "start"}
    /\ timers_lock = Procc <=> ppc = "scan"
    /\ npc = "erase" => nid # None
    /\ cur # None => asked[cur] # None
    /\ \A k \in DOMAIN input : asked[input[k]] # None /\ input[k] # cur
    /\ \A j, k \in DOMAIN input : input[j] = input[k] => j = k

(* What has gone to the server is a request that was asked for. *)
Sent == \A m \in server : /\ m[1] \in Ids /\ asked[m[1]] # None
                          /\ m[2] = Request(asked[m[1]]).wire
                          /\ m = <<m[1], m[2]>>

(* A request that Procc has not finished with has no timer, and no answer  *)
(* but a reply that came before StartTimer.                                *)
Untouched ==
    \A id \in Ids :
        /\ Unsent(id) \/ cur = id => /\ ~Queued(id)
                                     /\ ~HasAnswer(id, "fail") /\ ~HasAnswer(id, "timeout")
        /\ Unsent(id) => ~AtServer(id) /\ ~HasAnswer(id, "reply")

(* A command in the map is the one of the id's request and has its entry   *)
(* in the queue, where no id comes twice.                                  *)
Entries ==
    /\ \A id \in DOMAIN timers : Queued(id) /\ timers[id] = Request(asked[id]).timer
    /\ \A j, k \in DOMAIN itimers : itimers[j].id = itimers[k].id => j = k

(* An answer of each kind leaves nothing behind that could make another. *)
Once ==
    \A id \in Ids :
        /\ HasAnswer(id, "timeout") => ~Queued(id)
        /\ HasAnswer(id, "reply") => ~AtServer(id)
        /\ HasAnswer(id, "fail") => /\ ~Queued(id) /\ ~AtServer(id)
                                    /\ ~HasAnswer(id, "reply") /\ ~HasAnswer(id, "timeout")
        /\ \A why \in Whys \ {"unasked"} : \A j, k \in Count(id, why) : j = k

(* A request that has its reply and its timer, or will have it as soon as  *)
(* StartTimer runs, met one of the two races.                              *)
Race ==
    \A id \in Ids :
        HasAnswer(id, "reply") /\ (id \in DOMAIN timers \/ cur = id)
        => (npc = "erase" /\ nid = id) \/ id \in overtaken

Safe == Typed /\ Hands /\ Sent /\ Untouched /\ Entries /\ Once /\ Race

(* The age of an entry is the distance of its tick from the clock, and the *)
(* older come first.  TestTimers works with a tick that no entry is        *)
(* younger than.                                                           *)
Since(now, t) == (now - t.tick) % TickMod

Timing ==
    /\ \A k \in DOMAIN itimers : Since(clock, itimers[k]) = itimers[k].age
    /\ \A j, k \in DOMAIN itimers : j < k => itimers[j].age >= itimers[k].age
    /\ ppc \in {"lock", "scan"} =>
          /\ \A k \in DOMAIN itimers : Since(tick, itimers[k]) <= itimers[k].age
          /\ \A j, k \in DOMAIN itimers :
                j < k => Since(tick, itimers[j]) >= Since(tick, itimers[k])

(* A message whose timer is about to be erased has answered its request,   *)
(* or has been noted as one that does not.                                 *)
Erasing == npc = "erase" /\ nid \in Ids => answers[nid] # <<>> \/ nid \in overheard

IInv == Safe /\ Timing

-----------------------------------------------------------------------------
(* Sequences and counts *)

(* A sequence without its first element, place by place. *)
LEMMA TailFacts ==
    ASSUME NEW S, NEW s \in Seq(S), s # <<>>
    PROVE  /\ Tail(s) \in Seq(S) /\ Head(s) \in S /\ 1 \in DOMAIN s /\ Head(s) = s[1]
           /\ \A k \in DOMAIN Tail(s) : k + 1 \in DOMAIN s /\ Tail(s)[k] = s[k + 1] /\ k + 1 # 1
           /\ \A k \in DOMAIN s : k = 1 \/ (k - 1 \in DOMAIN Tail(s) /\ Tail(s)[k - 1] = s[k])
<1>1. Len(s) \in Nat /\ Len(s) # 0 /\ DOMAIN s = 1 .. Len(s) /\ s \in [1 .. Len(s) -> S]
  BY EmptySeq, LenProperties
<1>2. Tail(s) \in Seq(S) /\ Head(s) \in S /\ Head(s) = s[1]
  BY <1>1, HeadTailProperties
<1>3. /\ DOMAIN Tail(s) = 1 .. Len(s) - 1
      /\ \A k \in 1 .. Len(s) - 1 : Tail(s)[k] = s[k + 1]
  BY <1>1, HeadTailProperties, LenProperties
<1> QED
  BY <1>1, <1>2, <1>3

(* A sequence with one more element. *)
LEMMA AppendFacts ==
    ASSUME NEW S, NEW s \in Seq(S), NEW e \in S
    PROVE  /\ Append(s, e) \in Seq(S) /\ Append(s, e) # <<>>
           /\ DOMAIN Append(s, e) = DOMAIN s \cup {Len(s) + 1}
           /\ Len(s) \in Nat /\ Len(s) + 1 \notin DOMAIN s
           /\ \A k \in DOMAIN s : k < Len(s) + 1 /\ Append(s, e)[k] = s[k]
           /\ Append(s, e)[Len(s) + 1] = e
<1>1. Len(s) \in Nat /\ DOMAIN s = 1 .. Len(s)
  BY LenProperties
<1>2. /\ Append(s, e) \in Seq(S) /\ Append(s, e) # <<>>
      /\ Len(Append(s, e)) = Len(s) + 1
      /\ \A k \in 1 .. Len(s) : Append(s, e)[k] = s[k]
      /\ Append(s, e)[Len(s) + 1] = e
  BY AppendProperties
<1>3. DOMAIN Append(s, e) = 1 .. Len(s) + 1
  BY <1>2, LenProperties
<1> QED
  BY <1>1, <1>2, <1>3

(* SendResp adds one answer of its kind under its id and changes no other. *)
LEMMA AnswerAdds ==
    ASSUME Typed, NEW id \in Ids, NEW class, NEW kind, NEW w,
           [class |-> class, kind |-> kind, why |-> w] \in Objects,
           Answer(id, class, kind, w)
    PROVE  /\ answers' \in [Ids -> Seq(Objects)]
           /\ answers'[id] # <<>>
           /\ \A i \in Ids : answers[i] # <<>> => answers'[i] # <<>>
           /\ \A i \in Ids, why \in Whys :
                 Count(i, why)' = IF i = id /\ why = w
                                  THEN Count(i, why) \cup {Len(answers[id]) + 1}
                                  ELSE Count(i, why)
           /\ \A k \in DOMAIN answers[id] :
                 k \in DOMAIN answers'[id] /\ answers'[id][k] = answers[id][k]
           /\ \A k \in DOMAIN answers'[id] : k \in DOMAIN answers[id]
                 \/ answers'[id][k] = [class |-> class, kind |-> kind, why |-> w]
           /\ \A i \in Ids \ {id} : answers'[i] = answers[i]
<1> DEFINE e == [class |-> class, kind |-> kind, why |-> w]
           s == answers[id]
<1>1. s \in Seq(Objects)
  BY DEF Typed
<1>2. /\ answers' = [answers EXCEPT ![id] = Append(s, e)]
      /\ answers'[id] = Append(s, e)
      /\ \A i \in Ids \ {id} : answers'[i] = answers[i]
  BY DEF Typed, Answer
<1>3. /\ Append(s, e) \in Seq(Objects) /\ Append(s, e) # <<>>
      /\ DOMAIN Append(s, e) = DOMAIN s \cup {Len(s) + 1}
      /\ Len(s) + 1 \notin DOMAIN s
      /\ \A k \in DOMAIN s : Append(s, e)[k] = s[k]
      /\ Append(s, e)[Len(s) + 1] = e
  BY <1>1, AppendFacts
<1>4. e.why = w
  OBVIOUS
<1> HIDE DEF e
<1>5. answers' \in [Ids -> Seq(Objects)]
  BY <1>2, <1>3 DEF Typed
<1>6. ASSUME NEW i \in Ids, NEW why \in Whys
      PROVE  Count(i, why)' = IF i = id /\ why = w
                              THEN Count(i, why) \cup {Len(answers[id]) + 1}
                              ELSE Count(i, why)
  <2>1. CASE i # id
    BY <2>1, <1>2 DEF Count
  <2>2. CASE i = id
    BY <2>2, <1>2, <1>3, <1>4 DEF Count
  <2> QED
    BY <2>1, <2>2
<1> QED
  BY <1>2, <1>3, <1>5, <1>6 DEF e

-----------------------------------------------------------------------------
(* Types *)

LEMMA InitSafe == Init => Safe
<1> SUFFICES ASSUME Init PROVE Safe
  OBVIOUS
<1> USE DEF Init
<1>1. <<>> \in Seq(Objects) /\ <<>> \in Seq(Ids) /\ <<>> \in Seq(Entry) /\ DOMAIN <<>> = {}
  OBVIOUS
<1>2. Typed
  BY <1>1, TimersAssumption DEF Typed, TypeOK, ProccPC, Gates, Entry
<1>3. Hands
  BY <1>1, TimersAssumption DEF Hands
<1>4. ASSUME NEW id \in Ids, NEW why PROVE Count(id, why) = {}
  BY <1>1, <1>4 DEF Count
<1>5. Sent /\ Untouched /\ Entries /\ Once /\ Race
  BY <1>1, <1>4 DEF Sent, Untouched, Entries, Once, Race, HasAnswer, AtServer, Queued, Whys
<1> QED
  BY <1>2, <1>3, <1>5 DEF Safe

(* The map after StartTimer's emplace and after an erase. *)
LEMMA MapDomains ==
    ASSUME Typed, NEW id
    PROVE  /\ Erase(id) => /\ DOMAIN timers' = DOMAIN timers \ {id}
                           /\ \A i \in DOMAIN timers' : timers'[i] = timers[i]
  BY DEF Erase

(* The request in hand is one of the application's. *)
LEMMA CurFacts ==
    ASSUME Safe, ppc \in {"gate", "send", "start"}
    PROVE  cur \in Ids /\ cur # None /\ asked[cur] \in Names
  BY DEF Safe, Typed, TypeOK, Hands

(* Objects that the handlers make. *)
LEMMA ObjectFacts ==
    /\ \A n \in Names : [class |-> Request(n).fail, kind |-> "Rsp", why |-> "fail"] \in Objects
    /\ \A c \in Cases : [class |-> c, kind |-> "Rsp", why |-> "timeout"] \in Objects
    /\ \A w \in Wires, why \in {"reply", "unasked"} :
          Dispatch(w).kind \in {"Rsp", "Ind"} =>
              [class |-> Dispatch(w).class, kind |-> Dispatch(w).kind, why |-> why] \in Objects
  BY DEF Objects, Whys

(* A refusal, or a delivery, either adds an answer or leaves them alone. *)
LEMMA RefuseAnswers ==
    ASSUME Safe, ppc \in {"gate", "send"}, Refuse
    PROVE  /\ answers' \in [Ids -> Seq(Objects)]
           /\ \/ UNCHANGED answers /\ Request(asked[cur]).fail = None
              \/ Answer(cur, Request(asked[cur]).fail, "Rsp", "fail")
<1>1. cur \in Ids /\ asked[cur] \in Names
  BY CurFacts
<1>2. \/ UNCHANGED answers /\ Request(asked[cur]).fail = None
      \/ Answer(cur, Request(asked[cur]).fail, "Rsp", "fail")
  BY DEF Refuse
<1> QED
  BY <1>1, <1>2, AnswerAdds, ObjectFacts DEF Safe, Typed

LEMMA ExpireAnswers ==
    ASSUME Safe, ExpireFirst
    PROVE  LET id == Head(itimers).id IN
           /\ id \in Ids
           /\ answers' \in [Ids -> Seq(Objects)]
           /\ \/ /\ id \in DOMAIN timers /\ timers[id] \in Cases /\ Erase(id)
                 /\ Answer(id, timers[id], "Rsp", "timeout")
              \/ UNCHANGED answers /\ id \in DOMAIN timers /\ timers[id] \notin Cases /\ Erase(id)
              \/ UNCHANGED <<answers, timers>> /\ id \notin DOMAIN timers
<1> DEFINE id == Head(itimers).id
<1>1. id \in Ids
  <2>1. itimers \in Seq(Entry) /\ itimers # <<>>
    BY DEF Safe, Typed, TypeOK, ExpireFirst, Entry
  <2>2. Head(itimers) \in Entry
    BY <2>1, TailFacts
  <2> QED
    BY <2>2 DEF Entry
<1>2. \/ /\ id \in DOMAIN timers /\ timers[id] \in Cases /\ Erase(id)
         /\ Answer(id, timers[id], "Rsp", "timeout")
      \/ UNCHANGED answers /\ id \in DOMAIN timers /\ timers[id] \notin Cases /\ Erase(id)
      \/ UNCHANGED <<answers, timers>> /\ id \notin DOMAIN timers
  BY DEF ExpireFirst
<1>3. answers' \in [Ids -> Seq(Objects)]
  <2> HIDE DEF id
  <2> QED
  BY <1>1, <1>2, AnswerAdds, ObjectFacts DEF Safe, Typed
<1> QED
  BY <1>1, <1>2, <1>3

(* What a message from the server does to the answers and to overheard. *)
LEMMA DeliverAnswers ==
    ASSUME Safe, NEW id, NEW wire \in Wires, NEW why \in {"reply", "unasked"},
           Deliver(id, wire, why)
    PROVE  /\ answers' \in [Ids -> Seq(Objects)]
           /\ \/ /\ id \in Ids /\ Dispatch(wire).kind \in {"Rsp", "Ind"}
                 /\ Answer(id, Dispatch(wire).class, Dispatch(wire).kind, why)
              \/ /\ UNCHANGED answers
                 /\ id \notin Ids \/ Dispatch(wire).kind \notin {"Rsp", "Ind"}
<1>1. \/ /\ id \in Ids /\ Dispatch(wire).kind \in {"Rsp", "Ind"}
         /\ Answer(id, Dispatch(wire).class, Dispatch(wire).kind, why)
      \/ /\ UNCHANGED answers
         /\ id \notin Ids \/ Dispatch(wire).kind \notin {"Rsp", "Ind"}
  BY DEF Deliver
<1> QED
  BY <1>1, AnswerAdds, ObjectFacts DEF Safe, Typed

(* The wire of a reply or an unasked message is one of the known ones. *)
LEMMA WireFacts ==
    /\ \A n \in Names : <<Request(n).wire[1], Request(n).wire[2], "rsp">> \in Wires
    /\ \A m \in Unasked : m[2] \in Wires
  BY DEF Wires

LEMMA StepTyped == Safe /\ [Next]_vars => Typed'
<1> SUFFICES ASSUME Safe, [Next]_vars PROVE Typed'
  OBVIOUS
<1> USE DEF pvars, tvars, nvars
<1>0. Typed /\ TypeOK /\ Hands
  BY DEF Safe, Typed
<1>1. ASSUME NEW id \in Ids, NEW name \in Names, send(id, name) PROVE Typed'
  <2>1. input' \in Seq(Ids)
    BY <1>0, <1>1, AppendFacts DEF send, TypeOK
  <2>2. asked' \in [Ids -> Names \cup {None}]
    BY <1>0, <1>1 DEF send, TypeOK
  <2> QED
    BY <1>0, <1>1, <2>1, <2>2 DEF send, Typed, TypeOK
<1>2. CASE ConnectionChanges
  BY <1>0, <1>2 DEF ConnectionChanges, Typed, TypeOK, Gates
<1>3. CASE Tick
  <2>1. itimers' \in Seq(Entry)
    <3>1. Len(itimers) \in Nat /\ itimers \in [1 .. Len(itimers) -> Entry]
      BY <1>0, LenProperties DEF TypeOK, Entry
    <3>2. ASSUME NEW k \in 1 .. Len(itimers) PROVE [itimers[k] EXCEPT !.age = @ + 1] \in Entry
      <4>1. itimers[k] \in Entry /\ itimers[k].age < MaxStall
        BY <3>1, <1>3 DEF Tick
      <4>2. itimers[k].age + 1 \in 0 .. MaxStall
        BY <4>1, TimersAssumption DEF Entry
      <4> QED
        BY <4>1, <4>2 DEF Entry
    <3> QED
      BY <3>1, <3>2, <1>3, SeqDef DEF Tick
  <2>2. clock' \in 0 .. TickMod - 1
    BY <1>0, <1>3, TimersAssumption DEF Tick, TypeOK
  <2> QED
    BY <1>0, <1>3, <2>1, <2>2 DEF Tick, Typed, TypeOK, Entry
<1>4. CASE Take
  BY <1>0, <1>4, TailFacts DEF Take, Typed, TypeOK, ProccPC
<1>5. CASE GateShut \/ SendFails
  <2>1. Refuse /\ answers' \in [Ids -> Seq(Objects)]
    BY <1>5, RefuseAnswers DEF GateShut, SendFails
  <2> QED
    BY <1>0, <2>1 DEF Refuse, Typed, TypeOK, ProccPC
<1>6. CASE GateOpen
  BY <1>0, <1>6 DEF GateOpen, Typed, TypeOK, ProccPC
<1>7. CASE SendOk
  BY <1>0, <1>7 DEF SendOk, Typed, TypeOK, ProccPC
<1>8. CASE StartTimer
  <2>1. cur \in Ids
    BY <1>8, CurFacts DEF StartTimer
  <2>2. itimers' \in Seq(Entry)
    <3>1. [id |-> cur, tick |-> clock, age |-> 0] \in Entry
      BY <1>0, <2>1, TimersAssumption DEF TypeOK, Entry
    <3> QED
      BY <3>1, <1>0, <1>8, AppendFacts DEF StartTimer, TypeOK, Entry
  <2>3. DOMAIN timers' \subseteq Ids
    BY <1>0, <1>8, <2>1 DEF StartTimer, TypeOK
  <2> QED
    BY <1>0, <1>8, <2>1, <2>2, <2>3 DEF StartTimer, Typed, TypeOK, Entry, ProccPC
<1>9. CASE LoopEnds
  BY <1>0, <1>9 DEF LoopEnds, Typed, TypeOK, ProccPC
<1>10. CASE LockTimers
  BY <1>0, <1>10 DEF LockTimers, Typed, TypeOK, ProccPC
<1>11. CASE ExpireFirst
  <2>1. /\ answers' \in [Ids -> Seq(Objects)]
        /\ \/ Erase(Head(itimers).id)
           \/ UNCHANGED timers
    BY <1>11, ExpireAnswers
  <2>2. DOMAIN timers' \subseteq Ids
    BY <2>1, <1>0, MapDomains DEF TypeOK
  <2>3. itimers' \in Seq(Entry)
    BY <1>0, <1>11, TailFacts DEF ExpireFirst, TypeOK, Entry
  <2> QED
    BY <1>0, <1>11, <2>1, <2>2, <2>3 DEF ExpireFirst, Typed, TypeOK, Entry
<1>12. CASE ScanEnds
  <2>1. tick' \in 0 .. TickMod - 1
    BY <1>12, TimersAssumption DEF ScanEnds
  <2>2. timers_lock' \in {Free, Procc} /\ ppc' \in ProccPC
    BY <1>12 DEF ScanEnds, ProccPC
  <2> QED
    BY <1>0, <1>12, <2>1, <2>2, SMTT(30) DEF ScanEnds, Typed, TypeOK
<1>13. CASE Rest
  BY <1>0, <1>13 DEF Rest, Typed, TypeOK, ProccPC
<1>14. CASE DeliverReply
  <2> PICK m \in server :
        /\ m[2][3] = "req"
        /\ Deliver(m[1], <<m[2][1], m[2][2], "rsp">>, "reply")
        /\ UNCHANGED unasked
    BY <1>14 DEF DeliverReply
  <2>1. <<m[2][1], m[2][2], "rsp">> \in Wires /\ m[1] \in Ids
    BY <1>0, WireFacts DEF Safe, Sent, TypeOK
  <2>2. answers' \in [Ids -> Seq(Objects)]
    BY <2>1, DeliverAnswers
  <2> QED
    BY <1>0, <2>2 DEF Deliver, Typed, TypeOK
<1>15. CASE DeliverUnasked
  <2> PICK m \in Unasked :
        /\ unasked < MaxUnasked /\ unasked' = unasked + 1
        /\ Deliver(m[1], m[2], "unasked")
    BY <1>15 DEF DeliverUnasked
  <2>1. answers' \in [Ids -> Seq(Objects)]
    BY WireFacts, DeliverAnswers
  <2>2. unasked' \in 0 .. MaxUnasked
    BY <1>0, TimersAssumption DEF TypeOK
  <2> QED
    BY <1>0, <2>1, <2>2 DEF Deliver, Typed, TypeOK
<1>16. CASE EraseTimer
  <2>1. DOMAIN timers' \subseteq Ids
    BY <1>0, <1>16, MapDomains DEF EraseTimer, TypeOK
  <2>2. overtaken' \subseteq Ids
    BY <1>0, <1>16 DEF EraseTimer, TypeOK, Hands
  <2> QED
    BY <1>0, <1>16, <2>1, <2>2 DEF EraseTimer, Typed, TypeOK
<1>17. CASE UNCHANGED vars
  BY <1>0, <1>17 DEF vars, Typed, TypeOK
<1> QED
  BY <1>1, <1>2, <1>3, <1>4, <1>5, <1>6, <1>7, <1>8, <1>9, <1>10, <1>11, <1>12, <1>13,
     <1>14, <1>15, <1>16, <1>17 DEF Next, ProccStep

-----------------------------------------------------------------------------
(* Whose hands a request is in *)

LEMMA StepHands == Safe /\ [Next]_vars => Hands'
<1> SUFFICES ASSUME Safe, [Next]_vars PROVE Hands'
  OBVIOUS
<1> USE DEF pvars, tvars, nvars
<1>0. TypeOK /\ Hands /\ Untouched /\ None \notin Ids /\ None \notin Names
  BY TimersAssumption DEF Safe, Typed
<1>1. ASSUME NEW id \in Ids, NEW name \in Names, send(id, name) PROVE Hands'
  <2>1. /\ DOMAIN input' = DOMAIN input \cup {Len(input) + 1} /\ Len(input) + 1 \notin DOMAIN input
        /\ \A k \in DOMAIN input : input'[k] = input[k]
        /\ input'[Len(input) + 1] = id
    BY <1>0, <1>1, AppendFacts DEF send, TypeOK
  <2>2. /\ asked'[id] = name /\ name # None
        /\ \A i \in Ids \ {id} : asked'[i] = asked[i]
    BY <1>0, <1>1 DEF send, TypeOK
  <2>3. \A k \in DOMAIN input : input[k] \in Ids /\ input[k] # id
    BY <1>0, <1>1 DEF send, TypeOK, Hands
  <2>4. cur # id
    BY <1>0, <1>1 DEF send, Hands
  <2> QED
    BY <1>0, <1>1, <2>1, <2>2, <2>3, <2>4 DEF send, Hands, TypeOK
<1>2. CASE ConnectionChanges \/ Tick
  BY <1>0, <1>2 DEF ConnectionChanges, Tick, Hands
<1>3. CASE Take
  <2>1. /\ Head(input) \in Ids /\ 1 \in DOMAIN input /\ Head(input) = input[1]
        /\ \A k \in DOMAIN input' : k \in Int /\ k + 1 \in DOMAIN input /\ input'[k] = input[k + 1] /\ k + 1 # 1
    BY <1>0, <1>3, TailFacts, LenProperties DEF Take, TypeOK
  <2> QED
    BY <1>0, <1>3, <2>1 DEF Take, Hands
<1>4. CASE GateShut \/ SendFails \/ GateOpen \/ SendOk \/ StartTimer
  <2>1. cur \in Ids
    BY <1>4, CurFacts DEF GateShut, SendFails, GateOpen, SendOk, StartTimer
  <2>2. \A k \in DOMAIN input : input[k] \in Ids
    BY <1>0 DEF TypeOK
  <2> QED
    BY <1>0, <1>4, <2>1, <2>2, TimersAssumption
       DEF GateShut, SendFails, Refuse, GateOpen, SendOk, StartTimer, Hands
<1>5. CASE LoopEnds \/ LockTimers \/ ScanEnds \/ Rest
  BY <1>0, <1>5, TimersAssumption DEF LoopEnds, LockTimers, ScanEnds, Rest, Hands
<1>6. CASE ExpireFirst
  BY <1>0, <1>6 DEF ExpireFirst, Hands
<1>7. CASE DeliverReply \/ DeliverUnasked
  BY <1>0, <1>7, TimersAssumption DEF DeliverReply, DeliverUnasked, Deliver, Hands, Safe, Sent
<1>8. CASE EraseTimer
  BY <1>0, <1>8 DEF EraseTimer, Hands
<1>9. CASE UNCHANGED vars
  BY <1>0, <1>9 DEF vars, Hands
<1> QED
  BY <1>1, <1>2, <1>3, <1>4, <1>5, <1>6, <1>7, <1>8, <1>9 DEF Next, ProccStep

-----------------------------------------------------------------------------
(* What a request has left behind *)

Traces == Sent /\ Untouched /\ Entries /\ Once /\ Race

(* Steps that move neither requests nor answers. *)
LEMMA TracesFrame ==
    ASSUME Safe, UNCHANGED <<asked, cur, timers, server, answers, npc, nid, overtaken>>,
           \A id \in Ids : Queued(id)' = Queued(id),
           \A j, k \in (DOMAIN itimers)' : itimers'[j].id = itimers'[k].id => j = k,
           \A id \in Ids : Unsent(id)' => Unsent(id)
    PROVE  Traces'
<1>1. \A id \in Ids : /\ AtServer(id)' = AtServer(id)
                      /\ \A why \in Whys : Count(id, why)' = Count(id, why)
  BY DEF AtServer, Count
<1>2. \A id \in Ids : \A why \in Whys : HasAnswer(id, why)' = HasAnswer(id, why)
  BY <1>1 DEF HasAnswer
<1>3. DOMAIN timers \subseteq Ids
  BY DEF Safe, Typed, TypeOK
<1> QED
  BY <1>1, <1>2, <1>3 DEF Safe, Traces, Sent, Untouched, Entries, Once, Race, Whys

LEMMA QuietTraces ==
    ASSUME Safe,
           \/ ConnectionChanges \/ Tick \/ GateOpen \/ LoopEnds \/ LockTimers \/ ScanEnds
           \/ Rest \/ UNCHANGED vars
    PROVE  Traces'
<1> USE DEF pvars, tvars, nvars
<1>0. TypeOK /\ Entries
  BY DEF Safe, Typed
<1>1. CASE Tick
  <2>1. /\ DOMAIN itimers' = DOMAIN itimers
        /\ \A k \in DOMAIN itimers : itimers'[k].id = itimers[k].id
    BY <1>0, <1>1, LenProperties DEF Tick, TypeOK
  <2>2. \A id \in Ids : Queued(id)' = Queued(id) /\ Unsent(id)' = Unsent(id)
    BY <2>1, <1>1 DEF Queued, Tick, Unsent, Waiting
  <2> QED
    BY <2>1, <2>2, <1>0, <1>1, TracesFrame DEF Tick, Entries
<1>2. CASE ~Tick
  <2>1. /\ UNCHANGED <<asked, cur, timers, server, answers, npc, nid, overtaken, itimers, input>>
        /\ ppc' = "start" <=> ppc = "start"
    BY <1>2 DEF ConnectionChanges, GateOpen, LoopEnds, LockTimers, ScanEnds, Rest, vars
  <2>2. \A id \in Ids : Queued(id)' = Queued(id) /\ Unsent(id)' = Unsent(id)
    BY <2>1 DEF Queued, Unsent, Waiting
  <2> QED
    BY <2>1, <2>2, <1>0, TracesFrame DEF Entries
<1> QED
  BY <1>1, <1>2

LEMMA SendTraces ==
    ASSUME Safe, NEW id \in Ids, NEW name \in Names, send(id, name)
    PROVE  Traces'
<1> USE DEF pvars, tvars, nvars
<1>0. TypeOK /\ Hands /\ Traces /\ None \notin Names
  BY TimersAssumption DEF Safe, Typed, Traces
<1>1. /\ DOMAIN input' = DOMAIN input \cup {Len(input) + 1}
      /\ \A k \in DOMAIN input : input'[k] = input[k]
      /\ input'[Len(input) + 1] = id
  BY <1>0, AppendFacts DEF send, TypeOK
<1>2. asked'[id] = name /\ \A i \in Ids \ {id} : asked'[i] = asked[i]
  BY <1>0 DEF send, TypeOK
<1>3. Unsent(id) /\ \A i \in Ids : Unsent(i)' => Unsent(i)
  BY <1>0, <1>1, <1>2 DEF Unsent, Waiting, send
<1>4. \A i \in Ids : /\ Queued(i)' = Queued(i) /\ AtServer(i)' = AtServer(i)
                     /\ \A why \in Whys : Count(i, why)' = Count(i, why)
                     /\ \A why \in Whys : HasAnswer(i, why)' = HasAnswer(i, why)
  BY DEF Queued, AtServer, Count, HasAnswer, send
<1>5. id \notin DOMAIN timers /\ \A m \in server : m[1] # id
  BY <1>0, <1>3 DEF Traces, Untouched, Entries, AtServer
<1>6. Sent'
  BY <1>0, <1>2, <1>5 DEF Traces, Sent, send
<1>7. Untouched'
  BY <1>0, <1>3, <1>4 DEF Traces, Untouched, send, Whys
<1>8. Entries'
  BY <1>0, <1>2, <1>4, <1>5 DEF Traces, Entries, send, TypeOK
<1>9. Once'
  BY <1>0, <1>4 DEF Traces, Once, send, Whys
<1>10. Race'
  BY <1>0, <1>4 DEF Traces, Race, send, Whys
<1> QED
  BY <1>6, <1>7, <1>8, <1>9, <1>10 DEF Traces

LEMMA TakeTraces ==
    ASSUME Safe, Take
    PROVE  Traces'
<1> USE DEF pvars, tvars, nvars
<1>0. TypeOK /\ Hands /\ Traces /\ cur = None /\ None \notin Ids
  BY TimersAssumption DEF Safe, Typed, Traces, Hands, Take
<1>1. /\ Head(input) \in Ids /\ 1 \in DOMAIN input /\ Head(input) = input[1]
      /\ \A k \in DOMAIN input' : k + 1 \in DOMAIN input /\ input'[k] = input[k + 1]
  BY <1>0, TailFacts DEF Take, TypeOK
<1>2. Waiting(cur') /\ cur' \in Ids /\ \A i \in Ids : Unsent(i)' \/ cur' = i => Unsent(i)
  BY <1>0, <1>1 DEF Unsent, Waiting, Take
<1>3. \A i \in Ids : /\ Queued(i)' = Queued(i) /\ AtServer(i)' = AtServer(i)
                     /\ \A why \in Whys : Count(i, why)' = Count(i, why)
                     /\ \A why \in Whys : HasAnswer(i, why)' = HasAnswer(i, why)
  BY DEF Queued, AtServer, Count, HasAnswer, Take
<1>4. Sent'
  BY <1>0 DEF Traces, Sent, Take
<1>5. Untouched'
  BY <1>0, <1>2, <1>3 DEF Traces, Untouched, Take, Whys
<1>6. Entries'
  BY <1>0, <1>3 DEF Traces, Entries, Take, TypeOK
<1>7. Once'
  BY <1>0, <1>3 DEF Traces, Once, Take, Whys
<1>8. Race'
  BY <1>0, <1>2, <1>3 DEF Traces, Race, Take, Whys, Untouched
<1> QED
  BY <1>4, <1>5, <1>6, <1>7, <1>8 DEF Traces

(* The request that is refused was untouched, and its refusal is the only  *)
(* thing there will ever be of it.                                         *)
LEMMA RefuseTraces ==
    ASSUME Safe, GateShut \/ SendFails
    PROVE  Traces'
<1> USE DEF pvars, tvars, nvars
<1>0. TypeOK /\ Typed /\ Hands /\ Traces /\ None \notin Ids
  BY TimersAssumption DEF Safe, Typed, Traces
<1>1. Refuse /\ ppc \in {"gate", "send"} /\ cur \in Ids /\ cur # None /\ asked[cur] \in Names
  BY CurFacts DEF GateShut, SendFails
<1>2. Unsent(cur) /\ \A i \in Ids : Unsent(i)' => Unsent(i) /\ i # cur
  BY <1>0, <1>1 DEF Unsent, Waiting, Refuse, Hands
<1>3. \A i \in Ids : Queued(i)' = Queued(i) /\ AtServer(i)' = AtServer(i)
  BY <1>1 DEF Queued, AtServer, Refuse
<1>4. \A i \in Ids, why \in Whys :
          \/ Count(i, why)' = Count(i, why)
          \/ i = cur /\ why = "fail" /\ Count(i, why)' = Count(i, why) \cup {Len(answers[cur]) + 1}
  <2>1. CASE UNCHANGED answers
    BY <2>1 DEF Count
  <2>2. CASE Answer(cur, Request(asked[cur]).fail, "Rsp", "fail")
    <3>1. [class |-> Request(asked[cur]).fail, kind |-> "Rsp", why |-> "fail"] \in Objects
      BY <2>2, <1>0, <1>1, ObjectFacts
    <3>2. \A i \in Ids, why \in Whys :
              Count(i, why)' = IF i = cur /\ why = "fail"
                               THEN Count(i, why) \cup {Len(answers[cur]) + 1}
                               ELSE Count(i, why)
      BY <2>2, <3>1, <1>0, <1>1, AnswerAdds
    <3> QED
      BY <2>2, <3>2
  <2> QED
    BY <1>1, <2>1, <2>2, RefuseAnswers
<1>5. \A i \in Ids, why \in Whys : HasAnswer(i, why)' => HasAnswer(i, why) \/ (i = cur /\ why = "fail")
  BY <1>4 DEF HasAnswer
<1>6. Count(cur, "fail") = {}
  BY <1>0, <1>1, <1>2 DEF Traces, Untouched, HasAnswer
<1>7. Sent'
  BY <1>0, <1>1 DEF Traces, Sent, Refuse
<1>8. Untouched'
  BY <1>0, <1>1, <1>2, <1>3, <1>5 DEF Traces, Untouched, Refuse, Whys
<1>9. Entries'
  BY <1>0, <1>1, <1>3 DEF Traces, Entries, Refuse, TypeOK
<1>10. Once'
  <2> SUFFICES ASSUME NEW id \in Ids
               PROVE  /\ HasAnswer(id, "timeout")' => ~Queued(id)'
                      /\ HasAnswer(id, "reply")' => ~AtServer(id)'
                      /\ HasAnswer(id, "fail")' => /\ ~Queued(id)' /\ ~AtServer(id)'
                                                  /\ ~HasAnswer(id, "reply")' /\ ~HasAnswer(id, "timeout")'
                      /\ \A why \in Whys \ {"unasked"} : \A j, k \in Count(id, why)' : j = k
    BY DEF Once
  <2>1. Untouched /\ Once
    BY <1>0 DEF Traces
  <2>2. \A why \in Whys \ {"unasked"} : \A j, k \in Count(id, why)' : j = k
    BY <1>4, <1>6, <2>1 DEF Once
  <2> QED
    BY <2>1, <2>2, <1>2, <1>3, <1>5 DEF Untouched, Once, Whys
<1>11. Race'
  BY <1>0, <1>1, <1>2, <1>5 DEF Traces, Race, Refuse, Whys
<1> QED
  BY <1>7, <1>8, <1>9, <1>10, <1>11 DEF Traces

(* The request leaves for the server, from where one reply may come. *)
LEMMA SendOkTraces ==
    ASSUME Safe, SendOk
    PROVE  Traces'
<1> USE DEF pvars, tvars, nvars
<1>0. TypeOK /\ Hands /\ Traces /\ None \notin Ids
  BY TimersAssumption DEF Safe, Typed, Traces
<1>1. cur \in Ids /\ cur # None /\ asked[cur] # None
  BY <1>0, CurFacts DEF SendOk, Hands
<1>2. /\ Unsent(cur)
      /\ \A i \in Ids : Unsent(i)' => Unsent(i) /\ i # cur
      /\ \A i \in Ids : cur' = i => cur = i
  BY <1>0, <1>1 DEF Unsent, Waiting, SendOk, Hands
<1>3. \A i \in Ids : /\ Queued(i)' = Queued(i)
                     /\ \A why \in Whys : Count(i, why)' = Count(i, why)
                     /\ \A why \in Whys : HasAnswer(i, why)' = HasAnswer(i, why)
  BY DEF Queued, Count, HasAnswer, SendOk
<1>4. \A m \in server' : m \in server \/ m = <<cur, Request(asked[cur]).wire>>
  BY DEF SendOk
<1>5. \A i \in Ids : AtServer(i)' => AtServer(i) \/ i = cur
  BY <1>4 DEF AtServer
<1>6. Sent'
  BY <1>0, <1>1, <1>4 DEF Traces, Sent, SendOk
<1>7. Untouched'
  BY <1>0, <1>2, <1>3, <1>5 DEF Traces, Untouched, Whys
<1>8. Entries'
  BY <1>0, <1>3 DEF Traces, Entries, SendOk, TypeOK
<1>9. Once'
  BY <1>0, <1>1, <1>2, <1>3, <1>5 DEF Traces, Once, Whys, Untouched
<1>10. Race'
  BY <1>0, <1>2, <1>3 DEF Traces, Race, SendOk, Whys
<1> QED
  BY <1>6, <1>7, <1>8, <1>9, <1>10 DEF Traces

(* The timer starts; if the reply has been through already, Race says so. *)
LEMMA StartTraces ==
    ASSUME Safe, StartTimer
    PROVE  Traces'
<1> USE DEF pvars, tvars, nvars
<1>0. TypeOK /\ Hands /\ Traces /\ None \notin Ids /\ itimers \in Seq(Entry)
  BY TimersAssumption DEF Safe, Typed, Traces, TypeOK, Entry
<1>1. cur \in Ids /\ cur # None /\ asked[cur] # None
  BY <1>0, CurFacts DEF StartTimer, Hands
<1> DEFINE e == [id |-> cur, tick |-> clock, age |-> 0]
<1>2. e \in Entry /\ e.id = cur
  BY <1>0, <1>1, TimersAssumption DEF TypeOK, Entry
<1>3. /\ DOMAIN itimers' = DOMAIN itimers \cup {Len(itimers) + 1}
      /\ \A k \in DOMAIN itimers : itimers'[k] = itimers[k]
      /\ itimers'[Len(itimers) + 1] = e
  <2> HIDE DEF e
  <2>1. itimers' = Append(itimers, e)
    BY DEF StartTimer, e
  <2> QED
    BY <2>1, <1>0, <1>2, AppendFacts
<1> HIDE DEF e
<1>4. \A i \in Ids : Queued(i)' <=> Queued(i) \/ i = cur
  BY <1>2, <1>3 DEF Queued
<1>5. ~Queued(cur) /\ cur \notin DOMAIN timers
  BY <1>0, <1>1 DEF Traces, Untouched, Entries
<1>6. /\ DOMAIN timers' = DOMAIN timers \cup {cur}
      /\ timers'[cur] = Request(asked[cur]).timer
      /\ \A i \in DOMAIN timers : timers'[i] = timers[i]
  BY <1>5 DEF StartTimer
<1>7. \A i \in Ids : Unsent(i)' => Unsent(i) /\ i # cur
  BY <1>0, <1>1 DEF Unsent, Waiting, StartTimer, Hands
<1>8. \A i \in Ids : /\ AtServer(i)' = AtServer(i)
                     /\ \A why \in Whys : Count(i, why)' = Count(i, why)
                     /\ \A why \in Whys : HasAnswer(i, why)' = HasAnswer(i, why)
  BY DEF AtServer, Count, HasAnswer, StartTimer
<1>9. Sent'
  BY <1>0 DEF Traces, Sent, StartTimer
<1>10. Untouched'
  BY <1>0, <1>1, <1>4, <1>7, <1>8 DEF Traces, Untouched, Whys, StartTimer
<1>11. Entries'
  <2>1. \A i \in DOMAIN timers' : Queued(i)' /\ timers'[i] = Request(asked'[i]).timer
    BY <1>0, <1>1, <1>4, <1>6 DEF Traces, Entries, StartTimer, TypeOK
  <2>2. \A j, k \in DOMAIN itimers' : itimers'[j].id = itimers'[k].id => j = k
    BY <1>0, <1>2, <1>3, <1>5 DEF Traces, Entries, Queued
  <2> QED
    BY <2>1, <2>2 DEF Entries
<1>12. Once'
  BY <1>0, <1>1, <1>4, <1>8 DEF Traces, Once, Whys, Untouched
<1>13. Race'
  BY <1>0, <1>6, <1>8 DEF Traces, Race, StartTimer, Whys
<1> QED
  BY <1>9, <1>10, <1>11, <1>12, <1>13 DEF Traces

(* The first entry goes, and with it everything that could time its        *)
(* request out again.                                                      *)
LEMMA ExpireTraces ==
    ASSUME Safe, ExpireFirst
    PROVE  Traces'
<1> USE DEF pvars, tvars, nvars
<1>0. TypeOK /\ Typed /\ Hands /\ Traces /\ None \notin Ids /\ itimers \in Seq(Entry)
  BY TimersAssumption DEF Safe, Typed, Traces, TypeOK, Entry
<1> DEFINE id == Head(itimers).id
<1>1. /\ 1 \in DOMAIN itimers /\ Head(itimers) = itimers[1]
      /\ \A k \in DOMAIN itimers' : k \in Int /\ k + 1 \in DOMAIN itimers /\ itimers'[k] = itimers[k + 1] /\ k + 1 # 1
      /\ \A k \in DOMAIN itimers : k = 1 \/ (k - 1 \in DOMAIN itimers' /\ itimers'[k - 1] = itimers[k])
  BY <1>0, TailFacts, LenProperties DEF ExpireFirst
<1>2. /\ id \in Ids
      /\ \/ /\ id \in DOMAIN timers /\ timers[id] \in Cases /\ Erase(id)
            /\ Answer(id, timers[id], "Rsp", "timeout")
         \/ UNCHANGED answers /\ id \in DOMAIN timers /\ Erase(id)
         \/ UNCHANGED <<answers, timers>> /\ id \notin DOMAIN timers
  BY ExpireAnswers
<1> HIDE DEF id
<1>3. itimers[1].id = id
  BY <1>1 DEF id
<1>4. Queued(id) /\ \A i \in Ids : Queued(i)' <=> Queued(i) /\ i # id
  <2>1. \A j, k \in DOMAIN itimers : itimers[j].id = itimers[k].id => j = k
    BY <1>0 DEF Traces, Entries
  <2> QED
    BY <1>1, <1>3, <2>1 DEF Queued
<1>5. /\ DOMAIN timers' = DOMAIN timers \ {id}
      /\ \A i \in DOMAIN timers' : timers'[i] = timers[i]
  BY <1>0, <1>2, MapDomains
<1>6. \A i \in Ids, why \in Whys :
          \/ Count(i, why)' = Count(i, why)
          \/ /\ i = id /\ why = "timeout" /\ id \in DOMAIN timers
             /\ Count(i, why)' = Count(i, why) \cup {Len(answers[id]) + 1}
  <2>1. CASE UNCHANGED answers
    BY <2>1 DEF Count
  <2>2. CASE id \in DOMAIN timers /\ timers[id] \in Cases /\ Answer(id, timers[id], "Rsp", "timeout")
    <3>1. [class |-> timers[id], kind |-> "Rsp", why |-> "timeout"] \in Objects
      BY <2>2, <1>0, <1>2, ObjectFacts
    <3>2. \A i \in Ids, why \in Whys :
              Count(i, why)' = IF i = id /\ why = "timeout"
                               THEN Count(i, why) \cup {Len(answers[id]) + 1}
                               ELSE Count(i, why)
      BY <2>2, <3>1, <1>0, <1>2, AnswerAdds
    <3> QED
      BY <2>2, <3>2
  <2> QED
    BY <1>2, <2>1, <2>2
<1>7. \A i \in Ids, why \in Whys :
          HasAnswer(i, why)' => HasAnswer(i, why) \/ (i = id /\ why = "timeout" /\ id \in DOMAIN timers)
  BY <1>6 DEF HasAnswer
<1>8. ~HasAnswer(id, "timeout") /\ ~HasAnswer(id, "fail") /\ ~Unsent(id) /\ cur # id
  BY <1>0, <1>2, <1>4 DEF Traces, Once, Untouched
<1>9. \A i \in Ids : Unsent(i)' = Unsent(i) /\ AtServer(i)' = AtServer(i)
  BY DEF Unsent, Waiting, AtServer, ExpireFirst
<1>10. Sent'
  BY <1>0 DEF Traces, Sent, ExpireFirst
<1>11. Untouched'
  BY <1>0, <1>4, <1>7, <1>8, <1>9 DEF Traces, Untouched, Whys, ExpireFirst
<1>12. Entries'
  <2>1. \A i \in DOMAIN timers' : Queued(i)' /\ timers'[i] = Request(asked'[i]).timer
    BY <1>0, <1>4, <1>5 DEF Traces, Entries, ExpireFirst, TypeOK
  <2>2. ASSUME NEW j \in DOMAIN itimers', NEW k \in DOMAIN itimers', itimers'[j].id = itimers'[k].id PROVE j = k
    <3>1. j + 1 = k + 1 /\ j \in Int /\ k \in Int
      BY <1>0, <1>1, <2>2, SMTT(30) DEF Traces, Entries
    <3> QED
      BY <3>1
  <2> QED
    BY <2>1, <2>2 DEF Entries
<1>13. Once'
  <2> SUFFICES ASSUME NEW i \in Ids
               PROVE  /\ HasAnswer(i, "timeout")' => ~Queued(i)'
                      /\ HasAnswer(i, "reply")' => ~AtServer(i)'
                      /\ HasAnswer(i, "fail")' => /\ ~Queued(i)' /\ ~AtServer(i)'
                                                  /\ ~HasAnswer(i, "reply")' /\ ~HasAnswer(i, "timeout")'
                      /\ \A why \in Whys \ {"unasked"} : \A j, k \in Count(i, why)' : j = k
    BY DEF Once
  <2>1. Once
    BY <1>0 DEF Traces
  <2>2. Count(id, "timeout") = {}
    BY <1>8 DEF HasAnswer
  <2>3. \A why \in Whys \ {"unasked"} : \A j, k \in Count(i, why)' : j = k
    BY <1>6, <2>1, <2>2 DEF Once
  <2> QED
    BY <2>1, <2>3, <1>4, <1>7, <1>8, <1>9 DEF Once, Whys
<1>14. Race'
  BY <1>0, <1>5, <1>7 DEF Traces, Race, ExpireFirst, Whys
<1> QED
  BY <1>10, <1>11, <1>12, <1>13, <1>14 DEF Traces

(* What a delivery adds, for a reply or for a message of the server's own. *)
LEMMA DeliverCounts ==
    ASSUME Safe, NEW id, NEW wire \in Wires, NEW w \in {"reply", "unasked"},
           Deliver(id, wire, w)
    PROVE  \A i \in Ids, why \in Whys :
              \/ Count(i, why)' = Count(i, why)
              \/ /\ i = id /\ why = w
                 /\ Count(i, why)' = Count(i, why) \cup {Len(answers[id]) + 1}
<1>1. CASE UNCHANGED answers
  BY <1>1 DEF Count
<1>2. CASE /\ id \in Ids /\ Dispatch(wire).kind \in {"Rsp", "Ind"}
           /\ Answer(id, Dispatch(wire).class, Dispatch(wire).kind, w)
  <2>1. [class |-> Dispatch(wire).class, kind |-> Dispatch(wire).kind, why |-> w] \in Objects
    BY <1>2, ObjectFacts
  <2>2. \A i \in Ids, why \in Whys :
            Count(i, why)' = IF i = id /\ why = w
                             THEN Count(i, why) \cup {Len(answers[id]) + 1}
                             ELSE Count(i, why)
    BY <1>2, <2>1, AnswerAdds DEF Safe
  <2> QED
    BY <2>2
<1> QED
  BY <1>1, <1>2, DeliverAnswers

(* The reply is the only one: the server has answered.  BinStream is now   *)
(* between its switch and its erase.                                       *)
LEMMA ReplyTraces ==
    ASSUME Safe, DeliverReply
    PROVE  Traces'
<1> USE DEF pvars, tvars, nvars
<1>0. TypeOK /\ Hands /\ Traces
  BY DEF Safe, Typed, Traces
<1>1. PICK m \in server :
        /\ server' = server \ {m}
        /\ Deliver(m[1], <<m[2][1], m[2][2], "rsp">>, "reply")
  BY DEF DeliverReply
<1> DEFINE id == m[1]
<1>2. /\ id \in Ids /\ asked[id] # None /\ AtServer(id)
      /\ <<m[2][1], m[2][2], "rsp">> \in Wires
      /\ \A n \in server' : n[1] # id
  BY <1>0, <1>1, WireFacts DEF Traces, Sent, TypeOK, AtServer
<1> HIDE DEF id
<1>3. \A i \in Ids, why \in Whys :
          \/ Count(i, why)' = Count(i, why)
          \/ i = id /\ why = "reply" /\ Count(i, why)' = Count(i, why) \cup {Len(answers[id]) + 1}
  BY <1>1, <1>2, DeliverCounts DEF id
<1>4. \A i \in Ids, why \in Whys :
          HasAnswer(i, why)' => HasAnswer(i, why) \/ (i = id /\ why = "reply")
  BY <1>3 DEF HasAnswer
<1>5. \A i \in Ids : /\ Queued(i)' = Queued(i) /\ Unsent(i)' = Unsent(i)
                     /\ AtServer(i)' => AtServer(i) /\ i # id
  BY <1>1, <1>2 DEF Queued, Unsent, Waiting, AtServer, Deliver
<1>6. ~Unsent(id) /\ ~HasAnswer(id, "reply") /\ ~HasAnswer(id, "fail")
  BY <1>0, <1>2 DEF Traces, Untouched, Once
<1>7. Sent'
  BY <1>0, <1>1 DEF Traces, Sent, Deliver
<1>8. Untouched'
  BY <1>0, <1>1, <1>4, <1>5, <1>6 DEF Traces, Untouched, Whys, Deliver
<1>9. Entries'
  BY <1>0, <1>1, <1>5 DEF Traces, Entries, Deliver, TypeOK
<1>10. Once'
  <2> SUFFICES ASSUME NEW i \in Ids
               PROVE  /\ HasAnswer(i, "timeout")' => ~Queued(i)'
                      /\ HasAnswer(i, "reply")' => ~AtServer(i)'
                      /\ HasAnswer(i, "fail")' => /\ ~Queued(i)' /\ ~AtServer(i)'
                                                  /\ ~HasAnswer(i, "reply")' /\ ~HasAnswer(i, "timeout")'
                      /\ \A why \in Whys \ {"unasked"} : \A j, k \in Count(i, why)' : j = k
    BY DEF Once
  <2>1. Once
    BY <1>0 DEF Traces
  <2>2. Count(id, "reply") = {}
    BY <1>6 DEF HasAnswer
  <2>3. \A why \in Whys \ {"unasked"} : \A j, k \in Count(i, why)' : j = k
    BY <1>3, <2>1, <2>2 DEF Once
  <2> QED
    BY <2>1, <2>3, <1>4, <1>5, <1>6 DEF Once, Whys
<1>11. Race'
  <2>1. npc' = "erase" /\ nid' = id /\ npc = "idle" /\ UNCHANGED <<timers, cur, overtaken>>
    BY <1>1 DEF Deliver, id
  <2> QED
    BY <1>0, <1>4, <2>1 DEF Traces, Race, Whys
<1> QED
  BY <1>7, <1>8, <1>9, <1>10, <1>11 DEF Traces

LEMMA UnaskedTraces ==
    ASSUME Safe, DeliverUnasked
    PROVE  Traces'
<1> USE DEF pvars, tvars, nvars
<1>0. TypeOK /\ Hands /\ Traces
  BY DEF Safe, Typed, Traces
<1>1. PICK m \in Unasked : Deliver(m[1], m[2], "unasked") /\ UNCHANGED server
  BY DEF DeliverUnasked
<1>2. \A i \in Ids, why \in Whys \ {"unasked"} : Count(i, why)' = Count(i, why)
  BY <1>1, WireFacts, DeliverCounts
<1>3. \A i \in Ids, why \in Whys \ {"unasked"} : HasAnswer(i, why)' = HasAnswer(i, why)
  BY <1>2 DEF HasAnswer
<1>4. \A i \in Ids : /\ Queued(i)' = Queued(i) /\ Unsent(i)' = Unsent(i)
                     /\ AtServer(i)' = AtServer(i)
  BY <1>1 DEF Queued, Unsent, Waiting, AtServer, Deliver
<1>5. Sent'
  BY <1>0, <1>1 DEF Traces, Sent, Deliver
<1>6. Untouched'
  BY <1>0, <1>1, <1>3, <1>4 DEF Traces, Untouched, Whys, Deliver
<1>7. Entries'
  BY <1>0, <1>1, <1>4 DEF Traces, Entries, Deliver, TypeOK
<1>8. Once'
  BY <1>0, <1>2, <1>3, <1>4 DEF Traces, Once, Whys
<1>9. Race'
  <2>1. npc = "idle" /\ UNCHANGED <<timers, cur, overtaken>>
    BY <1>1 DEF Deliver
  <2> QED
    BY <1>0, <1>3, <2>1 DEF Traces, Race, Whys
<1> QED
  BY <1>5, <1>6, <1>7, <1>8, <1>9 DEF Traces

LEMMA EraseTraces ==
    ASSUME Safe, EraseTimer
    PROVE  Traces'
<1> USE DEF pvars, tvars, nvars
<1>0. TypeOK /\ Typed /\ Hands /\ Traces
  BY DEF Safe, Typed, Traces
<1>1. /\ DOMAIN timers' = DOMAIN timers \ {nid}
      /\ \A i \in DOMAIN timers' : timers'[i] = timers[i]
  BY <1>0, MapDomains DEF EraseTimer
<1>2. \A i \in Ids : /\ Queued(i)' = Queued(i) /\ Unsent(i)' = Unsent(i)
                     /\ AtServer(i)' = AtServer(i)
                     /\ \A why \in Whys : Count(i, why)' = Count(i, why)
                     /\ \A why \in Whys : HasAnswer(i, why)' = HasAnswer(i, why)
  BY DEF Queued, Unsent, Waiting, AtServer, Count, HasAnswer, EraseTimer
<1>3. Sent'
  BY <1>0 DEF Traces, Sent, EraseTimer
<1>4. Untouched'
  BY <1>0, <1>2 DEF Traces, Untouched, Whys, EraseTimer
<1>5. Entries'
  BY <1>0, <1>1, <1>2 DEF Traces, Entries, EraseTimer, TypeOK
<1>6. Once'
  BY <1>0, <1>2 DEF Traces, Once, Whys
<1>7. Race'
  BY <1>0, <1>1, <1>2 DEF Traces, Race, Whys, EraseTimer
<1> QED
  BY <1>3, <1>4, <1>5, <1>6, <1>7 DEF Traces

LEMMA StepSafe == Safe /\ [Next]_vars => Safe'
<1> SUFFICES ASSUME Safe, [Next]_vars PROVE Safe'
  OBVIOUS
<1>1. Typed' /\ Hands'
  BY StepTyped, StepHands
<1>2. Traces'
  BY QuietTraces, SendTraces, TakeTraces, RefuseTraces, SendOkTraces, StartTraces, ExpireTraces,
     ReplyTraces, UnaskedTraces, EraseTraces DEF Next, ProccStep
<1> QED
  BY <1>1, <1>2 DEF Safe, Traces

-----------------------------------------------------------------------------
(* The clock *)

(* Differences of two unsigned numbers, without the wrap and across it. *)
LEMMA ModNear ==
    ASSUME NEW n \in Nat, n > 0
    PROVE  /\ \A a \in 0 .. n - 1 : a % n = a
           /\ \A a \in Int : -n <= a /\ a < 0 => a % n = a + n
           /\ n % n = 0
           /\ \A a \in Int : a % n \in 0 .. n - 1
<1>1. ASSUME NEW a \in 0 .. n - 1 PROVE a % n = a
  OBVIOUS
<1>2. ASSUME NEW a \in Int, -n <= a, a < 0 PROVE a % n = a + n
  BY <1>2
<1>3. n % n = 0
  OBVIOUS
<1>4. ASSUME NEW a \in Int PROVE a % n \in 0 .. n - 1
  OBVIOUS
<1> QED
  BY <1>1, <1>2, <1>3, <1>4

LEMMA SinceDiff ==
    ASSUME NEW now \in 0 .. TickMod - 1, NEW t \in Entry
    PROVE  /\ Since(now, t) = IF now >= t.tick THEN now - t.tick ELSE now - t.tick + TickMod
           /\ Since(now, t) \in Nat
<1>1. t.tick \in 0 .. TickMod - 1 /\ TickMod \in Nat /\ TickMod > 0
  BY TimersAssumption DEF Entry
<1>2. now >= t.tick => now - t.tick \in 0 .. TickMod - 1
  BY <1>1
<1>3. now < t.tick => now - t.tick \in Int /\ -TickMod <= now - t.tick /\ now - t.tick < 0
  BY <1>1
<1>4. now \in Int /\ t.tick \in Int
  BY <1>1
<1> QED
  BY <1>1, <1>2, <1>3, <1>4, ModNear DEF Since

(* A millisecond makes every entry one older, as long as none has waited   *)
(* for the wrap.                                                           *)
LEMMA SinceTick ==
    ASSUME NEW now \in 0 .. TickMod - 1, NEW t \in Entry, Since(now, t) = t.age, t.age < MaxStall
    PROVE  Since((now + 1) % TickMod, t) = t.age + 1
<1>1. TickMod \in Nat /\ TickMod > 1 /\ t.age < TickMod - 1 /\ t.age \in Nat /\ t.tick \in 0 .. TickMod - 1
  BY TimersAssumption DEF Entry
<1>2. (now + 1) % TickMod = IF now = TickMod - 1 THEN 0 ELSE now + 1
  <2>1. now = TickMod - 1 => now + 1 = TickMod
    BY <1>1
  <2>2. now # TickMod - 1 => now + 1 \in 0 .. TickMod - 1
    BY <1>1
  <2> QED
    BY <1>1, <2>1, <2>2, ModNear
<1> DEFINE next == (now + 1) % TickMod
<1>3. next \in 0 .. TickMod - 1
  BY <1>1, <1>2
<1>4. Since(next, t) = IF next >= t.tick THEN next - t.tick ELSE next - t.tick + TickMod
  <2> HIDE DEF next
  <2> QED
    BY <1>3, SinceDiff
<1>5. t.age = IF now >= t.tick THEN now - t.tick ELSE now - t.tick + TickMod
  BY SinceDiff
<1> QED
  BY <1>1, <1>2, <1>3, <1>4, <1>5

LEMMA StepTiming == Safe /\ Timing /\ [Next]_vars => Timing'
<1> SUFFICES ASSUME Safe, Timing, [Next]_vars PROVE Timing'
  OBVIOUS
<1> USE DEF pvars, tvars, nvars
<1>0. /\ TypeOK /\ Hands /\ itimers \in Seq(Entry) /\ DOMAIN itimers = 1 .. Len(itimers)
      /\ Len(itimers) \in Nat
      /\ \A k \in DOMAIN itimers : itimers[k] \in Entry
  <2>1. TypeOK /\ Hands /\ itimers \in Seq(Entry)
    BY DEF Safe, Typed, TypeOK, Entry
  <2> QED
    BY <2>1, LenProperties
<1>1. CASE Tick
  <2>1. DOMAIN itimers' = DOMAIN itimers
    BY <1>0, <1>1 DEF Tick
  <2>2. \A k \in DOMAIN itimers : /\ itimers'[k].tick = itimers[k].tick
                                  /\ itimers'[k].age = itimers[k].age + 1
                                  /\ itimers[k].age \in Nat /\ itimers[k].age < MaxStall
    BY <1>0, <1>1 DEF Tick, Entry
  <2>3. \A k \in DOMAIN itimers : \A now : Since(now, itimers'[k]) = Since(now, itimers[k])
    BY <2>2 DEF Since
  <2>4. \A k \in DOMAIN itimers : Since(clock', itimers'[k]) = itimers'[k].age
    BY <1>0, <1>1, <2>2, <2>3, SinceTick DEF Tick, Timing, TypeOK
  <2>5. \A j, k \in DOMAIN itimers : j < k => itimers'[j].age >= itimers'[k].age
    BY <2>2 DEF Timing
  <2>6. UNCHANGED <<ppc, tick>>
    BY <1>1 DEF Tick
  <2>7. ppc \in {"lock", "scan"} =>
          /\ \A k \in DOMAIN itimers : Since(tick, itimers'[k]) <= itimers'[k].age
          /\ \A j, k \in DOMAIN itimers :
                j < k => Since(tick, itimers'[j]) >= Since(tick, itimers'[k])
    <3> SUFFICES ASSUME ppc \in {"lock", "scan"}
                 PROVE  /\ \A k \in DOMAIN itimers : Since(tick, itimers'[k]) <= itimers'[k].age
                        /\ \A j, k \in DOMAIN itimers :
                              j < k => Since(tick, itimers'[j]) >= Since(tick, itimers'[k])
      OBVIOUS
    <3>0. tick \in 0 .. TickMod - 1
      BY <1>0 DEF TypeOK
    <3>1. \A k \in DOMAIN itimers : Since(tick, itimers[k]) \in Nat
      BY <1>0, <3>0, SinceDiff
    <3> QED
      BY <2>2, <2>3, <3>1 DEF Timing
  <2> QED
    BY <2>1, <2>4, <2>5, <2>6, <2>7 DEF Timing
<1>2. CASE StartTimer
  <2> DEFINE e == [id |-> cur, tick |-> clock, age |-> 0]
  <2>0. cur \in Ids
    BY <1>2, CurFacts DEF StartTimer
  <2>1. e \in Entry /\ e.age = 0 /\ e.tick = clock
    BY <1>0, <2>0, TimersAssumption DEF TypeOK, Entry
  <2>2. Since(clock, e) = 0
    <3> HIDE DEF e
    <3> QED
      BY <1>0, <2>1, SinceDiff DEF TypeOK
  <2>3. /\ DOMAIN itimers' = DOMAIN itimers \cup {Len(itimers) + 1}
        /\ \A k \in DOMAIN itimers : itimers'[k] = itimers[k]
        /\ itimers'[Len(itimers) + 1] = e
    <3> HIDE DEF e
    <3>1. itimers' = Append(itimers, e)
      BY <1>2 DEF StartTimer, e
    <3> QED
      BY <3>1, <1>0, <2>1, AppendFacts
  <2> HIDE DEF e
  <2>4. clock' = clock /\ ppc' = "loop"
    BY <1>2 DEF StartTimer
  <2>5. \A k \in DOMAIN itimers' : Since(clock', itimers'[k]) = itimers'[k].age
    BY <2>1, <2>2, <2>3, <2>4 DEF Timing
  <2>6. \A j, k \in DOMAIN itimers' : j < k => itimers'[j].age >= itimers'[k].age
    <3>1. \A k \in DOMAIN itimers : itimers[k].age >= 0 /\ k < Len(itimers) + 1
      BY <1>0, TimersAssumption DEF Entry
    <3> QED
      BY <1>0, <2>1, <2>3, <3>1 DEF Timing
  <2> QED
    BY <2>4, <2>5, <2>6 DEF Timing
<1>3. CASE LoopEnds
  BY <1>0, <1>3 DEF LoopEnds, Timing, Entry
<1>4. CASE ExpireFirst
  <2>1. \A k \in DOMAIN itimers' : k \in Int /\ k + 1 \in DOMAIN itimers /\ itimers'[k] = itimers[k + 1]
    BY <1>0, <1>4, TailFacts, LenProperties DEF ExpireFirst
  <2>2. UNCHANGED <<clock, tick, ppc>>
    BY <1>4 DEF ExpireFirst
  <2>3. \A j, k \in DOMAIN itimers' : j < k => j + 1 < k + 1
    BY <2>1
  <2> QED
    BY <2>1, <2>2, <2>3 DEF Timing
<1>5. CASE /\ UNCHANGED <<clock, tick, itimers>>
           /\ ppc' \in {"lock", "scan"} => ppc \in {"lock", "scan"}
  BY <1>5 DEF Timing
<1>6. CASE ScanEnds
  BY <1>6 DEF ScanEnds, Timing
<1>7. ASSUME NEW id \in Ids, NEW name \in Names, send(id, name)
      PROVE  UNCHANGED <<clock, tick, itimers, ppc>>
  BY <1>7 DEF send
<1>8. ASSUME ConnectionChanges \/ Take \/ GateShut \/ GateOpen \/ SendFails \/ SendOk \/ LockTimers \/ Rest
      PROVE  /\ UNCHANGED <<clock, tick, itimers>>
             /\ ppc' \in {"lock", "scan"} => ppc \in {"lock", "scan"}
  BY <1>8 DEF ConnectionChanges, Take, GateShut, GateOpen, SendFails, SendOk, LockTimers, Rest, Refuse
<1>9. ASSUME DeliverReply \/ DeliverUnasked \/ EraseTimer \/ UNCHANGED vars
      PROVE  UNCHANGED <<clock, tick, itimers, ppc>>
  BY <1>9 DEF DeliverReply, DeliverUnasked, Deliver, EraseTimer, vars
<1> QED
  BY <1>1, <1>2, <1>3, <1>4, <1>5, <1>6, <1>7, <1>8, <1>9 DEF Next, ProccStep

-----------------------------------------------------------------------------
(* Theorems *)

LEMMA Invariance == Spec => []IInv
<1>1. Init => IInv
  <2>1. Init => Timing
    <3> SUFFICES ASSUME Init PROVE Timing
      OBVIOUS
    <3>1. itimers = <<>> /\ DOMAIN <<>> = {} /\ ppc = "loop"
      BY DEF Init
    <3> QED
      BY <3>1 DEF Timing
  <2> QED
    BY <2>1, InitSafe DEF IInv
<1>2. IInv /\ [Next]_vars => IInv'
  BY StepSafe, StepTiming DEF IInv
<1> QED
  BY <1>1, <1>2, PTL DEF Spec

(* The variables of the timers keep their types, in particular the queue's *)
(* ages stay within the bound, whatever the threads do.                    *)
THEOREM TypeCorrect == Spec => []TypeOK
<1>1. IInv => TypeOK
  BY DEF IInv, Safe, Typed
<1> QED
  BY <1>1, Invariance, PTL

(* A refusal stays alone, a reply and a timeout come at most once each,    *)
(* and both come only by one of the two races of StartTimer and BinStream. *)
THEOREM BothOnlyByRace == Spec => []TwiceOnlyByRace
<1>1. IInv => TwiceOnlyByRace
  <2> SUFFICES ASSUME IInv PROVE TwiceOnlyByRace
    OBVIOUS
  <2>1. Once /\ Race /\ DOMAIN timers \subseteq Ids
    BY DEF IInv, Safe, Typed, TypeOK
  <2> QED
    BY <2>1 DEF TwiceOnlyByRace, Once, Race
<1> QED
  BY <1>1, Invariance, PTL

(* Once a reply is in and BinStream has erased the timer, no other reply,  *)
(* refusal or timeout of that request will ever be given to SendResp.      *)
THEOREM StaysSettled == Spec => SettledForGood
<1>1. IInv /\ [Next]_vars =>
        [\A id \in Ids : Settled(id) =>
            /\ Settled(id)'
            /\ \A why \in Whys \ {"unasked"} : Count(id, why)' = Count(id, why)]_vars
  <2> SUFFICES ASSUME IInv, [Next]_vars, NEW id \in Ids, Settled(id)
               PROVE  /\ Settled(id)'
                      /\ \A why \in Whys \ {"unasked"} : Count(id, why)' = Count(id, why)
    OBVIOUS
  <2> USE DEF pvars, tvars, nvars
  <2>0. TypeOK /\ Typed /\ Safe /\ Traces /\ Hands
    BY DEF IInv, Safe, Typed, Traces
  <2>1. /\ asked[id] # None /\ ~AtServer(id) /\ cur # id /\ ~Waiting(id) /\ id \notin DOMAIN timers
        /\ HasAnswer(id, "reply")
    BY <2>0 DEF Settled, Traces, Untouched, Once, Unsent, InHand, Waiting
  <2>2. \A why \in Whys \ {"unasked"} : Count(id, why)' = Count(id, why)
    <3>1. CASE UNCHANGED answers
      BY <3>1 DEF Count
    <3>2. CASE GateShut \/ SendFails
      <4>1. Refuse /\ ppc \in {"gate", "send"} /\ cur \in Ids /\ asked[cur] \in Names
        BY <3>2, <2>0, CurFacts DEF GateShut, SendFails
      <4>2. CASE Answer(cur, Request(asked[cur]).fail, "Rsp", "fail")
        <5>1. [class |-> Request(asked[cur]).fail, kind |-> "Rsp", why |-> "fail"] \in Objects
          BY <4>1, ObjectFacts
        <5>2. answers'[id] = answers[id]
          BY <4>1, <4>2, <5>1, <2>0, <2>1, AnswerAdds
        <5> QED
          BY <5>2 DEF Count
      <4> QED
        BY <4>1, <4>2, <3>1, <2>0, RefuseAnswers
    <3>3. CASE ExpireFirst
      <4> DEFINE head == Head(itimers).id
      <4>1. /\ head \in Ids
            /\ \/ UNCHANGED answers
               \/ /\ head \in DOMAIN timers /\ timers[head] \in Cases
                  /\ Answer(head, timers[head], "Rsp", "timeout")
        BY <3>3, <2>0, ExpireAnswers
      <4> HIDE DEF head
      <4>2. CASE /\ head \in DOMAIN timers /\ timers[head] \in Cases
                 /\ Answer(head, timers[head], "Rsp", "timeout")
        <5>1. [class |-> timers[head], kind |-> "Rsp", why |-> "timeout"] \in Objects /\ head # id
          BY <2>1, <4>2, ObjectFacts
        <5>2. answers'[id] = answers[id]
          BY <4>1, <4>2, <5>1, <2>0, AnswerAdds
        <5> QED
          BY <5>2 DEF Count
      <4> QED
        BY <4>1, <4>2, <3>1
    <3>4. CASE DeliverReply
      <4>1. PICK m \in server : Deliver(m[1], <<m[2][1], m[2][2], "rsp">>, "reply")
        BY <3>4 DEF DeliverReply
      <4>2. m[1] \in Ids /\ m[1] # id /\ <<m[2][1], m[2][2], "rsp">> \in Wires
        BY <2>0, <2>1, WireFacts DEF Traces, Sent, TypeOK, AtServer
      <4> QED
        BY <4>1, <4>2, <2>0, DeliverCounts
    <3>5. CASE DeliverUnasked
      <4>1. PICK m \in Unasked : Deliver(m[1], m[2], "unasked")
        BY <3>5 DEF DeliverUnasked
      <4> QED
        BY <4>1, <2>0, WireFacts, DeliverCounts
    <3>6. ASSUME NEW i \in Ids, NEW name \in Names, send(i, name) PROVE UNCHANGED answers
      BY <3>6 DEF send
    <3>7. ASSUME \/ ConnectionChanges \/ Tick \/ Take \/ GateOpen \/ SendOk \/ StartTimer \/ LoopEnds
                 \/ LockTimers \/ ScanEnds \/ Rest \/ EraseTimer \/ UNCHANGED vars
          PROVE  UNCHANGED answers
      BY <3>7 DEF ConnectionChanges, Tick, Take, GateOpen, SendOk, StartTimer, LoopEnds, LockTimers,
                  ScanEnds, Rest, EraseTimer, vars
    <3> QED
      BY <3>1, <3>2, <3>3, <3>4, <3>5, <3>6, <3>7 DEF Next, ProccStep
  <2>3. HasAnswer(id, "reply")'
    BY <2>1, <2>2 DEF HasAnswer, Whys
  <2>4. cur' # id /\ ~Waiting(id)' /\ id \notin DOMAIN timers'
    <3>1. ASSUME NEW i \in Ids, NEW name \in Names, send(i, name)
          PROVE  cur' # id /\ ~Waiting(id)' /\ id \notin DOMAIN timers'
      <4>1. /\ DOMAIN input' = DOMAIN input \cup {Len(input) + 1}
            /\ \A k \in DOMAIN input : input'[k] = input[k]
            /\ input'[Len(input) + 1] = i
        BY <2>0, <3>1, AppendFacts DEF send, TypeOK
      <4> QED
        BY <2>1, <3>1, <4>1 DEF send, Waiting
    <3>2. CASE Take
      <4>1. /\ 1 \in DOMAIN input /\ Head(input) = input[1]
            /\ \A k \in DOMAIN input' : k + 1 \in DOMAIN input /\ input'[k] = input[k + 1]
        BY <2>0, <3>2, TailFacts DEF Take, TypeOK
      <4> QED
        BY <2>1, <3>2, <4>1 DEF Take, Waiting
    <3>3. CASE GateShut \/ SendFails \/ SendOk
      BY <2>1, <3>3, TimersAssumption DEF GateShut, SendFails, Refuse, SendOk, Waiting
    <3>4. CASE StartTimer
      BY <2>1, <3>4, TimersAssumption DEF StartTimer, Waiting
    <3>5. CASE ExpireFirst
      BY <2>1, <3>5 DEF ExpireFirst, Erase, Waiting
    <3>6. CASE EraseTimer
      BY <2>1, <3>6 DEF EraseTimer, Erase, Waiting
    <3>7. CASE \/ ConnectionChanges \/ Tick \/ GateOpen \/ LoopEnds \/ LockTimers \/ ScanEnds \/ Rest
               \/ UNCHANGED vars
      BY <2>1, <3>7 DEF ConnectionChanges, Tick, GateOpen, LoopEnds, LockTimers, ScanEnds, Rest,
                        vars, Waiting
    <3>8. CASE DeliverReply \/ DeliverUnasked
      BY <2>1, <3>8 DEF DeliverReply, DeliverUnasked, Deliver, Waiting
    <3> QED
      BY <3>1, <3>2, <3>3, <3>4, <3>5, <3>6, <3>7, <3>8 DEF Next, ProccStep
  <2> QED
    BY <2>2, <2>3, <2>4 DEF Settled, InHand, Waiting
<1> QED
  BY <1>1, Invariance, PTL DEF Spec, SettledForGood

(* OnTimer speaks for the server only when the entry of the request has    *)
(* really waited the 15 s, across the wrap of GetTickCount too.            *)
THEOREM NeverEarly == Spec => NoEarlyTimeout
<1>1. IInv /\ [Next]_vars =>
        [\A id \in Ids : Count(id, "timeout")' # Count(id, "timeout") =>
            Head(itimers).id = id /\ Head(itimers).age >= TIMEOUT]_vars
  <2> SUFFICES ASSUME IInv, [Next]_vars, NEW id \in Ids, Count(id, "timeout")' # Count(id, "timeout")
               PROVE  Head(itimers).id = id /\ Head(itimers).age >= TIMEOUT
    OBVIOUS
  <2> USE DEF pvars, tvars, nvars
  <2>0. TypeOK /\ Typed /\ Safe /\ Traces /\ Timing /\ itimers \in Seq(Entry)
    BY DEF IInv, Safe, Typed, Traces, TypeOK, Entry
  <2>1. CASE UNCHANGED answers
    BY <2>1 DEF Count
  <2>2. CASE ExpireFirst
    <3> DEFINE t == Head(itimers)
    <3>1. /\ t.id \in Ids
          /\ \/ UNCHANGED answers
             \/ /\ t.id \in DOMAIN timers /\ timers[t.id] \in Cases
                /\ Answer(t.id, timers[t.id], "Rsp", "timeout")
      BY <2>2, <2>0, ExpireAnswers
    <3>2. t.id = id
      <4> SUFFICES ASSUME t.id # id PROVE FALSE
        OBVIOUS
      <4>1. CASE /\ t.id \in DOMAIN timers /\ timers[t.id] \in Cases
                 /\ Answer(t.id, timers[t.id], "Rsp", "timeout")
        <5>1. [class |-> timers[t.id], kind |-> "Rsp", why |-> "timeout"] \in Objects
          BY <4>1, ObjectFacts
        <5>2. answers'[id] = answers[id]
          BY <3>1, <4>1, <5>1, <2>0, AnswerAdds
        <5> QED
          BY <5>2 DEF Count
      <4> QED
        BY <3>1, <4>1, <2>1
    <3>3. ppc = "scan" /\ Expired(t) /\ itimers # <<>>
      BY <2>2 DEF ExpireFirst
    <3>4. t \in Entry /\ 1 \in DOMAIN itimers /\ t = itimers[1]
      BY <2>0, <3>3, TailFacts
    <3>5. Since(tick, t) <= t.age /\ Since(tick, t) >= TIMEOUT
      BY <2>0, <3>3, <3>4 DEF Timing, Expired, Since
    <3>6. Since(tick, t) \in Nat /\ t.age \in Int /\ TIMEOUT \in Int
      <4>1. tick \in 0 .. TickMod - 1
        BY <2>0 DEF TypeOK
      <4>2. Since(tick, t) \in Nat
        BY <4>1, <3>4, SinceDiff
      <4> QED
        BY <4>2, <3>4, TimersAssumption DEF Entry
    <3> QED
      BY <3>2, <3>5, <3>6
  <2>3. CASE GateShut \/ SendFails
    <3>1. Refuse /\ ppc \in {"gate", "send"} /\ cur \in Ids /\ asked[cur] \in Names
      BY <2>3, <2>0, CurFacts DEF GateShut, SendFails
    <3>2. CASE Answer(cur, Request(asked[cur]).fail, "Rsp", "fail")
      <4>1. [class |-> Request(asked[cur]).fail, kind |-> "Rsp", why |-> "fail"] \in Objects
        BY <3>1, ObjectFacts
      <4>2. Count(id, "timeout")' = Count(id, "timeout")
        BY <3>1, <3>2, <4>1, <2>0, AnswerAdds DEF Whys
      <4> QED
        BY <4>2
    <3> QED
      BY <3>1, <3>2, <2>0, <2>1, RefuseAnswers
  <2>4. CASE DeliverReply
    <3>1. PICK m \in server : Deliver(m[1], <<m[2][1], m[2][2], "rsp">>, "reply")
      BY <2>4 DEF DeliverReply
    <3>2. <<m[2][1], m[2][2], "rsp">> \in Wires
      BY <2>0, WireFacts DEF Traces, Sent, TypeOK
    <3>3. Count(id, "timeout")' = Count(id, "timeout")
      BY <3>1, <3>2, <2>0, DeliverCounts DEF Whys
    <3> QED
      BY <3>3
  <2>5. CASE DeliverUnasked
    <3>1. PICK m \in Unasked : Deliver(m[1], m[2], "unasked")
      BY <2>5 DEF DeliverUnasked
    <3>2. Count(id, "timeout")' = Count(id, "timeout")
      BY <3>1, <2>0, WireFacts, DeliverCounts DEF Whys
    <3> QED
      BY <3>2
  <2>6. ASSUME NEW i \in Ids, NEW name \in Names, send(i, name) PROVE UNCHANGED answers
    BY <2>6 DEF send
  <2>7. ASSUME \/ ConnectionChanges \/ Tick \/ Take \/ GateOpen \/ SendOk \/ StartTimer \/ LoopEnds
               \/ LockTimers \/ ScanEnds \/ Rest \/ EraseTimer \/ UNCHANGED vars
        PROVE  UNCHANGED answers
    BY <2>7 DEF ConnectionChanges, Tick, Take, GateOpen, SendOk, StartTimer, LoopEnds, LockTimers,
                ScanEnds, Rest, EraseTimer, vars
  <2> QED
    BY <2>1, <2>2, <2>3, <2>4, <2>5, <2>6, <2>7 DEF Next, ProccStep
<1> QED
  BY <1>1, Invariance, PTL DEF Spec, NoEarlyTimeout

(* TestTimers may stop at the first entry that is not due: behind it there *)
(* is none that was due when it read the tick count.                       *)
THEOREM ScanMissesNone == Spec => ScanIsComplete
<1>1. IInv /\ [Next]_vars =>
        [timers_lock = Procc /\ timers_lock' = Free =>
            \A k \in DOMAIN itimers : ~Expired(itimers[k])]_vars
  <2> SUFFICES ASSUME IInv, [Next]_vars, timers_lock = Procc, timers_lock' = Free,
                      NEW k \in DOMAIN itimers
               PROVE  ~Expired(itimers[k])
    OBVIOUS
  <2> USE DEF pvars, tvars, nvars
  <2>0. TypeOK /\ Hands /\ Timing /\ itimers \in Seq(Entry) /\ ppc = "scan"
    BY DEF IInv, Safe, Typed, TypeOK, Entry, Hands
  <2>1. ScanEnds
    <3>1. timers_lock' # timers_lock
      BY TimersAssumption
    <3>2. ASSUME NEW i \in Ids, NEW name \in Names, send(i, name) PROVE UNCHANGED timers_lock
      BY <3>2 DEF send
    <3>3. ASSUME \/ ConnectionChanges \/ Tick \/ Take \/ GateShut \/ SendFails \/ GateOpen \/ SendOk
                 \/ StartTimer \/ LoopEnds
          PROVE  UNCHANGED timers_lock
      BY <3>3 DEF ConnectionChanges, Tick, Take, GateShut, SendFails, Refuse, GateOpen, SendOk,
                  StartTimer, LoopEnds
    <3>4. ASSUME \/ ExpireFirst \/ Rest \/ DeliverReply \/ DeliverUnasked \/ EraseTimer
                 \/ UNCHANGED vars
          PROVE  UNCHANGED timers_lock
      BY <3>4 DEF ExpireFirst, Rest, DeliverReply, DeliverUnasked, Deliver, EraseTimer, vars
    <3>5. ~LockTimers
      BY <2>0 DEF LockTimers
    <3> QED
      BY <3>1, <3>2, <3>3, <3>4, <3>5 DEF Next, ProccStep
  <2>2. /\ DOMAIN itimers = 1 .. Len(itimers) /\ Len(itimers) \in Nat /\ itimers # <<>>
        /\ \A j \in DOMAIN itimers : itimers[j] \in Entry
    BY <2>0, LenProperties, EmptySeq
  <2>3. 1 \in DOMAIN itimers /\ Head(itimers) = itimers[1]
    BY <2>0, <2>2, TailFacts
  <2>4. ~Expired(itimers[1])
    BY <2>1, <2>2, <2>3 DEF ScanEnds
  <2>5. \A j \in DOMAIN itimers : Since(tick, itimers[j]) \in Nat
    <3>1. tick \in 0 .. TickMod - 1
      BY <2>0 DEF TypeOK
    <3> QED
      BY <3>1, <2>2, SinceDiff
  <2>6. k = 1 \/ 1 < k
    BY <2>2
  <2>7. k = 1 \/ Since(tick, itimers[1]) >= Since(tick, itimers[k])
    BY <2>0, <2>3, <2>6 DEF Timing
  <2> QED
    BY <2>3, <2>4, <2>5, <2>7, TimersAssumption DEF Expired, Since
<1> QED
  BY <1>1, Invariance, PTL DEF Spec, ScanIsComplete

-----------------------------------------------------------------------------
(* Under tables that agree.  TLC evaluates TablesAgree on the tables of    *)
(* MessengerApi; a request outside them could be refused under the class   *)
(* of another, or timed out without an answer.                             *)

(* An answer of the right class keeps all of them right. *)
LEMMA AnswerMatches ==
    ASSUME Typed, AnswerMatchesRequest, UNCHANGED asked,
           NEW id \in Ids, NEW class, NEW kind, NEW w,
           [class |-> class, kind |-> kind, why |-> w] \in Objects,
           Answer(id, class, kind, w),
           w # "unasked" => class = asked[id] /\ kind = "Rsp"
    PROVE  AnswerMatchesRequest'
<1> DEFINE e == [class |-> class, kind |-> kind, why |-> w]
<1>1. /\ \A k \in DOMAIN answers[id] : answers'[id][k] = answers[id][k]
      /\ \A k \in DOMAIN answers'[id] : k \in DOMAIN answers[id] \/ answers'[id][k] = e
      /\ \A i \in Ids \ {id} : answers'[i] = answers[i]
  BY AnswerAdds
<1>2. e.class = class /\ e.kind = kind /\ e.why = w
  OBVIOUS
<1> HIDE DEF e
<1>3. ASSUME NEW i \in Ids, NEW k \in DOMAIN answers'[i], answers'[i][k].why # "unasked"
      PROVE  answers'[i][k].class = asked[i] /\ answers'[i][k].kind = "Rsp"
  <2>1. CASE i # id
    BY <1>1, <1>3, <2>1 DEF AnswerMatchesRequest
  <2>2. CASE i = id /\ k \in DOMAIN answers[id]
    BY <1>1, <1>3, <2>2 DEF AnswerMatchesRequest
  <2>3. CASE i = id /\ answers'[id][k] = e
    BY <1>2, <1>3, <2>3
  <2> QED
    BY <1>1, <1>3, <2>1, <2>2, <2>3
<1> QED
  BY <1>3 DEF AnswerMatchesRequest

(* Every way to answer, with the table that chose the class. *)
LEMMA StepMatches ==
    ASSUME TablesAgree(Names), Safe, AnswerMatchesRequest, [Next]_vars
    PROVE  AnswerMatchesRequest'
<1> USE DEF pvars, tvars, nvars
<1>0. TypeOK /\ Typed /\ Hands /\ Traces
  BY DEF Safe, Typed, Traces
<1>1. CASE UNCHANGED <<answers, asked>>
  BY <1>1 DEF AnswerMatchesRequest
<1>2. ASSUME NEW id \in Ids, NEW name \in Names, send(id, name) PROVE AnswerMatchesRequest'
  <2>1. Unsent(id) /\ UNCHANGED answers /\ \A i \in Ids \ {id} : asked'[i] = asked[i]
    BY <1>0, <1>2 DEF send, Unsent, TypeOK
  <2>2. ~HasAnswer(id, "fail") /\ ~HasAnswer(id, "timeout") /\ ~HasAnswer(id, "reply")
    BY <1>0, <2>1 DEF Traces, Untouched
  <2>3. \A k \in DOMAIN answers[id] : answers[id][k] \in Objects
    <3>1. answers[id] \in Seq(Objects)
      BY <1>0 DEF Typed
    <3> QED
      BY <3>1, LenProperties
  <2>4. \A k \in DOMAIN answers[id] : answers[id][k].why = "unasked"
    BY <2>2, <2>3 DEF Objects, Whys, HasAnswer, Count
  <2> QED
    BY <2>1, <2>4 DEF AnswerMatchesRequest
<1>3. CASE GateShut \/ SendFails
  <2> DEFINE name == asked[cur]
  <2>1. Refuse /\ ppc \in {"gate", "send"} /\ cur \in Ids /\ name \in Names /\ UNCHANGED asked
    BY <1>3, CurFacts DEF GateShut, SendFails, Refuse
  <2>2. Request(name).fail \in {None, name}
    BY <2>1 DEF TablesAgree
  <2> HIDE DEF name
  <2>3. CASE Request(name).fail # None /\ Answer(cur, Request(name).fail, "Rsp", "fail")
    <3>1. [class |-> Request(name).fail, kind |-> "Rsp", why |-> "fail"] \in Objects
      BY <2>1, ObjectFacts
    <3> QED
      BY <1>0, <2>1, <2>2, <2>3, <3>1, AnswerMatches DEF name
  <2>4. \/ UNCHANGED answers
        \/ Request(name).fail # None /\ Answer(cur, Request(name).fail, "Rsp", "fail")
    BY <2>1 DEF Refuse, name
  <2> QED
    BY <1>1, <2>1, <2>3, <2>4
<1>4. CASE ExpireFirst
  <2> DEFINE id == Head(itimers).id
  <2>1. /\ id \in Ids /\ UNCHANGED asked
        /\ \/ UNCHANGED answers
           \/ /\ id \in DOMAIN timers /\ timers[id] \in Cases
              /\ Answer(id, timers[id], "Rsp", "timeout")
    BY <1>4, ExpireAnswers DEF ExpireFirst
  <2> HIDE DEF id
  <2>2. CASE /\ id \in DOMAIN timers /\ timers[id] \in Cases
             /\ Answer(id, timers[id], "Rsp", "timeout")
    <3>1. Queued(id) /\ timers[id] = Request(asked[id]).timer /\ ~Unsent(id)
      BY <1>0, <2>1, <2>2 DEF Traces, Entries, Untouched
    <3>2. asked[id] \in Names
      BY <1>0, <2>1, <3>1 DEF Unsent, TypeOK
    <3>3. timers[id] = asked[id]
      BY <2>2, <3>1, <3>2 DEF TablesAgree
    <3>4. [class |-> timers[id], kind |-> "Rsp", why |-> "timeout"] \in Objects
      BY <2>2, ObjectFacts
    <3> QED
      BY <1>0, <2>1, <2>2, <3>3, <3>4, AnswerMatches
  <2> QED
    BY <1>1, <2>1, <2>2
<1>5. CASE DeliverReply
  <2>1. PICK m \in server : m[2][3] = "req" /\ Deliver(m[1], <<m[2][1], m[2][2], "rsp">>, "reply")
    BY <1>5 DEF DeliverReply
  <2> DEFINE id == m[1]
             wire == <<m[2][1], m[2][2], "rsp">>
  <2>2. id \in Ids /\ asked[id] \in Names /\ m[2] = Request(asked[id]).wire /\ UNCHANGED asked
    BY <1>0, <2>1 DEF Traces, Sent, TypeOK, Deliver
  <2>3. wire \in Wires /\ Dispatch(wire).kind # "Ind"
        /\ (Dispatch(wire).kind = "Rsp" => Dispatch(wire).class = asked[id])
    BY <2>1, <2>2, WireFacts DEF TablesAgree
  <2>4. \/ UNCHANGED answers
        \/ /\ Dispatch(wire).kind \in {"Rsp", "Ind"}
           /\ Answer(id, Dispatch(wire).class, Dispatch(wire).kind, "reply")
    BY <2>1 DEF Deliver
  <2> HIDE DEF id, wire
  <2>5. CASE /\ Dispatch(wire).kind \in {"Rsp", "Ind"}
             /\ Answer(id, Dispatch(wire).class, Dispatch(wire).kind, "reply")
    <3>1. [class |-> Dispatch(wire).class, kind |-> Dispatch(wire).kind, why |-> "reply"] \in Objects
      BY <2>3, <2>5, ObjectFacts
    <3> QED
      BY <1>0, <2>2, <2>3, <2>5, <3>1, AnswerMatches
  <2> QED
    BY <1>1, <2>2, <2>4, <2>5
<1>6. CASE DeliverUnasked
  <2>1. PICK m \in Unasked : Deliver(m[1], m[2], "unasked")
    BY <1>6 DEF DeliverUnasked
  <2> DEFINE id == m[1]
             wire == m[2]
  <2>2. wire \in Wires /\ UNCHANGED asked
    BY <2>1, WireFacts DEF Deliver
  <2>3. \/ UNCHANGED answers
        \/ /\ id \in Ids /\ Dispatch(wire).kind \in {"Rsp", "Ind"}
           /\ Answer(id, Dispatch(wire).class, Dispatch(wire).kind, "unasked")
    BY <2>1 DEF Deliver
  <2> HIDE DEF id, wire
  <2>4. CASE /\ id \in Ids /\ Dispatch(wire).kind \in {"Rsp", "Ind"}
             /\ Answer(id, Dispatch(wire).class, Dispatch(wire).kind, "unasked")
    <3>1. [class |-> Dispatch(wire).class, kind |-> Dispatch(wire).kind, why |-> "unasked"] \in Objects
      BY <2>2, <2>4, ObjectFacts
    <3> QED
      BY <1>0, <2>2, <2>4, <3>1, AnswerMatches
  <2> QED
    BY <1>1, <2>2, <2>3, <2>4
<1>7. CASE \/ ConnectionChanges \/ Tick \/ Take \/ GateOpen \/ SendOk \/ StartTimer \/ LoopEnds
           \/ LockTimers \/ ScanEnds \/ Rest \/ EraseTimer \/ UNCHANGED vars
  <2>1. UNCHANGED <<answers, asked>>
    BY <1>7 DEF ConnectionChanges, Tick, Take, GateOpen, SendOk, StartTimer, LoopEnds, LockTimers,
                ScanEnds, Rest, EraseTimer, vars
  <2> QED
    BY <1>1, <2>1
<1> QED
  BY <1>2, <1>3, <1>4, <1>5, <1>6, <1>7 DEF Next, ProccStep

(* A refusal, a timeout and a reply to X_Req all reach the application as  *)
(* X_Rsp, in every order of the threads, when the tables agree.            *)
THEOREM AnswersMatch ==
    ASSUME TablesAgree(Names)
    PROVE  Spec => []AnswerMatchesRequest
<1>1. Init => AnswerMatchesRequest
  BY DEF Init, AnswerMatchesRequest
<1>2. IInv /\ AnswerMatchesRequest /\ [Next]_vars => AnswerMatchesRequest'
  BY StepMatches DEF IInv
<1> QED
  BY <1>1, <1>2, Invariance, PTL DEF Spec

(* What a step adds to the answers: nothing is taken back, and only the    *)
(* steps named here add anything.                                          *)
LEMMA AnswersGrow ==
    ASSUME Safe, [Next]_vars
    PROVE  \A id \in Ids : answers[id] # <<>> => answers'[id] # <<>>
<1> USE DEF pvars, tvars, nvars
<1>0. Typed /\ Traces
  BY DEF Safe, Traces
<1>1. CASE UNCHANGED answers
  BY <1>1
<1>2. CASE GateShut \/ SendFails
  <2>1. Refuse /\ ppc \in {"gate", "send"} /\ cur \in Ids /\ asked[cur] \in Names
    BY <1>2, CurFacts DEF GateShut, SendFails
  <2>2. [class |-> Request(asked[cur]).fail, kind |-> "Rsp", why |-> "fail"] \in Objects
    BY <2>1, ObjectFacts
  <2> QED
    BY <1>0, <1>1, <2>1, <2>2, RefuseAnswers, AnswerAdds
<1>3. CASE ExpireFirst
  <2> DEFINE id == Head(itimers).id
  <2>1. /\ id \in Ids
        /\ \/ UNCHANGED answers
           \/ timers[id] \in Cases /\ Answer(id, timers[id], "Rsp", "timeout")
    BY <1>3, ExpireAnswers
  <2> HIDE DEF id
  <2> QED
    BY <1>0, <1>1, <2>1, ObjectFacts, AnswerAdds
<1>4. ASSUME NEW id, NEW wire \in Wires, NEW why \in {"reply", "unasked"}, Deliver(id, wire, why)
      PROVE  \A i \in Ids : answers[i] # <<>> => answers'[i] # <<>>
  BY <1>0, <1>1, <1>4, DeliverAnswers, ObjectFacts, AnswerAdds
<1>5. CASE DeliverReply
  <2>1. PICK m \in server : Deliver(m[1], <<m[2][1], m[2][2], "rsp">>, "reply")
    BY <1>5 DEF DeliverReply
  <2>2. <<m[2][1], m[2][2], "rsp">> \in Wires
    BY <1>0, WireFacts DEF Traces, Sent, Typed, TypeOK
  <2> QED
    BY <1>4, <2>1, <2>2
<1>6. CASE DeliverUnasked
  BY <1>4, <1>6, WireFacts DEF DeliverUnasked
<1>7. ASSUME NEW i \in Ids, NEW name \in Names, send(i, name) PROVE UNCHANGED answers
  BY <1>7 DEF send
<1>8. CASE \/ ConnectionChanges \/ Tick \/ Take \/ GateOpen \/ SendOk \/ StartTimer \/ LoopEnds
           \/ LockTimers \/ ScanEnds \/ Rest \/ EraseTimer \/ UNCHANGED vars
  BY <1>1, <1>8 DEF ConnectionChanges, Tick, Take, GateOpen, SendOk, StartTimer, LoopEnds, LockTimers,
              ScanEnds, Rest, EraseTimer, vars
<1> QED
  BY <1>1, <1>2, <1>3, <1>5, <1>6, <1>7, <1>8 DEF Next, ProccStep

(* BinStream's switch has answered, or noted that it has not, before its   *)
(* tail erases.                                                            *)
LEMMA StepErasing ==
    ASSUME Safe, Erasing, [Next]_vars
    PROVE  Erasing'
<1> USE DEF pvars, tvars, nvars
<1>0. Typed /\ Traces
  BY DEF Safe, Traces
<1>1. \A id \in Ids : answers[id] # <<>> => answers'[id] # <<>>
  BY AnswersGrow
<1>2. ASSUME NEW id, NEW wire \in Wires, NEW why \in {"reply", "unasked"}, Deliver(id, wire, why)
      PROVE  Erasing'
  <2>1. CASE why = "reply" /\ Dispatch(wire).kind = "Rsp" /\ id \in Ids
    <3>1. Answer(id, Dispatch(wire).class, Dispatch(wire).kind, why)
      BY <1>2, <2>1 DEF Deliver
    <3>2. answers'[id] # <<>>
      BY <1>0, <1>2, <2>1, <3>1, ObjectFacts, AnswerAdds
    <3> QED
      BY <1>2, <3>2 DEF Deliver, Erasing
  <2>2. CASE ~(why = "reply" /\ Dispatch(wire).kind = "Rsp")
    BY <1>2, <2>2 DEF Deliver, Erasing
  <2>3. CASE id \notin Ids
    BY <1>2, <2>3 DEF Deliver, Erasing
  <2> QED
    BY <2>1, <2>2, <2>3
<1>3. CASE DeliverReply
  <2>1. PICK m \in server : Deliver(m[1], <<m[2][1], m[2][2], "rsp">>, "reply")
    BY <1>3 DEF DeliverReply
  <2>2. <<m[2][1], m[2][2], "rsp">> \in Wires
    BY <1>0, WireFacts DEF Traces, Sent, Typed, TypeOK
  <2> QED
    BY <1>2, <2>1, <2>2
<1>4. CASE DeliverUnasked
  BY <1>2, <1>4, WireFacts DEF DeliverUnasked
<1>5. CASE EraseTimer
  BY <1>5 DEF EraseTimer, Erasing
<1>6. ASSUME NEW i \in Ids, NEW name \in Names, send(i, name) PROVE UNCHANGED <<npc, nid, overheard>>
  BY <1>6 DEF send
<1>7. CASE \/ ConnectionChanges \/ Tick \/ ProccStep \/ UNCHANGED vars
  <2>1. UNCHANGED <<npc, nid, overheard>>
    BY <1>7 DEF ProccStep, ConnectionChanges, Tick, Take, GateShut, SendFails, Refuse, GateOpen, SendOk,
                StartTimer, LoopEnds, LockTimers, ExpireFirst, ScanEnds, Rest, vars
  <2> QED
    BY <1>1, <2>1 DEF Erasing
<1> QED
  BY <1>1, <1>3, <1>4, <1>5, <1>6, <1>7 DEF Next, Erasing

(* The premise of PendingIsTimed. *)
Pending(id) ==
    /\ asked[id] # None /\ cur # id /\ ~Waiting(id) /\ answers[id] = <<>>
    /\ Request(asked[id]).timer \in Cases /\ id \notin overheard

Timed == \A id \in Ids : Pending(id) => id \in DOMAIN timers /\ Queued(id)

(* A request leaves Procc's hands answered or timed, and loses its timer   *)
(* only with an answer or to a message that is none.                       *)
LEMMA StepTimed ==
    ASSUME TablesAgree(Names), Safe, Erasing, Timed, [Next]_vars
    PROVE  Timed'
<1> USE DEF pvars, tvars, nvars
<1>0. TypeOK /\ Typed /\ Hands /\ Traces /\ None \notin Names \cup Ids \cup Cases
  BY TimersAssumption DEF Safe, Typed, Traces
<1>1. \A id \in Ids : answers'[id] = <<>> => answers[id] = <<>>
  BY AnswersGrow
<1> SUFFICES ASSUME NEW id \in Ids, Pending(id)'
             PROVE  id \in DOMAIN timers' /\ Queued(id)'
  BY DEF Timed
<1>2. Pending(id) => id \in DOMAIN timers /\ Queued(id)
  BY DEF Timed
<1>3. ASSUME NEW i \in Ids, NEW name \in Names, send(i, name)
      PROVE  id \in DOMAIN timers' /\ Queued(id)'
  <2>1. /\ DOMAIN input' = DOMAIN input \cup {Len(input) + 1}
        /\ \A k \in DOMAIN input : input'[k] = input[k]
        /\ input'[Len(input) + 1] = i
    BY <1>0, <1>3, AppendFacts DEF send, TypeOK
  <2>2. id # i /\ asked'[id] = asked[id] /\ ~Waiting(id)
    BY <1>0, <1>3, <2>1 DEF send, Pending, Waiting, TypeOK
  <2> QED
    BY <1>2, <1>3, <2>2 DEF Pending, send, Queued
<1>4. CASE Take
  <2>1. \A k \in DOMAIN input : k = 1 \/ (k - 1 \in DOMAIN input' /\ input'[k - 1] = input[k])
    BY <1>0, <1>4, TailFacts DEF Take, TypeOK
  <2>2. cur' = input[1]
    BY <1>0, <1>4, TailFacts DEF Take, TypeOK
  <2>3. ~Waiting(id)
    BY <2>1, <2>2 DEF Pending, Waiting
  <2>4. cur = None
    BY <1>0, <1>4 DEF Hands, Take
  <2> QED
    BY <1>0, <1>2, <1>4, <2>3, <2>4 DEF Pending, Take, Queued
<1>5. CASE GateShut \/ SendFails
  <2>1. Refuse /\ ppc \in {"gate", "send"} /\ cur \in Ids /\ asked[cur] \in Names
    BY <1>5, CurFacts DEF GateShut, SendFails
  <2>2. CASE id = cur
    <3>1. Request(asked[cur]).fail # None
      BY <1>0, <2>1, <2>2 DEF Pending, Refuse, TablesAgree
    <3>2. Answer(cur, Request(asked[cur]).fail, "Rsp", "fail")
      BY <2>1, <3>1 DEF Refuse
    <3>3. answers'[cur] # <<>>
      BY <1>0, <2>1, <3>2, ObjectFacts, AnswerAdds
    <3> QED
      BY <2>2, <3>3 DEF Pending
  <2>3. CASE id # cur
    BY <1>1, <1>2, <2>1, <2>3 DEF Pending, Waiting, Refuse, Queued
  <2> QED
    BY <2>2, <2>3
<1>6. CASE SendOk
  BY <1>0, <1>2, <1>6 DEF SendOk, Pending, Waiting, Queued
<1>7. CASE StartTimer
  <2> DEFINE e == [id |-> cur, tick |-> clock, age |-> 0]
  <2>1. cur \in Ids
    BY <1>7, CurFacts DEF StartTimer
  <2>2. e \in Entry /\ e.id = cur
    BY <1>0, <2>1, TimersAssumption DEF TypeOK, Entry
  <2>3. itimers' = Append(itimers, e) /\ itimers \in Seq(Entry)
    BY <1>0, <1>7 DEF StartTimer, TypeOK, Entry
  <2> HIDE DEF e
  <2>4. /\ DOMAIN itimers' = DOMAIN itimers \cup {Len(itimers) + 1}
        /\ \A k \in DOMAIN itimers : itimers'[k] = itimers[k]
        /\ itimers'[Len(itimers) + 1] = e
    BY <2>2, <2>3, AppendFacts
  <2>5. DOMAIN timers' = DOMAIN timers \cup {cur}
    BY <1>7 DEF StartTimer
  <2>6. Queued(id) => Queued(id)'
    BY <1>7, <2>2, <2>4 DEF Queued
  <2>7. CASE id # cur
    BY <1>2, <1>7, <2>5, <2>6, <2>7 DEF StartTimer, Pending, Waiting
  <2>8. CASE id = cur
    BY <1>7, <2>2, <2>4, <2>5, <2>8 DEF Queued
  <2> QED
    BY <2>7, <2>8
<1>8. CASE ExpireFirst
  <2> DEFINE head == Head(itimers).id
  <2>1. Pending(id)
    BY <1>1, <1>8 DEF ExpireFirst, Pending, Waiting
  <2>2. id \in DOMAIN timers /\ Queued(id) /\ timers[id] \in Cases
    BY <1>0, <1>2, <2>1 DEF Traces, Entries, Pending
  <2>3. /\ head \in Ids
        /\ \/ /\ head \in DOMAIN timers /\ timers[head] \in Cases /\ Erase(head)
              /\ Answer(head, timers[head], "Rsp", "timeout")
           \/ UNCHANGED answers /\ head \in DOMAIN timers /\ timers[head] \notin Cases /\ Erase(head)
           \/ UNCHANGED <<answers, timers>> /\ head \notin DOMAIN timers
    BY <1>8, ExpireAnswers
  <2>4. /\ 1 \in DOMAIN itimers /\ itimers[1].id = head
        /\ \A k \in DOMAIN itimers : k = 1 \/ (k - 1 \in DOMAIN itimers' /\ itimers'[k - 1] = itimers[k])
    <3>1. itimers \in Seq(Entry) /\ itimers # <<>> /\ itimers' = Tail(itimers)
      BY <1>0, <1>8 DEF ExpireFirst, TypeOK, Entry
    <3> QED
      BY <3>1, TailFacts
  <2> HIDE DEF head
  <2>5. head # id
    <3> SUFFICES ASSUME head = id PROVE FALSE
      OBVIOUS
    <3>1. Answer(id, timers[id], "Rsp", "timeout")
      BY <2>2, <2>3
    <3>2. answers'[id] # <<>>
      BY <1>0, <2>2, <3>1, ObjectFacts, AnswerAdds
    <3> QED
      BY <3>2 DEF Pending
  <2>6. id \in DOMAIN timers'
    BY <1>0, <2>2, <2>3, <2>5, MapDomains
  <2>7. Queued(id)'
    BY <2>2, <2>4, <2>5 DEF Queued
  <2> QED
    BY <2>6, <2>7
<1>9. CASE DeliverReply \/ DeliverUnasked
  <2>1. UNCHANGED <<asked, cur, input, timers, itimers>> /\ overheard \subseteq overheard'
    BY <1>9 DEF DeliverReply, DeliverUnasked, Deliver
  <2> QED
    BY <1>1, <1>2, <2>1 DEF Pending, Waiting, Queued
<1>10. CASE EraseTimer
  <2>1. Pending(id) /\ id # nid
    BY <1>10 DEF EraseTimer, Pending, Waiting, Erasing
  <2> QED
    BY <1>0, <1>2, <1>10, <2>1, MapDomains DEF EraseTimer, Queued
<1>11. CASE Tick
  <2>1. /\ DOMAIN itimers' = DOMAIN itimers
        /\ \A k \in DOMAIN itimers : itimers'[k].id = itimers[k].id
    BY <1>0, <1>11, LenProperties DEF Tick, TypeOK
  <2> QED
    BY <1>2, <1>11, <2>1 DEF Tick, Pending, Waiting, Queued
<1>12. CASE ConnectionChanges \/ GateOpen \/ LoopEnds \/ LockTimers \/ ScanEnds \/ Rest \/ UNCHANGED vars
  BY <1>2, <1>12 DEF ConnectionChanges, GateOpen, LoopEnds, LockTimers, ScanEnds, Rest, vars,
                     Pending, Waiting, Queued
<1> QED
  BY <1>3, <1>4, <1>5, <1>6, <1>7, <1>8, <1>9, <1>10, <1>11, <1>12 DEF Next, ProccStep

(* A request that left Procc's hands unanswered is in the map and in the   *)
(* queue of timers, so that TestTimers will answer for it, unless a        *)
(* message that is no answer to it came under its id.                      *)
THEOREM PendingAreTimed ==
    ASSUME TablesAgree(Names)
    PROVE  Spec => []PendingIsTimed
<1>1. Init => Erasing /\ Timed
  BY DEF Init, Erasing, Timed, Pending
<1>2. IInv /\ Erasing /\ Timed /\ [Next]_vars => Erasing' /\ Timed'
  BY StepErasing, StepTimed DEF IInv
<1>3. Timed => PendingIsTimed
  BY DEF Timed, Pending, Waiting, Queued, PendingIsTimed, InHand
<1> QED
  BY <1>1, <1>2, <1>3, Invariance, PTL DEF Spec

-----------------------------------------------------------------------------
(* What goes out of the request: its message (RequestBuilder). *)

(* What an element of stack is. *)
TagsOf == {""} \cup {o.tag : o \in Operations}
Frames == [b : Builder, ops : Seq(Operations), tag : TagsOf]

FramesOK ==
    /\ h \in DOMAIN Handlers
    /\ stack \in Seq(Frames) /\ stack # <<>>
    /\ wanted \in Nat

(* A builder that has an array, which ends where the handler's ends. *)
Real(b, end) == b.size > 0 /\ b.p + b.size = end /\ b.l <= b.size

(* Nothing is wasted: each builder begins four bytes behind what the one   *)
(* around it has used, and all that was wanted so far is there.  There may *)
(* be too little room for the innermost to be given any: no more than for  *)
(* the four bytes in front of it.                                          *)
Exact(s, end, w) ==
    LET n == Len(s)
    IN  /\ \A i \in 1 .. n - 1 : Real(s[i].b, end)
        /\ \A i \in 1 .. n - 1 : s[i + 1].b.size > 0 => s[i + 1].b.p = GetPS(s[i].b) + 4
        /\ \/ Real(s[n].b, end) /\ w = GetPS(s[n].b)
           \/ /\ n > 1 /\ s[n].b.size = 0 /\ s[n].b.l = 0
              /\ EmptySize(s[n - 1].b) <= 4 /\ w = GetPS(s[n - 1].b) + 4

Size == Handlers[h].size

(* Either more is wanted than there is room for, or all of it is there. *)
AllThere == wanted > Size \/ (lost = {} /\ Exact(stack, Size, wanted))

-----------------------------------------------------------------------------
(* Sequences *)

(* The last element is exchanged for another. *)
LEMMA TopReplaced ==
    ASSUME NEW S, NEW s \in Seq(S), s # <<>>, NEW f \in S
    PROVE  LET r == Append(SubSeq(s, 1, Len(s) - 1), f)
           IN  /\ r \in Seq(S) /\ r # <<>> /\ Len(r) = Len(s)
               /\ \A i \in 1 .. Len(s) - 1 : r[i] = s[i]
               /\ r[Len(s)] = f
<1> DEFINE n == Len(s)
           c == SubSeq(s, 1, n - 1)
           r == Append(c, f)
<1>1. n \in Nat /\ n > 0
  BY EmptySeq, LenProperties
<1>2. c \in Seq(S) /\ Len(c) = n - 1 /\ \A i \in 1 .. n - 1 : c[i] = s[i]
  <2>1. ASSUME NEW i \in 1 .. n - 1 PROVE s[i] \in S
    <3>1. i \in 1 .. n
      BY <1>1
    <3> QED
      BY <3>1, ElementOfSeq
  <2>2. /\ n - 1 \in Int
        /\ 1 <= n - 1 => n - 1 - 1 + 1 = n - 1
        /\ ~(1 <= n - 1) => n - 1 = 0
    <3> HIDE DEF n
    <3> QED
      BY <1>1
  <2>3. \A i \in 1 .. n - 1 : 1 + i - 1 = i /\ i \in 1 .. n - 1 - 1 + 1
    BY <1>1
  <2>4. /\ c \in Seq(S)
        /\ Len(c) = IF 1 <= n - 1 THEN n - 1 - 1 + 1 ELSE 0
        /\ \A i \in 1 .. n - 1 - 1 + 1 : c[i] = s[1 + i - 1]
    BY <2>1, <2>2, SubSeqProperties
  <2> HIDE DEF c, n
  <2> QED
    BY <2>2, <2>3, <2>4
<1> HIDE DEF c, n
<1>3. /\ r \in Seq(S) /\ r # <<>> /\ Len(r) = Len(c) + 1
      /\ \A i \in 1 .. Len(c) : r[i] = c[i]
      /\ r[Len(c) + 1] = f
  BY <1>2, AppendProperties
<1>4. n - 1 + 1 = n
  BY <1>1
<1> QED
  BY <1>2, <1>3, <1>4 DEF r, c, n

(* ops, k times over. *)
LEMMA CopiesAre ==
    ASSUME NEW S, NEW s \in Seq(S), NEW k \in Nat
    PROVE  Copies(s, k) \in Seq(S)
<1> DEFINE n == Len(s)
<1>1. n \in Nat
  OBVIOUS
<1>2. ASSUME NEW i \in 1 .. k * n PROVE s[((i - 1) % n) + 1] \in S
  <2>1. n > 0
    BY <1>1
  <2>2. (i - 1) % n \in 0 .. n - 1
    <3>1. i - 1 \in Nat
      OBVIOUS
    <3> QED
      BY <1>1, <2>1, <3>1
  <2> QED
    BY <1>1, <2>2
<1>3. k * n \in Nat
  BY <1>1
<1> QED
  BY <1>2, <1>3 DEF Copies

-----------------------------------------------------------------------------
(* What the calls keep *)

(* An element of stack has a builder, operations and a tag. *)
LEMMA FrameFacts ==
    ASSUME NEW f \in Frames
    PROVE  /\ f.b \in Builder /\ f.ops \in Seq(Operations) /\ f.tag \in TagsOf
           /\ f.b.p \in Nat /\ f.b.size \in Nat /\ f.b.l \in Nat
  BY DEF Frames, Builder

(* What Seek makes of a builder. *)
LEMMA SeekIs ==
    ASSUME NEW b \in Builder, NEW n \in Nat
    PROVE  /\ Seek(b, n) \in Builder
           /\ Seek(b, n).p = b.p /\ Seek(b, n).size = b.size
           /\ Fits(b, n) => Seek(b, n).l = b.l + n
<1>1. /\ b.p \in Nat /\ b.size \in Nat /\ b.l + n \in Nat
      /\ "ok" \in State /\ "error" \in State
  BY DEF Builder, State
<1>2. CASE Fits(b, n)
  <2>1. Seek(b, n) = [b EXCEPT !.l = b.l + n, !.state = "ok"]
    BY <1>2 DEF Seek
  <2> QED
    BY <1>1, <2>1 DEF Builder
<1>3. CASE ~Fits(b, n)
  <2>1. Seek(b, n) = [b EXCEPT !.state = "error", !.error = TRUE]
    BY <1>3 DEF Seek
  <2> QED
    BY <1>1, <1>3, <2>1 DEF Builder
<1> QED
  BY <1>2, <1>3

(* What a nested builder begins as. *)
LEMMA Init3Is ==
    ASSUME NEW data \in Nat, NEW room \in Int
    PROVE  LET b == Init3(Null, data, room, 4)
           IN  /\ b \in Builder
               /\ room <= 4 => b.size = 0 /\ b.l = 0
               /\ room > 4 => b.p = data + 4 /\ b.size = room - 4 /\ b.l = 0
<1>1. CASE room <= 4
  <2>1. Init3(Null, data, room, 4) = Null
    BY <1>1 DEF Init3
  <2>2. Null \in Builder
    BY DEF Null, Builder, State
  <2> QED
    BY <1>1, <2>1, <2>2 DEF Null
<1>2. CASE room > 4
  <2> DEFINE x == [p |-> data + 4, size |-> room - 4, l |-> 0, state |-> "empty",
                   error |-> FALSE]
  <2>1. Init3(Null, data, room, 4) = x
    <3>1. ~(4 >= room)
      BY <1>2
    <3> QED
      BY <3>1, Zenon DEF Init3, Null
  <2>2. x.p = data + 4 /\ x.size = room - 4 /\ x.l = 0
    OBVIOUS
  <2>3. x \in Builder
    <3>1. data + 4 \in Nat /\ room - 4 \in Nat
      BY <1>2
    <3> QED
      BY <3>1 DEF Builder, State
  <2>4. ~(room <= 4)
    BY <1>2
  <2> HIDE DEF x
  <2> QED
    BY <2>1, <2>2, <2>3, <2>4, Zenon
<1> QED
  BY <1>1, <1>2

(* The innermost builder takes so many bytes as are wanted more. *)
LEMMA TakesAll ==
    ASSUME NEW s \in Seq(Frames), s # <<>>, NEW f \in Frames,
           NEW end \in Nat, NEW w \in Nat, NEW m \in Nat, Exact(s, end, w),
           f.b.p = s[Len(s)].b.p, f.b.size = s[Len(s)].b.size,
           f.b.l = s[Len(s)].b.l + m, w + m <= end,
           m > 0 => s[Len(s)].b.size > 0
    PROVE  Exact(Append(SubSeq(s, 1, Len(s) - 1), f), end, w + m)
<1> DEFINE n == Len(s)
           r == Append(SubSeq(s, 1, n - 1), f)
<1>1. n \in Nat /\ n > 0
  BY EmptySeq, LenProperties
<1>2. r \in Seq(Frames) /\ Len(r) = n /\ r[n] = f /\ \A i \in 1 .. n - 1 : r[i] = s[i]
  BY TopReplaced
<1>3. /\ f.b.p \in Nat /\ f.b.size \in Nat /\ f.b.l \in Nat
  BY FrameFacts
<1>4. \A i \in 1 .. n : s[i] \in Frames
  BY <1>1
<1>5. s[n].b.p \in Nat /\ s[n].b.size \in Nat /\ s[n].b.l \in Nat
  BY <1>1, <1>4, FrameFacts
<1> HIDE DEF r
<1>6. ASSUME NEW i \in 1 .. n - 1 PROVE Real(r[i].b, end)
  BY <1>2, Zenon DEF Exact
<1>7. ASSUME NEW i \in 1 .. n - 1, r[i + 1].b.size > 0
      PROVE  r[i + 1].b.p = GetPS(r[i].b) + 4
  <2>1. s[i + 1].b.size = r[i + 1].b.size /\ s[i + 1].b.p = r[i + 1].b.p
    <3>1. i + 1 = n \/ i + 1 \in 1 .. n - 1
      BY <1>1
    <3> QED
      BY <1>2, <3>1
  <2> QED
    BY <1>2, <1>7, <2>1 DEF Exact
<1>8. CASE Real(s[n].b, end) /\ w = GetPS(s[n].b)
  <2>1. Real(f.b, end) /\ w + m = GetPS(f.b)
    <3>1. f.b.p = s[n].b.p /\ f.b.size = s[n].b.size /\ f.b.l = s[n].b.l + m
      OBVIOUS
    <3>2. /\ s[n].b.size > 0 /\ s[n].b.p + s[n].b.size = end
          /\ w = s[n].b.p + s[n].b.l
      BY <1>8 DEF Real, GetPS
    <3> HIDE DEF n
    <3>3. w + m = f.b.p + f.b.l
      BY <1>5, <3>1, <3>2, SMTT(30)
    <3>4. f.b.l <= f.b.size
      BY <1>3, <1>5, <3>1, <3>2, <3>3, SMTT(30)
    <3> QED
      BY <3>1, <3>2, <3>3, <3>4 DEF Real, GetPS
  <2> QED
    BY <1>2, <1>6, <1>7, <2>1 DEF Exact, r
<1>9. CASE /\ n > 1 /\ s[n].b.size = 0 /\ s[n].b.l = 0
           /\ EmptySize(s[n - 1].b) <= 4 /\ w = GetPS(s[n - 1].b) + 4
  <2>1. m = 0 /\ w + m = w /\ f.b.size = 0 /\ f.b.l = 0
    BY <1>5, <1>9
  <2>2. r[n - 1] = s[n - 1]
    BY <1>1, <1>2, <1>9
  <2> QED
    BY <1>2, <1>6, <1>7, <1>9, <2>1, <2>2 DEF Exact, r
<1> QED
  BY <1>8, <1>9 DEF Exact

(* A builder inside the innermost one. *)
LEMMA OpensExact ==
    ASSUME NEW s \in Seq(Frames), NEW f \in Frames, NEW g \in Frames,
           NEW end \in Nat, NEW w \in Nat, s # <<>>, Exact(s, end, w),
           w + 4 <= end, f.b = s[Len(s)].b,
           g.b = Init3(Null, GetPS(f.b), EmptySize(f.b), 4)
    PROVE  Exact(Append(Append(SubSeq(s, 1, Len(s) - 1), f), g), end, w + 4)
<1> DEFINE n == Len(s)
           r == Append(SubSeq(s, 1, n - 1), f)
           t == Append(r, g)
<1>1. n \in Nat /\ n > 0
  BY EmptySeq, LenProperties
<1>2. r \in Seq(Frames) /\ Len(r) = n /\ r[n] = f /\ \A i \in 1 .. n - 1 : r[i] = s[i]
  BY TopReplaced
<1>3. \A i \in 1 .. n : s[i] \in Frames
  <2> SUFFICES ASSUME NEW i \in 1 .. n PROVE s[i] \in Frames
    OBVIOUS
  <2> QED
    BY ElementOfSeq
<1> HIDE DEF r, n
<1>4. /\ t \in Seq(Frames) /\ Len(t) = n + 1 /\ t[n + 1] = g
      /\ \A i \in 1 .. n : t[i] = r[i]
  BY <1>2, AppendProperties
<1>5. t[n] = f /\ \A i \in 1 .. n - 1 : t[i] = s[i]
  BY <1>1, <1>2, <1>4
<1> HIDE DEF t
<1>6. \A i \in 1 .. n : t[i].b = s[i].b
  <2> SUFFICES ASSUME NEW i \in 1 .. n PROVE t[i].b = s[i].b
    OBVIOUS
  <2>1. i = n \/ i \in 1 .. n - 1
    BY <1>1
  <2> QED
    BY <1>5, <2>1 DEF n
<1>7. /\ \A i \in 1 .. n - 1 : Real(s[i].b, end)
      /\ \A i \in 1 .. n - 1 : s[i + 1].b.size > 0 => s[i + 1].b.p = GetPS(s[i].b) + 4
      /\ \/ Real(s[n].b, end) /\ w = GetPS(s[n].b)
         \/ /\ n > 1 /\ s[n].b.size = 0 /\ s[n].b.l = 0
            /\ EmptySize(s[n - 1].b) <= 4 /\ w = GetPS(s[n - 1].b) + 4
  BY Zenon DEF Exact, n
<1>8. f.b = s[n].b
  BY DEF n
<1>9. Real(f.b, end) /\ w = GetPS(f.b)
  <2>1. CASE /\ n > 1 /\ EmptySize(s[n - 1].b) <= 4 /\ w = GetPS(s[n - 1].b) + 4
    <3>1. n - 1 \in 1 .. n - 1 /\ n - 1 \in 1 .. n
      BY <1>1, <2>1
    <3> DEFINE b == s[n - 1].b
    <3>2. b.p \in Nat /\ b.size \in Nat /\ b.l \in Nat
      BY <1>3, <3>1, FrameFacts
    <3>3. b.p + b.size = end /\ b.size - b.l <= 4 /\ w = b.p + b.l + 4
      BY <1>7, <2>1, <3>1 DEF Real, EmptySize, GetPS
    <3> HIDE DEF b
    <3> QED
      BY <3>2, <3>3
  <2> QED
    BY <1>7, <1>8, <2>1
<1>10. f.b.p \in Nat /\ f.b.size \in Nat /\ f.b.l \in Nat
  BY FrameFacts
<1>11. /\ GetPS(f.b) \in Nat /\ EmptySize(f.b) \in Int
       /\ EmptySize(f.b) = end - w
  BY <1>9, <1>10, SMTT(30) DEF Real, GetPS, EmptySize
<1>12. /\ EmptySize(f.b) <= 4 => g.b.size = 0 /\ g.b.l = 0
       /\ EmptySize(f.b) > 4 =>
            g.b.p = GetPS(f.b) + 4 /\ g.b.size = EmptySize(f.b) - 4 /\ g.b.l = 0
  BY <1>11, Init3Is
<1>13. ASSUME NEW i \in 1 .. n PROVE Real(t[i].b, end)
  <2>1. i = n \/ i \in 1 .. n - 1
    BY <1>1
  <2> QED
    BY <1>6, <1>7, <1>8, <1>9, <2>1
<1>14. ASSUME NEW i \in 1 .. n, t[i + 1].b.size > 0
       PROVE  t[i + 1].b.p = GetPS(t[i].b) + 4
  <2>1. CASE i = n
    <3>1. EmptySize(f.b) > 4
      BY <1>4, <1>11, <1>12, <1>14, <2>1
    <3> QED
      BY <1>4, <1>5, <1>12, <2>1, <3>1
  <2>2. CASE i \in 1 .. n - 1
    <3>1. i + 1 \in 1 .. n
      BY <1>1, <2>2
    <3> QED
      BY <1>6, <1>7, <1>14, <2>2, <3>1
  <2> QED
    BY <1>1, <2>1, <2>2
<1>15. \/ Real(t[n + 1].b, end) /\ w + 4 = GetPS(t[n + 1].b)
       \/ /\ n + 1 > 1 /\ t[n + 1].b.size = 0 /\ t[n + 1].b.l = 0
          /\ EmptySize(t[n].b) <= 4 /\ w + 4 = GetPS(t[n].b) + 4
  <2>1. CASE EmptySize(f.b) <= 4
    BY <1>1, <1>4, <1>5, <1>9, <1>12, <2>1
  <2>2. CASE EmptySize(f.b) > 4
    <3>1. /\ t[n + 1].b.p = w + 4 /\ t[n + 1].b.size = end - w - 4
          /\ t[n + 1].b.l = 0 /\ end - w > 4
      BY <1>4, <1>9, <1>11, <1>12, <2>2
    <3> QED
      BY <3>1 DEF Real, GetPS
  <2> QED
    BY <1>11, <2>1, <2>2
<1>16. (n + 1) - 1 = n
  BY <1>1
<1>17. Exact(t, end, w + 4)
  <2>1. Len(t) = n + 1 /\ Len(t) - 1 = n
    BY <1>4, <1>16, Zenon
  <2>2. \A i \in 1 .. n : Real(t[i].b, end)
    BY <1>13
  <2>3. \A i \in 1 .. n : t[i + 1].b.size > 0 => t[i + 1].b.p = GetPS(t[i].b) + 4
    BY <1>14
  <2> QED
    BY <1>15, <2>1, <2>2, <2>3, Zenon DEF Exact
<1> QED
  BY <1>17 DEF t, r, n

(* There is room for what is wanted of a nested builder. *)
LEMMA TakenOver ==
    ASSUME NEW o \in Builder, NEW inner \in Nat, NEW end \in Nat, NEW w \in Nat,
           Real(o, end), w = GetPS(o) + 4 + inner, w <= end
    PROVE  LET c == Seek(Seek(Seek(o, 2), 2), inner)
           IN  /\ Fits(o, 2) /\ Fits(Seek(o, 2), 2)
               /\ Fits(Seek(Seek(o, 2), 2), inner)
               /\ c.p = o.p /\ c.size = o.size
               /\ Real(c, end) /\ w = GetPS(c)
<1> DEFINE o2 == Seek(o, 2)
           o4 == Seek(o2, 2)
           c == Seek(o4, inner)
<1>1. o.p \in Nat /\ o.size \in Nat /\ o.l \in Nat
  BY DEF Builder
<1>2. /\ o.size # 0 /\ o.l + 4 + inner <= o.size
      /\ o.p + o.size = end /\ w = o.p + o.l + 4 + inner
  BY <1>1 DEF Real, GetPS
<1>3. Fits(o, 2)
  BY <1>1, <1>2 DEF Fits
<1>4. o2 \in Builder /\ o2.p = o.p /\ o2.size = o.size /\ o2.l = o.l + 2
  BY <1>3, SeekIs
<1> HIDE DEF o2
<1>5. Fits(o2, 2)
  BY <1>1, <1>2, <1>4 DEF Fits
<1>6. o4 \in Builder /\ o4.p = o2.p /\ o4.size = o2.size /\ o4.l = o2.l + 2
  BY <1>4, <1>5, SeekIs
<1> HIDE DEF o4
<1>7. Fits(o4, inner)
  BY <1>1, <1>2, <1>4, <1>6 DEF Fits
<1>8. c.p = o4.p /\ c.size = o4.size /\ c.l = o4.l + inner
  BY <1>6, <1>7, SeekIs
<1> HIDE DEF c
<1>9. c.p = o.p /\ c.size = o.size /\ c.l = o.l + 4 + inner
  BY <1>1, <1>4, <1>6, <1>8
<1>10. Real(c, end) /\ w = GetPS(c)
  BY <1>1, <1>2, <1>9 DEF Real, GetPS
<1> QED
  BY <1>3, <1>5, <1>7, <1>9, <1>10 DEF c, o4, o2

(* The innermost builder is taken over by the one around it: nothing is    *)
(* refused.                                                                *)
LEMMA ClosesExact ==
    ASSUME NEW s \in Seq(Frames), NEW f \in Frames, NEW end \in Nat, NEW w \in Nat,
           Len(s) > 1, Exact(s, end, w), w <= end,
           NEW o, o = s[Len(s) - 1].b, NEW inner, inner = s[Len(s)].b.l,
           f.b = Seek(Seek(Seek(o, 2), 2), inner)
    PROVE  /\ Fits(o, 2) /\ Fits(Seek(o, 2), 2)
           /\ Fits(Seek(Seek(o, 2), 2), inner)
           /\ Exact([SubSeq(s, 1, Len(s) - 1) EXCEPT ![Len(s) - 1] = f], end, w)
<1> DEFINE n == Len(s)
           c == SubSeq(s, 1, n - 1)
           r == [c EXCEPT ![n - 1] = f]
<1>1. n \in Nat /\ n > 1 /\ n - 1 \in 1 .. n - 1 /\ n - 1 \in 1 .. n /\ n \in 1 .. n
  BY LenProperties
<1>2. \A i \in 1 .. n : s[i] \in Frames
  <2> SUFFICES ASSUME NEW i \in 1 .. n PROVE s[i] \in Frames
    OBVIOUS
  <2> QED
    BY ElementOfSeq
<1>3. /\ \A i \in 1 .. n - 1 : Real(s[i].b, end)
      /\ \A i \in 1 .. n - 1 : s[i + 1].b.size > 0 => s[i + 1].b.p = GetPS(s[i].b) + 4
      /\ \/ Real(s[n].b, end) /\ w = GetPS(s[n].b)
         \/ /\ n > 1 /\ s[n].b.size = 0 /\ s[n].b.l = 0
            /\ EmptySize(s[n - 1].b) <= 4 /\ w = GetPS(s[n - 1].b) + 4
  BY Zenon DEF Exact, n
<1>4. o = s[n - 1].b /\ inner = s[n].b.l
  BY DEF n
<1>5. /\ c \in Seq(Frames) /\ Len(c) = n - 1
      /\ \A i \in 1 .. n - 1 : c[i] = s[i]
  <2> HIDE DEF n
  <2>1. \A i \in 1 .. n - 1 : s[i] \in Frames
    BY <1>1, <1>2
  <2>2. 1 \in Int /\ n - 1 \in Int /\ 1 <= n - 1 /\ n - 1 - 1 + 1 = n - 1
    BY <1>1
  <2>3. /\ c \in Seq(Frames)
        /\ Len(c) = IF 1 <= n - 1 THEN n - 1 - 1 + 1 ELSE 0
        /\ \A i \in 1 .. n - 1 - 1 + 1 : c[i] = s[1 + i - 1]
    BY <2>1, <2>2, SubSeqProperties
  <2> QED
    BY <2>2, <2>3
<1> HIDE DEF n, c
<1>6. /\ Len(r) = n - 1 /\ r[n - 1] = f
      /\ \A i \in 1 .. n - 1 : i # n - 1 => r[i] = s[i]
  BY <1>1, <1>5, ExceptSeq
<1> HIDE DEF r
<1>7. /\ o \in Builder /\ o.p \in Nat /\ o.size \in Nat /\ o.l \in Nat
      /\ s[n].b.p \in Nat /\ s[n].b.size \in Nat /\ inner \in Nat
  BY <1>1, <1>2, <1>4, FrameFacts
<1>8. Real(o, end)
  BY <1>1, <1>3, <1>4
<1>9. w = GetPS(o) + 4 + inner
  <2>1. CASE Real(s[n].b, end) /\ w = GetPS(s[n].b)
    <3>1. n - 1 + 1 = n /\ s[n].b.size > 0
      BY <1>1, <2>1 DEF Real
    <3>2. s[n].b.p = GetPS(o) + 4
      BY <1>1, <1>3, <1>4, <3>1
    <3> QED
      BY <1>4, <2>1, <3>2 DEF GetPS
  <2>2. CASE s[n].b.l = 0 /\ w = GetPS(s[n - 1].b) + 4
    BY <1>4, <1>7, <2>2 DEF GetPS
  <2> QED
    BY <1>3, <2>1, <2>2
<1>10. /\ Fits(o, 2) /\ Fits(Seek(o, 2), 2)
       /\ Fits(Seek(Seek(o, 2), 2), inner)
  BY <1>7, <1>8, <1>9, TakenOver
<1>11. f.b.p = o.p /\ f.b.size = o.size
  BY <1>7, <1>8, <1>9, TakenOver, SMTT(30)
<1>13. Real(f.b, end) /\ w = GetPS(f.b)
  BY <1>7, <1>8, <1>9, TakenOver
<1>14. ASSUME NEW i \in 1 .. n - 1 PROVE Real(r[i].b, end)
  BY <1>3, <1>6, <1>13
<1>15. ASSUME NEW i \in 1 .. n - 1 - 1, r[i + 1].b.size > 0
       PROVE  r[i + 1].b.p = GetPS(r[i].b) + 4
  <2>1. i \in 1 .. n - 1 /\ i # n - 1 /\ i + 1 \in 1 .. n - 1
    BY <1>1
  <2>2. r[i] = s[i]
    BY <1>6, <2>1
  <2>3. r[i + 1].b.p = s[i + 1].b.p /\ r[i + 1].b.size = s[i + 1].b.size
    BY <1>4, <1>6, <1>11, <2>1
  <2> QED
    BY <1>3, <1>15, <2>1, <2>2, <2>3
<1>16. Exact(r, end, w)
  <2>1. \A i \in 1 .. n - 1 - 1 : i \in 1 .. n - 1
    BY <1>1
  <2> QED
    BY <1>6, <1>13, <1>14, <1>15, <2>1, Zenon DEF Exact
<1> QED
  BY <1>10, <1>16 DEF r, c, n

-----------------------------------------------------------------------------
(* The steps *)

(* The innermost builder, and the size of the array. *)
LEMMA TopFacts ==
    ASSUME FramesOK
    PROVE  /\ Len(stack) \in Nat /\ Len(stack) > 0
           /\ Top \in Frames /\ Top = stack[Len(stack)]
           /\ Size \in Nat /\ Size < WordMax /\ HeaderSize <= Size /\ WordMax \in Nat
<1>1. Len(stack) \in Nat /\ Len(stack) > 0
  BY EmptySeq, LenProperties DEF FramesOK
<1>2. Len(stack) \in 1 .. Len(stack)
  BY <1>1
<1>3. Top \in Frames
  BY <1>2, ElementOfSeq DEF FramesOK, Top
<1>4. WordMax \in Nat
  BY BaseAssumption DEF WordMax
<1>5. Size \in HeaderSize .. WordMax - 1
  BY RequestAssumption DEF FramesOK, Size
<1> QED
  BY <1>1, <1>3, <1>4, <1>5 DEF Top, HeaderSize

(* The operation at hand. *)
LEMMA NowFacts ==
    ASSUME FramesOK, NEW op, Doing(op)
    PROVE  /\ Now \in Operations /\ Now.op = op
           /\ \A ops \in Seq(Operations) :
                 /\ Remaining(ops) \in Frames /\ Remaining(ops).b = Top.b
                 /\ \A b \in Builder : /\ [Remaining(ops) EXCEPT !.b = b] \in Frames
                                      /\ [Remaining(ops) EXCEPT !.b = b].b = b
<1>1. Top \in Frames
  BY TopFacts
<1>2. Top.ops \in Seq(Operations) /\ Top.ops # <<>> /\ Now.op = op
  BY <1>1, FrameFacts DEF Doing
<1>3. Now \in Operations /\ Tail(Top.ops) \in Seq(Operations)
  BY <1>2, HeadTailProperties DEF Now
<1>4. ASSUME NEW ops \in Seq(Operations)
      PROVE  /\ Remaining(ops) \in Frames /\ Remaining(ops).b = Top.b
             /\ \A b \in Builder : /\ [Remaining(ops) EXCEPT !.b = b] \in Frames
                                  /\ [Remaining(ops) EXCEPT !.b = b].b = b
  <2>1. ops \o Tail(Top.ops) \in Seq(Operations)
    BY <1>3, ConcatProperties
  <2> DEFINE all == ops \o Tail(Top.ops)
  <2>2. Remaining(ops) = [Top EXCEPT !.ops = all]
    BY DEF Remaining
  <2> HIDE DEF all
  <2>3. all \in Seq(Operations)
    BY <2>1 DEF all
  <2>4. Remaining(ops) \in Frames /\ Remaining(ops).b = Top.b
    BY <1>1, <2>2, <2>3 DEF Frames
  <2> QED
    BY <2>4 DEF Frames
<1> QED
  BY <1>2, <1>3, <1>4

(* An operation that adds nothing. *)
LEMMA NothingAdded ==
    ASSUME FramesOK, AllThere, NEW f \in Frames, f.b = Top.b,
           stack' = Append(Below, f), h' = h, lost' = lost, wanted' = wanted
    PROVE  FramesOK' /\ AllThere'
<1>1. FramesOK'
  BY TopReplaced DEF FramesOK, Below
<1>2. AllThere'
  <2>1. CASE wanted > Size
    BY <2>1 DEF AllThere, Size
  <2>2. CASE ~(wanted > Size) /\ lost = {} /\ Exact(stack, Size, wanted)
    <3>1. /\ wanted + 0 = wanted /\ wanted + 0 <= Size
          /\ Top.b.l + 0 = Top.b.l /\ ~(0 > 0)
      BY <2>2, TopFacts, FrameFacts DEF FramesOK
    <3>2. Exact(stack', Size, wanted)
      BY <2>2, <3>1, TakesAll, TopFacts DEF FramesOK, Below, Top
    <3> QED
      BY <2>2, <3>2 DEF AllThere, Size
  <2> QED
    BY <2>1, <2>2 DEF AllThere
<1> QED
  BY <1>1, <1>2

(* At the start there is the header. *)
LEMMA InitAllThere == BuildInit => FramesOK /\ AllThere
<1> SUFFICES ASSUME BuildInit PROVE FramesOK /\ AllThere
  OBVIOUS
<1> DEFINE o == Over(0, Size)
           b == SetHeader(o, HeaderSize)
           f == Frame(b, Handlers[h].ops, "")
<1>1. stack = << f >> /\ h \in DOMAIN Handlers /\ wanted = 8 /\ lost = {}
  BY DEF BuildInit, Size, HeaderSize
<1>2. Size \in Nat /\ 8 <= Size /\ Handlers[h].ops \in Seq(Operations)
  <2>1. WordMax \in Nat
    BY BaseAssumption DEF WordMax
  <2>2. Size \in HeaderSize .. WordMax - 1 /\ Handlers[h].ops \in Seq(Operations)
    BY <1>1, RequestAssumption DEF Size
  <2> QED
    BY <2>1, <2>2 DEF HeaderSize
<1>3. o \in Builder /\ o.p = 0 /\ o.size = Size /\ o.l = 0
  <2> DEFINE x == [p |-> 0, size |-> Size, l |-> 0, state |-> "empty",
                   error |-> FALSE]
  <2>1. o = x
    <3>1. Size # 0
      BY <1>2
    <3> QED
      BY <3>1, Zenon DEF Over
  <2>2. x.p = 0 /\ x.size = Size /\ x.l = 0
    OBVIOUS
  <2>3. x \in Builder
    BY <1>2 DEF Builder, State
  <2> HIDE DEF x
  <2> QED
    BY <2>1, <2>2, <2>3, Zenon
<1> HIDE DEF o
<1>4. Fits(o, 8)
  <2>1. Size # 0 /\ 0 + 8 <= Size
    BY <1>2
  <2> QED
    BY <1>3, <2>1, Zenon DEF Fits
<1>5. /\ Seek(o, 8) \in Builder
      /\ Seek(o, 8).p = 0 /\ Seek(o, 8).size = Size /\ Seek(o, 8).l = 8
  BY <1>3, <1>4, SeekIs
<1>6. o.state \in State /\ b = [Seek(o, 8) EXCEPT !.state = o.state]
  <2>1. o.state \in State
    BY <1>3 DEF Builder
  <2> QED
    BY <1>4, <2>1 DEF SetHeader, HeaderSize
<1> HIDE DEF b
<1>7. b \in Builder /\ b.p = 0 /\ b.size = Size /\ b.l = 8
  BY <1>5, <1>6 DEF Builder
<1>8. f \in Frames /\ f.b = b
  BY <1>2, <1>7 DEF Frame, Frames, TagsOf
<1> HIDE DEF f
<1>9. /\ stack \in Seq(Frames) /\ stack # <<>>
      /\ Len(stack) = 1 /\ stack[1] = f
  BY <1>1, <1>8
<1>10. FramesOK
  BY <1>1, <1>9 DEF FramesOK
<1>11. Real(f.b, Size) /\ wanted = GetPS(f.b)
  BY <1>1, <1>2, <1>7, <1>8 DEF Real, GetPS
<1>12. Exact(stack, Size, wanted)
  <2>1. \A i \in 1 .. 1 - 1 : FALSE
    OBVIOUS
  <2> QED
    BY <1>9, <1>11, <2>1, Zenon DEF Exact
<1> QED
  BY <1>1, <1>10, <1>12 DEF AllThere

(* A parameter that is wanted whole is there whole, or too much is wanted. *)
LEMMA AddSafe ==
    ASSUME FramesOK, AllThere, Add
    PROVE  FramesOK' /\ AllThere'
<1>1. PICK n \in Lens(Now) :
        LET len == n % WordMax
        IN  /\ stack' = Append(Below, [Remaining(<<>>) EXCEPT !.b = Seek(@, 4 + len)])
            /\ lost' = IF Fits(Top.b, 4 + len) /\ len = n THEN lost
                       ELSE lost \cup {Now.tag}
            /\ wanted' = wanted + 4 + n
  BY DEF Add
<1>2. Doing("add") /\ h' = h
  BY DEF Add
<1> DEFINE len == n % WordMax
           b == Seek(Top.b, 4 + len)
           f == [Remaining(<<>>) EXCEPT !.b = b]
<1>3. n \in Nat
  <2>1. Now \in Operations /\ Now.op = "add"
    BY <1>2, NowFacts
  <2>2. Now.n \in Nat \cup {TextWidth, FilledWidth, ArrayWidth, SomeWidth}
    BY <2>1, RequestAssumption
  <2>3. Lengths \subseteq Nat
    BY RequestAssumption
  <2> QED
    BY <2>2, <2>3 DEF Lens
<1>4. len \in Nat /\ (n < WordMax => len = n)
  <2>1. WordMax \in Nat /\ WordMax > 0
    BY BaseAssumption DEF WordMax
  <2> HIDE DEF WordMax
  <2> QED
    BY <1>3, <2>1
<1>5. Top \in Frames /\ Top.b \in Builder
  BY TopFacts, FrameFacts
<1> HIDE DEF len
<1>6. b \in Builder
  BY <1>4, <1>5, SeekIs
<1>7. <<>> \in Seq(Operations)
  OBVIOUS
<1>8. Remaining(<<>>).b = Top.b
  BY <1>2, <1>7, NowFacts
<1>9. stack' = Append(Below, f)
  BY <1>1, <1>8 DEF len
<1> HIDE DEF b
<1>10. f \in Frames /\ f.b = b
  BY <1>2, <1>6, <1>7, NowFacts
<1> HIDE DEF f
<1>11. wanted \in Nat /\ wanted' = wanted + 4 + n /\ wanted' \in Nat
  BY <1>1, <1>3 DEF FramesOK
<1>12. FramesOK'
  BY <1>2, <1>9, <1>10, <1>11, TopReplaced DEF FramesOK, Below
<1>13. Size' = Size /\ Size \in Nat /\ Size < WordMax /\ WordMax \in Nat
  BY <1>2, TopFacts DEF Size
<1>14. CASE wanted' > Size
  <2>1. wanted' > Size'
    BY <1>13, <1>14
  <2> QED
    BY <1>12, <2>1, Zenon DEF AllThere
<1>15. CASE ~(wanted' > Size)
  <2>1. ~(wanted > Size) /\ n < WordMax /\ wanted + (4 + n) <= Size
    BY <1>3, <1>11, <1>13, <1>15
  <2>2. lost = {} /\ Exact(stack, Size, wanted)
    BY <2>1 DEF AllThere
  <2>3. len = n
    BY <1>4, <2>1
  <2>4. /\ Len(stack) \in Nat /\ Len(stack) > 0 /\ Top = stack[Len(stack)]
    BY TopFacts
  <2>5. Real(Top.b, Size) /\ wanted = GetPS(Top.b)
    <3>1. CASE /\ Len(stack) > 1
               /\ EmptySize(stack[Len(stack) - 1].b) <= 4
               /\ wanted = GetPS(stack[Len(stack) - 1].b) + 4
      <4>1. Len(stack) - 1 \in 1 .. Len(stack) - 1 /\ Len(stack) - 1 \in 1 .. Len(stack)
        BY <2>4, <3>1
      <4> DEFINE c == stack[Len(stack) - 1]
      <4>2. Real(c.b, Size)
        BY <2>2, <4>1, Zenon DEF Exact
      <4>3. c \in Frames
        BY <4>1, ElementOfSeq DEF FramesOK
      <4>4. c.b.p \in Nat /\ c.b.size \in Nat /\ c.b.l \in Nat
        BY <4>3, FrameFacts
      <4>5. EmptySize(c.b) <= 4 /\ wanted = GetPS(c.b) + 4
        BY <3>1
      <4> HIDE DEF c
      <4> QED
        BY <1>3, <1>11, <1>13, <2>1, <4>2, <4>4, <4>5 DEF Real, EmptySize, GetPS
    <3> QED
      BY <2>2, <2>4, <3>1 DEF Exact
  <2>6. Fits(Top.b, 4 + len)
    <3>1. Top.b.p \in Nat /\ Top.b.size \in Nat /\ Top.b.l \in Nat
      BY <1>5, FrameFacts
    <3> QED
      BY <1>3, <1>11, <1>13, <2>1, <2>3, <2>5, <3>1 DEF Real, GetPS, Fits
  <2>7. /\ f.b.p = Top.b.p /\ f.b.size = Top.b.size
        /\ f.b.l = Top.b.l + (4 + n)
    <3>1. 4 + len \in Nat
      BY <1>4
    <3> QED
      BY <1>5, <1>10, <2>3, <2>6, <3>1, SeekIs DEF b
  <2>8. Top.b.size > 0 /\ 4 + n \in Nat
    BY <1>3, <2>5 DEF Real
  <2>9. Exact(stack', Size, wanted + (4 + n))
    BY <1>9, <1>10, <1>11, <1>13, <2>1, <2>2, <2>4, <2>7, <2>8, TakesAll
       DEF FramesOK, Below
  <2>10. wanted + (4 + n) = wanted'
    BY <1>3, <1>11
  <2>11. lost' = {}
    BY <1>1, <2>2, <2>3, <2>6 DEF len
  <2> QED
    BY <1>12, <1>13, <2>9, <2>10, <2>11, Zenon DEF AllThere
<1> QED
  BY <1>12, <1>14, <1>15

(* A nested builder. *)
LEMMA OpenSafe ==
    ASSUME FramesOK, AllThere, OpenNested
    PROVE  FramesOK' /\ AllThere'
<1> DEFINE f == Remaining(<<>>)
           b == Init3(Null, GetPS(Top.b), EmptySize(Top.b), 4)
           g == Frame(b, Now.ops, Now.tag)
<1>1. /\ Doing("in") /\ h' = h /\ lost' = lost /\ wanted' = wanted + 4
      /\ stack' = Append(Append(Below, f), g)
  BY DEF OpenNested
<1>2. <<>> \in Seq(Operations)
  OBVIOUS
<1>3. f \in Frames /\ f.b = Top.b
  BY <1>1, <1>2, NowFacts
<1>4. /\ Top.b.p \in Nat
      /\ Top.b.size \in Nat
      /\ Top.b.l \in Nat
      /\ Top = stack[Len(stack)]
  BY TopFacts, FrameFacts
<1>5. b \in Builder
  <2>1. GetPS(Top.b) \in Nat /\ EmptySize(Top.b) \in Int
    BY <1>4 DEF GetPS, EmptySize
  <2> QED
    BY <2>1, Init3Is
<1>6. Now \in Operations /\ Now.op = "in"
  BY <1>1, NowFacts
<1>7. Now.ops \in Seq(Operations) /\ Now.tag \in TagsOf
  <2>1. ~(Now.op = "add")
    BY <1>6
  <2> QED
    BY <1>6, <2>1, RequestAssumption DEF TagsOf
<1>8. g \in Frames /\ g.b = b
  <2> HIDE DEF b
  <2> QED
    BY <1>5, <1>7 DEF Frame, Frames
<1> HIDE DEF f, g
<1>9. wanted' \in Nat /\ wanted \in Nat
  BY <1>1 DEF FramesOK
<1>10. FramesOK'
  <2>1. Append(Below, f) \in Seq(Frames)
    BY <1>3, TopReplaced DEF FramesOK, Below
  <2>2. stack' \in Seq(Frames) /\ stack' # <<>>
    BY <1>1, <1>8, <2>1, AppendProperties
  <2> QED
    BY <1>1, <1>9, <2>2 DEF FramesOK
<1>11. Size' = Size /\ Size \in Nat
  BY <1>1, TopFacts DEF Size
<1>12. CASE wanted' > Size
  <2>1. wanted' > Size'
    BY <1>11, <1>12
  <2> QED
    BY <1>10, <2>1, Zenon DEF AllThere
<1>13. CASE ~(wanted' > Size)
  <2>1. ~(wanted > Size) /\ wanted + 4 <= Size
    BY <1>1, <1>9, <1>11, <1>13
  <2>2. lost = {} /\ Exact(stack, Size, wanted)
    BY <2>1 DEF AllThere
  <2>3. g.b = Init3(Null, GetPS(f.b), EmptySize(f.b), 4) /\ f.b = stack[Len(stack)].b
    BY <1>3, <1>4, <1>8
  <2>4. Exact(stack', Size, wanted + 4)
    BY <1>1, <1>3, <1>8, <1>9, <1>11, <2>1, <2>2, <2>3, OpensExact DEF FramesOK, Below
  <2> QED
    BY <1>1, <1>10, <1>11, <2>2, <2>4, Zenon DEF AllThere
<1> QED
  BY <1>10, <1>12, <1>13

(* A nested builder is taken over: what was wanted of it is there. *)
LEMMA CloseSafe ==
    ASSUME FramesOK, AllThere, CloseNested
    PROVE  FramesOK' /\ AllThere'
<1> DEFINE n == Len(stack)
           e == stack[n - 1]
           o == e.b
           inner == Top.b.l
           b == Seek(Seek(Seek(o, 2), 2), inner)
           f == [e EXCEPT !.b = b]
<1>0. /\ n \in Nat /\ n > 1 /\ n - 1 \in 1 .. n /\ Top = stack[n] /\ Top \in Frames
  BY TopFacts DEF CloseNested
<1>1. e \in Frames
  BY <1>0, ElementOfSeq DEF FramesOK
<1>2. /\ Below \in Seq(Frames) /\ Len(Below) = n - 1
      /\ \A i \in 1 .. n - 1 : Below[i] = stack[i]
  <2> HIDE DEF n, e
  <2>1. ASSUME NEW i \in 1 .. n - 1 PROVE stack[i] \in Frames
    <3>1. i \in 1 .. n
      BY <1>0
    <3> QED
      BY <3>1, ElementOfSeq DEF FramesOK, n
  <2>2. 1 \in Int /\ n - 1 \in Int /\ 1 <= n - 1 /\ ((n - 1) - 1) + 1 = n - 1
    BY <1>0
  <2>3. Below = SubSeq(stack, 1, n - 1)
    BY DEF Below, n
  <2>4. /\ Below \in Seq(Frames)
        /\ Len(Below) = IF 1 <= n - 1 THEN ((n - 1) - 1) + 1 ELSE 0
        /\ \A i \in 1 .. ((n - 1) - 1) + 1 : Below[i] = stack[(1 + i) - 1]
    BY <2>1, <2>2, <2>3, SubSeqProperties
  <2>5. \A i \in 1 .. n - 1 : (1 + i) - 1 = i
    OBVIOUS
  <2> QED
    BY <2>2, <2>4, <2>5
<1>3. /\ h' = h /\ wanted' = wanted
      /\ stack' = [Below EXCEPT ![n - 1].b = b]
      /\ lost' = IF /\ Fits(o, 2) /\ Fits(Seek(o, 2), 2)
                    /\ Fits(Seek(Seek(o, 2), 2), inner)
                 THEN lost ELSE lost \cup {Top.tag}
  BY <1>2 DEF CloseNested, seen
<1>4. e.b \in Builder /\ inner \in Nat
  BY <1>0, <1>1, FrameFacts
<1> HIDE DEF n
<1>5. stack' = [Below EXCEPT ![n - 1] = f]
  <2>1. Below[n - 1] = e
    BY <1>0, <1>2
  <2> QED
    BY <1>3, <2>1
<1>6. b \in Builder
  <2>1. Seek(o, 2) \in Builder
    BY <1>4, SeekIs
  <2>2. Seek(Seek(o, 2), 2) \in Builder
    BY <2>1, SeekIs
  <2> QED
    BY <1>4, <2>2, SeekIs
<1>7. f \in Frames /\ f.b = b
  <2> HIDE DEF b, e
  <2> QED
    BY <1>1, <1>6 DEF Frames
<1> HIDE DEF f, e, inner
<1>8. FramesOK'
  <2>1. n - 1 \in 1 .. Len(Below) /\ Len(Below) > 0
    BY <1>0, <1>2
  <2>2. stack' \in Seq(Frames) /\ Len(stack') = Len(Below)
    BY <1>2, <1>5, <1>7, <2>1, ExceptSeq
  <2>3. stack' # <<>>
    BY <2>1, <2>2
  <2> QED
    BY <1>3, <2>2, <2>3 DEF FramesOK
<1>9. Size' = Size /\ Size \in Nat /\ wanted \in Nat
  BY <1>3, TopFacts DEF Size, FramesOK
<1>10. CASE wanted > Size
  BY <1>3, <1>8, <1>9, <1>10, Zenon DEF AllThere
<1>11. CASE ~(wanted > Size)
  <2>1. wanted <= Size /\ lost = {} /\ Exact(stack, Size, wanted)
    BY <1>9, <1>11 DEF AllThere
  <2>2. /\ o = stack[Len(stack) - 1].b /\ inner = stack[Len(stack)].b.l
        /\ f.b = Seek(Seek(Seek(o, 2), 2), inner) /\ Len(stack) > 1
    BY <1>0, <1>7 DEF e, inner, n
  <2>3. /\ Fits(o, 2) /\ Fits(Seek(o, 2), 2)
        /\ Fits(Seek(Seek(o, 2), 2), inner)
        /\ Exact([SubSeq(stack, 1, Len(stack) - 1) EXCEPT ![Len(stack) - 1] = f],
                 Size, wanted)
    BY <1>7, <1>9, <2>1, <2>2, ClosesExact DEF FramesOK
  <2>4. lost' = {} /\ Exact(stack', Size, wanted)
    BY <1>3, <1>5, <2>1, <2>3, Zenon DEF Below, n
  <2> QED
    BY <1>3, <1>8, <1>9, <2>4, Zenon DEF AllThere
<1> QED
  BY <1>8, <1>10, <1>11

(* A parameter is left out of a message, or cut, only if all of them       *)
(* together are larger than the handler's array: for any handlers, any     *)
(* lengths, any depth of nested builders and any vectors.                  *)
THEOREM LossNeedsFull == BuildSpec => []LostOnlyIfFull
<1>1. BuildInit => FramesOK /\ AllThere
  BY InitAllThere
<1>2. FramesOK /\ AllThere /\ [BuildNext]_bvars => (FramesOK /\ AllThere)'
  <2> SUFFICES ASSUME FramesOK, AllThere, [BuildNext]_bvars PROVE FramesOK' /\ AllThere'
    OBVIOUS
  <2>1. CASE Add
    BY <2>1, AddSafe
  <2>2. CASE LeaveOut
    <3>1. /\ Doing("add") /\ stack' = Append(Below, Remaining(<<>>))
          /\ h' = h /\ lost' = lost /\ wanted' = wanted
      BY <2>2 DEF LeaveOut, seen
    <3>2. <<>> \in Seq(Operations)
      OBVIOUS
    <3>3. Remaining(<<>>) \in Frames /\ Remaining(<<>>).b = Top.b
      BY <3>1, <3>2, NowFacts
    <3> QED
      BY <3>1, <3>3, NothingAdded
  <2>3. CASE May
    <3>1. Doing("may") /\ h' = h /\ lost' = lost /\ wanted' = wanted
      BY <2>3 DEF May, seen
    <3>2. PICK ops \in {<<>>, Now.ops} : stack' = Append(Below, Remaining(ops))
      BY <2>3 DEF May
    <3>3. ops \in Seq(Operations)
      <4>1. Now \in Operations /\ ~(Now.op = "add")
        BY <3>1, NowFacts
      <4>2. Now.ops \in Seq(Operations) /\ <<>> \in Seq(Operations)
        BY <4>1, RequestAssumption
      <4> QED
        BY <4>2
    <3>4. Remaining(ops) \in Frames /\ Remaining(ops).b = Top.b
      BY <3>1, <3>3, NowFacts
    <3> QED
      BY <3>1, <3>2, <3>4, NothingAdded
  <2>4. CASE Each
    <3>1. Doing("each") /\ h' = h /\ lost' = lost /\ wanted' = wanted
      BY <2>4 DEF Each
    <3>2. PICK k \in 0 .. MaxElements : stack' = Append(Below, Remaining(Copies(Now.ops, k)))
      BY <2>4 DEF Each
    <3>3. Copies(Now.ops, k) \in Seq(Operations)
      <4>1. Now \in Operations /\ ~(Now.op = "add")
        BY <3>1, NowFacts
      <4>2. Now.ops \in Seq(Operations) /\ k \in Nat
        BY <4>1, RequestAssumption
      <4> QED
        BY <4>2, CopiesAre
    <3>4. Remaining(Copies(Now.ops, k)) \in Frames /\ Remaining(Copies(Now.ops, k)).b = Top.b
      BY <3>1, <3>3, NowFacts
    <3> QED
      BY <3>1, <3>2, <3>4, NothingAdded
  <2>5. CASE OpenNested
    BY <2>5, OpenSafe
  <2>6. CASE CloseNested
    BY <2>6, CloseSafe
  <2>7. CASE Send \/ UNCHANGED bvars
    <3>1. UNCHANGED << h, stack, lost, wanted >>
      BY <2>7 DEF Send, bvars, seen
    <3> QED
      BY <3>1 DEF FramesOK, AllThere, Size
  <2> QED
    BY <2>1, <2>2, <2>3, <2>4, <2>5, <2>6, <2>7 DEF BuildNext
<1>3. FramesOK /\ AllThere => LostOnlyIfFull
  BY DEF AllThere, LostOnlyIfFull, Size
<1> QED
  BY <1>1, <1>2, <1>3, PTL DEF BuildSpec

=============================================================================
