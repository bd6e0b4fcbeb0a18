--------------------------- MODULE IdReuseProofs ---------------------------
(***************************************************************************)
(* What holds of IdReuse for any ids, any clock, any number of requests    *)
(* and any interleaving of the application, Procc and the network thread.  *)
(***************************************************************************)
EXTENDS IdReuse, SequenceTheorems, TLAPS

(* Something of request n is left in the client, on its way or at the      *)
(* server.                                                                 *)
Traced(n) ==
    \/ n = cur
    \/ \E k \in DOMAIN input : input[k] = n
    \/ n \in server
    \/ nreq = n
    \/ \E k \in DOMAIN itimers : itimers[k].of = n

Entry == [id : Ids, tick : 0..TickMod - 1, age : 0..MaxStall, of : Nat]

(* Types, a request being a number for now. *)
Shape ==
    /\ clock \in 0..TickMod - 1 /\ tick \in 0..TickMod - 1
    /\ reqs \in Seq(Ids) /\ Len(reqs) <= MaxRequests
    /\ open \subseteq Ids /\ answers \in [Ids -> Seq(Nat)]
    /\ input \in Seq(Nat)
    /\ ppc \in {"loop", "start", "lock", "scan"} /\ cur \in Nat
    /\ itimers \in Seq(Entry)
    /\ DOMAIN timers \subseteq Ids
    /\ timers_lock \in {Free, Procc}
    /\ npc \in {"idle", "answered", "silent"} /\ nid \in Ids \cup {NoId} /\ nreq \in Nat
    /\ unasked \in 0..MaxUnasked

(* ... and every request that is held somewhere has been sent.  Procc has  *)
(* one in hand exactly between the sending and StartTimer, and the network *)
(* thread a message exactly while it is not idle; an answer, and whatever  *)
(* the server meant for a request, has that request's id.                  *)
Known ==
    /\ \A k \in DOMAIN input : input[k] \in Requests
    /\ cur \in Requests \cup {None} /\ (cur # None <=> ppc = "start")
    /\ \A k \in DOMAIN itimers : /\ itimers[k].of \in Requests
                                 /\ itimers[k].id = reqs[itimers[k].of]
    /\ server \subseteq Requests
    /\ nreq \in Requests \cup {None} /\ (npc = "idle" => nreq = None)
    /\ npc = "answered" => nreq # None
    /\ nreq # None => nid = reqs[nreq]
    /\ npc # "idle" => nid \in Ids
    /\ fresh \subseteq Requests /\ cut \subseteq Requests /\ overheard \subseteq Requests

(* The command in the map is that of one of the id's requests whose entry  *)
(* is still in the queue: it goes with the first entry of its id.          *)
Mapped ==
    \A id \in DOMAIN timers :
        /\ timers[id] \in Of(id)
        /\ \E k \in DOMAIN itimers : itimers[k].of = timers[id]

(* Last names the latest request of an id. *)
Latest ==
    \A id \in Ids : Of(id) # {} =>
        Last(id) \in Of(id) /\ \A k \in Of(id) : k <= Last(id)

(* A request whose id was quiet stays alone: only it has left a trace of   *)
(* the requests under its id ...                                           *)
Alone ==
    \A id \in Ids : Of(id) # {} /\ Last(id) \in fresh =>
        \A n \in Of(id) : Traced(n) => n = Last(id)

(* ... and every answer came from it. *)
Own ==
    \A id \in Ids : Of(id) # {} /\ Last(id) \in fresh =>
        \A k \in DOMAIN answers[id] : answers[id][k] = Last(id)

(* A request that waits is in Procc's hands, has a timer or has lost it.   *)
(* The answer whose erase is due has closed its id; if the application has *)
(* opened it again, the erase is an earlier request's.                     *)
Covered ==
    /\ \A id \in open : /\ Of(id) # {}
                        /\ InHand(id) \/ id \in DOMAIN timers \/ Last(id) \in cut \cup overheard
    /\ npc = "answered" /\ nid \in open => nreq # Last(nid)
    /\ fresh \cap cut = {}

(* The age of an entry is the distance of its tick from the clock, and no  *)
(* younger than TestTimers takes it to be.                                 *)
Since(now, t) == (now - t.tick) % TickMod

Timing ==
    /\ \A k \in DOMAIN itimers : Since(clock, itimers[k]) = itimers[k].age
    /\ ppc \in {"lock", "scan"} =>
          \A k \in DOMAIN itimers : Since(tick, itimers[k]) <= itimers[k].age

IInv == Shape /\ Known /\ Mapped /\ Latest /\ Alone /\ Own /\ Covered /\ Timing

-----------------------------------------------------------------------------
(* Sequences *)

(* A sequence without its first element, place by place. *)
LEMMA TailFacts ==
    ASSUME NEW S, NEW s \in Seq(S), s # <<>>
    PROVE  /\ Tail(s) \in Seq(S) /\ Head(s) \in S /\ 1 \in DOMAIN s /\ Head(s) = s[1]
           /\ \A k \in DOMAIN Tail(s) : k + 1 \in DOMAIN s /\ Tail(s)[k] = s[k + 1] /\ k + 1 # 1
           /\ \A k \in DOMAIN s : k = 1 \/ (k - 1 \in DOMAIN Tail(s) /\ Tail(s)[k - 1] = s[k])
<1>1. Len(s) \in Nat /\ Len(s) # 0 /\ DOMAIN s = 1 .. Len(s) /\ s \in [1 .. Len(s) -> S]
  BY EmptySeq, LenProperties
<1>2. Tail(s) \in Seq(S) /\ Head(s) \in S /\ Head(s) = s[1]
  BY <1>1, HeadTailProperties
<1>3. /\ DOMAIN Tail(s) = 1 .. Len(s) - 1
      /\ \A k \in 1 .. Len(s) - 1 : Tail(s)[k] = s[k + 1]
  BY <1>1, HeadTailProperties, LenProperties
<1> QED
  BY <1>1, <1>2, <1>3

(* A sequence with one more element. *)
LEMMA AppendFacts ==
    ASSUME NEW S, NEW s \in Seq(S), NEW e \in S
    PROVE  /\ Append(s, e) \in Seq(S) /\ Append(s, e) # <<>>
           /\ DOMAIN Append(s, e) = DOMAIN s \cup {Len(s) + 1}
           /\ Len(s) \in Nat /\ Len(s) + 1 \notin DOMAIN s
           /\ \A k \in DOMAIN s : k < Len(s) + 1 /\ Append(s, e)[k] = s[k]
           /\ Append(s, e)[Len(s) + 1] = e
<1>1. Len(s) \in Nat /\ DOMAIN s = 1 .. Len(s)
  BY LenProperties
<1>2. /\ Append(s, e) \in Seq(S) /\ Append(s, e) # <<>>
      /\ Len(Append(s, e)) = Len(s) + 1
      /\ \A k \in 1 .. Len(s) : Append(s, e)[k] = s[k]
      /\ Append(s, e)[Len(s) + 1] = e
  BY AppendProperties
<1>3. DOMAIN Append(s, e) = 1 .. Len(s) + 1
  BY <1>2, LenProperties
<1> QED
  BY <1>1, <1>2, <1>3

(* Elements that are all in a set make a sequence over it. *)
LEMMA SeqOver ==
    ASSUME NEW S, NEW T, NEW s \in Seq(S), \A k \in DOMAIN s : s[k] \in T
    PROVE  s \in Seq(T)
<1>1. Len(s) \in Nat /\ s \in [1 .. Len(s) -> S] /\ DOMAIN s = 1 .. Len(s)
  BY LenProperties
<1>2. s \in [1 .. Len(s) -> T]
  BY <1>1
<1> QED
  BY <1>1, <1>2, SeqDef

-----------------------------------------------------------------------------
(* The clock *)

(* Differences of two unsigned numbers, without the wrap and across it. *)
LEMMA ModNear ==
    ASSUME NEW n \in Nat, n > 0
    PROVE  /\ \A a \in 0 .. n - 1 : a % n = a
           /\ \A a \in Int : -n <= a /\ a < 0 => a % n = a + n
           /\ n % n = 0
           /\ \A a \in Int : a % n \in 0 .. n - 1
<1>1. ASSUME NEW a \in 0 .. n - 1 PROVE a % n = a
  OBVIOUS
<1>2. ASSUME NEW a \in Int, -n <= a, a < 0 PROVE a % n = a + n
  BY <1>2
<1>3. n % n = 0
  OBVIOUS
<1>4. ASSUME NEW a \in Int PROVE a % n \in 0 .. n - 1
  OBVIOUS
<1> QED
  BY <1>1, <1>2, <1>3, <1>4

LEMMA SinceDiff ==
    ASSUME NEW now \in 0 .. TickMod - 1, NEW t \in Entry
    PROVE  /\ Since(now, t) = IF now >= t.tick THEN now - t.tick ELSE now - t.tick + TickMod
           /\ Since(now, t) \in Nat
<1>1. t.tick \in 0 .. TickMod - 1 /\ TickMod \in Nat /\ TickMod > 0
  BY ReuseAssumption DEF Entry
<1>2. now >= t.tick => now - t.tick \in 0 .. TickMod - 1
  BY <1>1
<1>3. now < t.tick => now - t.tick \in Int /\ -TickMod <= now - t.tick /\ now - t.tick < 0
  BY <1>1
<1>4. now \in Int /\ t.tick \in Int
  BY <1>1
<1> QED
  BY <1>1, <1>2, <1>3, <1>4, ModNear DEF Since

(* A millisecond makes every entry one older, as long as none has waited   *)
(* for the wrap.                                                           *)
LEMMA SinceTick ==
    ASSUME NEW now \in 0 .. TickMod - 1, NEW t \in Entry, Since(now, t) = t.age, t.age < MaxStall
    PROVE  Since((now + 1) % TickMod, t) = t.age + 1
<1>1. TickMod \in Nat /\ TickMod > 1 /\ t.age < TickMod - 1 /\ t.age \in Nat /\ t.tick \in 0 .. TickMod - 1
  BY ReuseAssumption DEF Entry
<1>2. (now + 1) % TickMod = IF now = TickMod - 1 THEN 0 ELSE now + 1
  <2>1. now = TickMod - 1 => now + 1 = TickMod
    BY <1>1
  <2>2. now # TickMod - 1 => now + 1 \in 0 .. TickMod - 1
    BY <1>1
  <2> QED
    BY <1>1, <2>1, <2>2, ModNear
<1> DEFINE next == (now + 1) % TickMod
<1>3. next \in 0 .. TickMod - 1
  BY <1>1, <1>2
<1>4. Since(next, t) = IF next >= t.tick THEN next - t.tick ELSE next - t.tick + TickMod
  <2> HIDE DEF next
  <2> QED
    BY <1>3, SinceDiff
<1>5. t.age = IF now >= t.tick THEN now - t.tick ELSE now - t.tick + TickMod
  BY SinceDiff
<1> QED
  BY <1>1, <1>2, <1>3, <1>4, <1>5

-----------------------------------------------------------------------------
(* Requests, and the latest of an id *)

MaxOf(S) == CHOOSE n \in S : \A k \in S : k <= n

LEMMA LastIsMax ==
    ASSUME NEW id
    PROVE  Last(id) = MaxOf(Of(id)) /\ Last(id)' = MaxOf(Of(id)')
  BY DEF Last, MaxOf

LEMMA MaxIs ==
    ASSUME NEW S \in SUBSET Nat, NEW n \in S, \A k \in S : k <= n
    PROVE  MaxOf(S) = n
<1>1. MaxOf(S) \in S /\ \A k \in S : k <= MaxOf(S)
  BY DEF MaxOf
<1>2. MaxOf(S) \in Nat /\ n \in Nat /\ n <= MaxOf(S) /\ MaxOf(S) <= n
  BY <1>1
<1> QED
  BY <1>2

(* Requests are numbers from 1, and each has an id. *)
LEMMA RequestFacts ==
    ASSUME Shape
    PROVE  /\ Len(reqs) \in Nat /\ Requests = DOMAIN reqs /\ Requests \subseteq Nat /\ None \notin Requests
           /\ Len(reqs) + 1 \notin Requests
           /\ \A n \in Requests : reqs[n] \in Ids /\ n \in Of(reqs[n]) /\ n <= Len(reqs)
           /\ \A id : Of(id) \subseteq Requests
<1>1. Len(reqs) \in Nat /\ DOMAIN reqs = 1 .. Len(reqs) /\ reqs \in [1 .. Len(reqs) -> Ids]
  BY LenProperties DEF Shape
<1> QED
  BY <1>1 DEF Requests, Of, None

(* A step that sends nothing leaves them as they are. *)
LEMMA ReqsStay ==
    ASSUME UNCHANGED reqs
    PROVE  /\ Requests' = Requests
           /\ \A id : Of(id)' = Of(id) /\ Last(id)' = Last(id)
<1>1. Requests' = Requests
  BY DEF Requests
<1>2. ASSUME NEW id PROVE Of(id)' = Of(id)
  BY <1>1 DEF Of
<1>3. ASSUME NEW id PROVE Last(id)' = Last(id)
  BY <1>2, LastIsMax
<1> QED
  BY <1>1, <1>2, <1>3

(* send adds one, which is the latest of its id. *)
LEMMA SendAdds ==
    ASSUME Shape, NEW id \in Ids, send(id)
    PROVE  LET n == Len(reqs) + 1 IN
           /\ reqs' \in Seq(Ids) /\ Len(reqs') = n
           /\ Requests' = Requests \cup {n}
           /\ reqs'[n] = id /\ \A k \in Requests : reqs'[k] = reqs[k]
           /\ Of(id)' = Of(id) \cup {n} /\ Last(id)' = n
           /\ \A i \in Ids \ {id} : Of(i)' = Of(i) /\ Last(i)' = Last(i)
<1> DEFINE n == Len(reqs) + 1
<1>0. /\ reqs \in Seq(Ids) /\ reqs' = Append(reqs, id) /\ Len(reqs) \in Nat /\ n \in Nat
      /\ Requests = DOMAIN reqs
  BY RequestFacts DEF Shape, send
<1>1. /\ reqs' \in Seq(Ids) /\ Len(reqs') = n /\ DOMAIN reqs' = DOMAIN reqs \cup {n}
      /\ reqs'[n] = id /\ \A k \in DOMAIN reqs : reqs'[k] = reqs[k]
  BY <1>0, AppendFacts, AppendProperties
<1>2. Requests' = Requests \cup {n}
  <2>1. DOMAIN reqs' = 1 .. Len(reqs')
    BY <1>1, LenProperties
  <2> QED
    BY <1>0, <1>1, <2>1 DEF Requests
<1> HIDE DEF n
<1>3. Of(id)' = Of(id) \cup {n}
  BY <1>0, <1>1, <1>2 DEF Of
<1>4. ASSUME NEW i \in Ids \ {id} PROVE Of(i)' = Of(i)
  BY <1>0, <1>1, <1>2 DEF Of
<1>5. Last(id)' = n
  <2>1. Of(id) \subseteq Requests /\ Requests \subseteq Nat /\ \A k \in Requests : k <= Len(reqs)
    BY RequestFacts
  <2>2. Of(id)' \in SUBSET Nat /\ n \in Of(id)' /\ \A k \in Of(id)' : k <= n
    BY <1>0, <1>3, <2>1 DEF n
  <2> QED
    BY <2>2, MaxIs, LastIsMax
<1>6. ASSUME NEW i \in Ids \ {id} PROVE Last(i)' = Last(i)
  BY <1>4, LastIsMax
<1> QED
  BY <1>1, <1>2, <1>0, <1>3, <1>4, <1>5, <1>6 DEF n

-----------------------------------------------------------------------------
(* Steps *)

(* Everything but send. *)
Other == Tick \/ ProccStep \/ DeliverReply \/ DeliverUnasked \/ EraseTimer \/ UNCHANGED vars

(* The first entry of the queue. *)
LEMMA FirstEntry ==
    ASSUME Shape, Known, itimers # <<>>
    PROVE  /\ 1 \in DOMAIN itimers /\ Head(itimers) = itimers[1] /\ Head(itimers) \in Entry
           /\ Head(itimers).of \in Requests /\ Head(itimers).id = reqs[Head(itimers).of]
           /\ Head(itimers).id \in Ids
           /\ Tail(itimers) \in Seq(Entry)
           /\ \A k \in DOMAIN Tail(itimers) :
                 k \in Nat /\ k + 1 \in DOMAIN itimers /\ Tail(itimers)[k] = itimers[k + 1]
           /\ \A k \in DOMAIN itimers :
                 k = 1 \/ (k - 1 \in DOMAIN Tail(itimers) /\ Tail(itimers)[k - 1] = itimers[k])
<1>1. itimers \in Seq(Entry)
  BY DEF Shape
<1>2. Tail(itimers) \in Seq(Entry) /\ DOMAIN Tail(itimers) \subseteq Nat
  BY <1>1, TailFacts, LenProperties
<1> QED
  BY <1>1, <1>2, TailFacts, RequestFacts DEF Known

(* The first request of the input queue. *)
LEMMA FirstInput ==
    ASSUME Shape, Known, input # <<>>
    PROVE  /\ 1 \in DOMAIN input /\ Head(input) = input[1] /\ Head(input) \in Requests
           /\ Tail(input) \in Seq(Nat)
           /\ \A k \in DOMAIN Tail(input) : k + 1 \in DOMAIN input /\ Tail(input)[k] = input[k + 1]
           /\ \A k \in DOMAIN input :
                 k = 1 \/ (k - 1 \in DOMAIN Tail(input) /\ Tail(input)[k - 1] = input[k])
<1>1. input \in Seq(Nat)
  BY DEF Shape
<1> QED
  BY <1>1, TailFacts DEF Known

(* What StartTimer adds to the queue. *)
LEMMA StartAdds ==
    ASSUME Shape, Known, StartTimer
    PROVE  LET e == [id |-> reqs[cur], tick |-> clock, age |-> 0, of |-> cur] IN
           /\ cur \in Requests /\ reqs[cur] \in Ids /\ e \in Entry
           /\ itimers' \in Seq(Entry)
           /\ DOMAIN itimers' = DOMAIN itimers \cup {Len(itimers) + 1}
           /\ \A k \in DOMAIN itimers : itimers'[k] = itimers[k]
           /\ itimers'[Len(itimers) + 1] = e
           /\ DOMAIN timers' = DOMAIN timers \cup {reqs[cur]}
           /\ \A i \in DOMAIN timers : timers'[i] = timers[i]
           /\ reqs[cur] \notin DOMAIN timers => timers'[reqs[cur]] = cur
<1> DEFINE e == [id |-> reqs[cur], tick |-> clock, age |-> 0, of |-> cur]
<1>1. cur \in Requests /\ reqs[cur] \in Ids /\ cur \in Nat
  BY RequestFacts DEF StartTimer, Known, Shape
<1>2. e \in Entry
  BY <1>1, ReuseAssumption DEF Shape, Entry
<1>3. itimers' = Append(itimers, e)
  BY DEF StartTimer
<1>4. timers' = [i \in DOMAIN timers \cup {reqs[cur]} |->
                    IF i \in DOMAIN timers THEN timers[i] ELSE cur]
  BY DEF StartTimer
<1>5. /\ DOMAIN timers' = DOMAIN timers \cup {reqs[cur]}
      /\ \A i \in DOMAIN timers : timers'[i] = timers[i]
      /\ reqs[cur] \notin DOMAIN timers => timers'[reqs[cur]] = cur
  BY <1>4
<1> HIDE DEF e
<1>6. /\ itimers' \in Seq(Entry)
      /\ DOMAIN itimers' = DOMAIN itimers \cup {Len(itimers) + 1}
      /\ \A k \in DOMAIN itimers : itimers'[k] = itimers[k]
      /\ itimers'[Len(itimers) + 1] = e
  BY <1>2, <1>3, AppendFacts DEF Shape
<1> QED
  BY <1>1, <1>2, <1>5, <1>6 DEF e

(* A millisecond changes the ages and nothing else of the queue. *)
LEMMA TickAges ==
    ASSUME Shape, Tick
    PROVE  /\ itimers' \in Seq(Entry) /\ DOMAIN itimers' = DOMAIN itimers
           /\ \A k \in DOMAIN itimers : /\ itimers[k] \in Entry /\ itimers[k].age < MaxStall
                                        /\ itimers'[k].id = itimers[k].id
                                        /\ itimers'[k].of = itimers[k].of
                                        /\ itimers'[k].tick = itimers[k].tick
                                        /\ itimers'[k].age = itimers[k].age + 1
<1>1. Len(itimers) \in Nat /\ itimers \in [1 .. Len(itimers) -> Entry]
  BY LenProperties DEF Shape
<1>2. ASSUME NEW k \in 1 .. Len(itimers) PROVE [itimers[k] EXCEPT !.age = @ + 1] \in Entry
  <2>1. itimers[k] \in Entry /\ itimers[k].age < MaxStall
    BY <1>1 DEF Tick
  <2>2. itimers[k].age + 1 \in 0 .. MaxStall
    BY <2>1, ReuseAssumption DEF Entry
  <2> QED
    BY <2>1, <2>2 DEF Entry
<1>3. itimers' \in Seq(Entry)
  BY <1>1, <1>2, SeqDef DEF Tick
<1> QED
  BY <1>1, <1>3 DEF Tick, Entry

(* An answer closes its id and is added to what the id has got. *)
LEMMA AnswerAdds ==
    ASSUME Shape, NEW id \in Ids, NEW n \in Nat, Answer(id, n)
    PROVE  /\ answers' \in [Ids -> Seq(Nat)]
           /\ open' = open \ {id}
           /\ \A i \in Ids \ {id} : answers'[i] = answers[i]
           /\ \A k \in DOMAIN answers'[id] :
                 (k \in DOMAIN answers[id] /\ answers'[id][k] = answers[id][k]) \/ answers'[id][k] = n
<1> DEFINE s == answers[id]
<1>1. s \in Seq(Nat)
  BY DEF Shape
<1>2. /\ answers' = [answers EXCEPT ![id] = Append(s, n)]
      /\ answers'[id] = Append(s, n)
      /\ \A i \in Ids \ {id} : answers'[i] = answers[i]
      /\ open' = open \ {id}
  BY DEF Shape, Answer
<1> HIDE DEF s
<1>3. /\ Append(s, n) \in Seq(Nat)
      /\ DOMAIN Append(s, n) = DOMAIN s \cup {Len(s) + 1}
      /\ \A k \in DOMAIN s : Append(s, n)[k] = s[k]
      /\ Append(s, n)[Len(s) + 1] = n
  BY <1>1, AppendFacts
<1>4. answers' \in [Ids -> Seq(Nat)]
  BY <1>2, <1>3 DEF Shape
<1> QED
  BY <1>1, <1>2, <1>3, <1>4 DEF s

(* OnTimer answers for the request whose command is in the map. *)
LEMMA ExpireAnswers ==
    ASSUME Shape, Known, Mapped, ExpireFirst
    PROVE  LET id == Head(itimers).id IN
           /\ id \in Ids
           /\ \/ /\ id \in DOMAIN timers /\ timers[id] \in Requests /\ reqs[timers[id]] = id
                 /\ Traced(timers[id])
                 /\ Answer(id, timers[id])
              \/ /\ id \notin DOMAIN timers
                 /\ UNCHANGED <<answers, open, timers>>
           /\ DOMAIN timers' = DOMAIN timers \ {id}
           /\ \A i \in DOMAIN timers' : timers'[i] = timers[i]
<1> DEFINE id == Head(itimers).id
<1>1. id \in Ids
  BY FirstEntry DEF ExpireFirst
<1>2. \/ id \in DOMAIN timers /\ Answer(id, timers[id]) /\ Erase(id)
      \/ id \notin DOMAIN timers /\ UNCHANGED <<answers, open, timers>>
  BY DEF ExpireFirst
<1> HIDE DEF id
<1>3. id \in DOMAIN timers => timers[id] \in Requests /\ reqs[timers[id]] = id /\ Traced(timers[id])
  BY DEF Mapped, Of, Traced
<1>4. /\ DOMAIN timers' = DOMAIN timers \ {id}
      /\ \A i \in DOMAIN timers' : timers'[i] = timers[i]
  BY <1>2 DEF Erase
<1> QED
  BY <1>1, <1>2, <1>3, <1>4 DEF id

(* Whoever answers does so for a request that had left a trace, under its  *)
(* own id.                                                                 *)
LEMMA SpeaksForTraced ==
    ASSUME Shape, Known, Mapped, Other
    PROVE  \/ UNCHANGED <<answers, open>>
           \/ \E n \in Requests : Traced(n) /\ Answer(reqs[n], n)
<1>1. CASE Refuse
  <2>1. Head(input) \in Requests /\ Traced(Head(input))
    BY <1>1, FirstInput DEF Refuse, Traced
  <2>2. Answer(reqs[Head(input)], Head(input))
    BY <1>1 DEF Refuse
  <2> QED
    BY <2>1, <2>2
<1>2. CASE ExpireFirst
  BY <1>2, ExpireAnswers
<1>3. CASE DeliverReply
  <2>1. PICK n \in server : Answer(reqs[n], n) \/ UNCHANGED <<answers, open>>
    BY <1>3 DEF DeliverReply
  <2> QED
    BY <2>1 DEF Known, Traced
<1>4. CASE \/ Tick \/ SendOk \/ StartTimer \/ LoopEnds \/ LockTimers \/ ScanEnds
           \/ DeliverUnasked \/ EraseTimer \/ UNCHANGED vars
  BY <1>4 DEF Tick, SendOk, StartTimer, LoopEnds, LockTimers, ScanEnds, DeliverUnasked, EraseTimer,
              vars, avars
<1> QED
  BY <1>1, <1>2, <1>3, <1>4 DEF Other, ProccStep

LEMMA OtherAnswers ==
    ASSUME Shape, Known, Mapped, Other
    PROVE  /\ UNCHANGED <<reqs, fresh>>
           /\ answers' \in [Ids -> Seq(Nat)] /\ open' \subseteq open
<1>1. UNCHANGED <<reqs, fresh>>
  BY DEF Other, ProccStep, Tick, Refuse, SendOk, StartTimer, LoopEnds, LockTimers, ExpireFirst, ScanEnds,
         DeliverReply, DeliverUnasked, EraseTimer, vars, avars
<1>2. answers' \in [Ids -> Seq(Nat)] /\ open' \subseteq open
  <2>1. CASE UNCHANGED <<answers, open>>
    BY <2>1 DEF Shape
  <2>2. ASSUME NEW n \in Requests, Answer(reqs[n], n)
        PROVE  answers' \in [Ids -> Seq(Nat)] /\ open' \subseteq open
    BY <2>2, RequestFacts, AnswerAdds
  <2> QED
    BY <2>1, <2>2, SpeaksForTraced
<1> QED
  BY <1>1, <1>2

(* No step but send makes a trace of a request that has left none. *)
LEMMA TracesFade ==
    ASSUME Shape, Known, Other, NEW n \in Requests, Traced(n)'
    PROVE  Traced(n)
<1> USE DEF pvars, tvars, nvars
<1>0. n # None
  BY RequestFacts
<1>1. CASE Tick
  BY <1>1, TickAges DEF Tick, Traced
<1>2. CASE Refuse
  BY <1>2, FirstInput DEF Refuse, Traced
<1>3. CASE SendOk
  BY <1>3, FirstInput DEF SendOk, Traced
<1>4. CASE StartTimer
  BY <1>4, <1>0, StartAdds DEF StartTimer, Traced
<1>5. CASE ExpireFirst
  BY <1>5, FirstEntry DEF ExpireFirst, Traced
<1>6. CASE LoopEnds \/ LockTimers \/ ScanEnds \/ UNCHANGED vars
  BY <1>6 DEF LoopEnds, LockTimers, ScanEnds, vars, Traced
<1>7. CASE DeliverReply \/ DeliverUnasked
  BY <1>7, <1>0 DEF DeliverReply, DeliverUnasked, Traced
<1>8. CASE EraseTimer
  BY <1>8, <1>0 DEF EraseTimer, Traced
<1> QED
  BY <1>1, <1>2, <1>3, <1>4, <1>5, <1>6, <1>7, <1>8 DEF Other, ProccStep

-----------------------------------------------------------------------------
(* The parts of the invariant, step by step *)

Base == Shape /\ Known /\ Mapped

LEMMA StepShape == Base /\ [Next]_vars => Shape'
<1> SUFFICES ASSUME Base, [Next]_vars PROVE Shape'
  OBVIOUS
<1> USE DEF avars, pvars, tvars, nvars, hvars
<1>0. Shape /\ Known /\ Mapped
  BY DEF Base
<1>a. Other => /\ UNCHANGED <<reqs, fresh>>
               /\ answers' \in [Ids -> Seq(Nat)] /\ open' \subseteq Ids
  BY <1>0, OtherAnswers DEF Shape
<1>1. ASSUME NEW id \in Ids, send(id) PROVE Shape'
  <2>1. reqs' \in Seq(Ids) /\ Len(reqs') = Len(reqs) + 1 /\ Len(reqs) \in Nat
    BY <1>0, <1>1, SendAdds, RequestFacts
  <2>2. Len(reqs') <= MaxRequests
    BY <2>1, <1>1, ReuseAssumption DEF send
  <2>3. input' \in Seq(Nat)
    BY <1>0, <1>1, <2>1, AppendFacts DEF send, Shape
  <2>4. <<>> \in Seq(Nat)
    OBVIOUS
  <2>5. answers' \in [Ids -> Seq(Nat)]
    BY <1>0, <1>1, <2>4 DEF send, Shape
  <2> QED
    BY <1>0, <1>1, <2>1, <2>2, <2>3, <2>5 DEF send, Shape
<1>2. CASE Tick
  <2>1. clock' \in 0 .. TickMod - 1
    BY <1>0, <1>2, ReuseAssumption DEF Tick, Shape
  <2> QED
    BY <1>0, <1>2, <2>1, TickAges DEF Tick, Shape
<1>3. CASE Refuse
  <2>1. Other
    BY <1>3 DEF Other, ProccStep
  <2>2. Tail(input) \in Seq(Nat)
    BY <1>0, <1>3, FirstInput DEF Refuse
  <2> QED
    BY <1>0, <1>3, <1>a, <2>1, <2>2 DEF Refuse, Shape
<1>4. CASE SendOk
  <2>1. Tail(input) \in Seq(Nat) /\ Head(input) \in Nat
    BY <1>0, <1>4, FirstInput, RequestFacts DEF SendOk
  <2> QED
    BY <1>0, <1>4, <2>1 DEF SendOk, Shape
<1>5. CASE StartTimer
  <2>1. itimers' \in Seq(Entry) /\ DOMAIN timers' \subseteq Ids
    BY <1>0, <1>5, StartAdds DEF Shape
  <2> QED
    BY <1>0, <1>5, <2>1 DEF StartTimer, Shape, None
<1>6. CASE ExpireFirst
  <2>1. Other
    BY <1>6 DEF Other, ProccStep
  <2>2. Tail(itimers) \in Seq(Entry) /\ DOMAIN timers' \subseteq Ids
    BY <1>0, <1>6, FirstEntry, ExpireAnswers DEF ExpireFirst, Shape
  <2> QED
    BY <1>0, <1>6, <1>a, <2>1, <2>2 DEF ExpireFirst, Shape
<1>7. CASE LoopEnds \/ LockTimers \/ ScanEnds
  <2>1. 0 \in 0 .. TickMod - 1
    BY ReuseAssumption
  <2> QED
    BY <1>0, <1>7, <2>1 DEF LoopEnds, LockTimers, ScanEnds, Shape
<1>8. CASE DeliverReply
  <2>1. Other
    BY <1>8 DEF Other
  <2>2. nreq' \in Nat /\ nid' \in Ids
    BY <1>0, <1>8, RequestFacts DEF DeliverReply, Known
  <2> QED
    BY <1>0, <1>8, <1>a, <2>1, <2>2 DEF DeliverReply, Shape
<1>11. CASE DeliverUnasked
  BY <1>0, <1>11, ReuseAssumption DEF DeliverUnasked, Shape, None
<1>9. CASE EraseTimer
  BY <1>0, <1>9 DEF EraseTimer, Erase, Shape, None
<1>10. CASE UNCHANGED vars
  BY <1>0, <1>10 DEF vars, Shape
<1> QED
  BY <1>1, <1>2, <1>3, <1>4, <1>5, <1>6, <1>7, <1>8, <1>9, <1>10, <1>11 DEF Next, ProccStep

LEMMA StepKnown == Base /\ Latest /\ [Next]_vars => Known'
<1> SUFFICES ASSUME Base, Latest, [Next]_vars PROVE Known'
  OBVIOUS
<1> USE DEF avars, pvars, tvars, nvars, hvars
<1>0. Shape /\ Known /\ Mapped /\ None \notin Requests /\ Requests \subseteq Nat
  BY RequestFacts DEF Base
<1>a. Other => Requests' = Requests /\ UNCHANGED <<reqs, fresh>>
  BY <1>0, OtherAnswers, ReqsStay
<1>1. ASSUME NEW id \in Ids, send(id) PROVE Known'
  <2> DEFINE n == Len(reqs) + 1
  <2>1. /\ Requests' = Requests \cup {n} /\ \A k \in Requests : reqs'[k] = reqs[k]
        /\ n \in Nat
    BY <1>0, <1>1, SendAdds, RequestFacts
  <2>2. /\ DOMAIN input' = DOMAIN input \cup {Len(input) + 1}
        /\ \A k \in DOMAIN input : input'[k] = input[k]
        /\ input'[Len(input) + 1] = n
    BY <1>0, <1>1, <2>1, AppendFacts DEF send, Shape
  <2>3. /\ fresh' \subseteq fresh \cup {n} /\ cut' \subseteq cut /\ overheard' \subseteq overheard
    BY <1>1 DEF send
  <2> HIDE DEF n
  <2> QED
    BY <1>0, <1>1, <2>1, <2>2, <2>3 DEF send, Known
<1>2. CASE Tick
  BY <1>0, <1>2, <1>a, TickAges, ZenonT(30) DEF Tick, Known, Other
<1>3. CASE Refuse
  BY <1>0, <1>3, <1>a, FirstInput DEF Refuse, Known, Other, ProccStep
<1>4. CASE SendOk
  BY <1>0, <1>4, <1>a, FirstInput DEF SendOk, Known, Other, ProccStep
<1>5. CASE StartTimer
  BY <1>0, <1>5, <1>a, StartAdds DEF StartTimer, Known, Other, ProccStep
<1>6. CASE ExpireFirst
  BY <1>0, <1>6, <1>a, FirstEntry DEF ExpireFirst, Known, Other, ProccStep
<1>7. CASE LoopEnds \/ LockTimers \/ ScanEnds \/ UNCHANGED vars
  BY <1>0, <1>7, <1>a DEF LoopEnds, LockTimers, ScanEnds, vars, Known, Other, ProccStep
<1>8. CASE DeliverReply
  <2>1. PICK n \in server : nreq' = n /\ nid' = reqs[n]
    BY <1>8 DEF DeliverReply
  <2>2. n \in Requests /\ reqs[n] \in Ids
    BY <1>0, <2>1, RequestFacts DEF Known
  <2> QED
    BY <1>0, <1>8, <1>a, <2>1, <2>2 DEF DeliverReply, Known, Other
<1>10. CASE DeliverUnasked
  BY <1>0, <1>10, <1>a DEF DeliverUnasked, Known, Other
<1>9. CASE EraseTimer
  <2>1. nid \in DOMAIN timers => Of(nid) # {}
    BY <1>0 DEF Mapped
  <2>2. nid \in DOMAIN timers => Last(nid) \in Requests
    BY <1>0, <1>9, <2>1, RequestFacts DEF EraseTimer, Known, Latest
  <2>3. cut' \subseteq Requests /\ overheard' \subseteq Requests
    BY <1>0, <1>9, <2>2 DEF EraseTimer, Known
  <2> QED
    BY <1>0, <1>9, <1>a, <2>3 DEF EraseTimer, Known, Other
<1> QED
  BY <1>1, <1>2, <1>3, <1>4, <1>5, <1>6, <1>7, <1>8, <1>9, <1>10 DEF Next, ProccStep

LEMMA StepMapped == Base /\ [Next]_vars => Mapped'
<1> SUFFICES ASSUME Base, [Next]_vars PROVE Mapped'
  OBVIOUS
<1> USE DEF avars, pvars, tvars, nvars, hvars
<1>0. Shape /\ Known /\ Mapped
  BY DEF Base
<1>a. Other => \A id : Of(id)' = Of(id)
  BY <1>0, OtherAnswers, ReqsStay
<1>1. ASSUME NEW id \in Ids, send(id) PROVE Mapped'
  <2>1. \A i \in Ids : Of(i) \subseteq Of(i)'
    BY <1>0, <1>1, SendAdds
  <2>2. UNCHANGED <<timers, itimers>> /\ DOMAIN timers \subseteq Ids
    BY <1>0, <1>1 DEF send, Shape
  <2> QED
    BY <1>0, <2>1, <2>2 DEF Mapped
<1>2. CASE Tick
  <2>1. /\ UNCHANGED timers /\ DOMAIN itimers' = DOMAIN itimers
        /\ \A k \in DOMAIN itimers : itimers'[k].of = itimers[k].of
    BY <1>0, <1>2, TickAges DEF Tick
  <2>2. \A id : Of(id)' = Of(id)
    BY <1>2, <1>a DEF Other
  <2> QED
    BY <1>0, <2>1, <2>2 DEF Mapped
<1>3. CASE StartTimer
  <2>1. cur \in Of(reqs[cur])
    BY <1>0, <1>3, StartAdds, RequestFacts
  <2> QED
    BY <1>0, <1>3, <1>a, <2>1, StartAdds DEF Mapped, Other, ProccStep
<1>4. CASE ExpireFirst
  <2> DEFINE id == Head(itimers).id
  <2>1. /\ DOMAIN timers' = DOMAIN timers \ {id}
        /\ \A i \in DOMAIN timers' : timers'[i] = timers[i]
    BY <1>0, <1>4, ExpireAnswers
  <2>2. /\ itimers' = Tail(itimers) /\ id = reqs[Head(itimers).of] /\ Head(itimers) = itimers[1]
        /\ \A k \in DOMAIN itimers :
              k = 1 \/ (k - 1 \in DOMAIN Tail(itimers) /\ Tail(itimers)[k - 1] = itimers[k])
    BY <1>0, <1>4, FirstEntry DEF ExpireFirst
  <2>3. \A i \in Ids : \A n \in Of(i) : reqs[n] = i
    BY DEF Of
  <2>4. \A i : Of(i)' = Of(i)
    BY <1>4, <1>a DEF Other, ProccStep
  <2>5. DOMAIN timers \subseteq Ids
    BY <1>0 DEF Shape
  <2> HIDE DEF id
  <2>6. ASSUME NEW i \in DOMAIN timers'
        PROVE  timers'[i] \in Of(i)' /\ \E k \in DOMAIN itimers' : itimers'[k].of = timers'[i]
    <3>1. PICK k \in DOMAIN itimers : itimers[k].of = timers[i] /\ timers[i] \in Of(i)
      BY <1>0, <2>1 DEF Mapped
    <3>2. k # 1
      BY <3>1, <2>1, <2>2, <2>3, <2>5
    <3> QED
      BY <3>1, <3>2, <2>1, <2>2, <2>4
  <2> QED
    BY <2>6 DEF Mapped
<1>5. CASE EraseTimer
  BY <1>0, <1>5, <1>a DEF EraseTimer, Erase, Mapped, Other
<1>6. CASE Refuse \/ SendOk \/ LoopEnds \/ LockTimers \/ ScanEnds
  BY <1>0, <1>6, <1>a DEF Refuse, SendOk, LoopEnds, LockTimers, ScanEnds, Mapped, Other, ProccStep
<1>7. CASE DeliverReply \/ DeliverUnasked \/ UNCHANGED vars
  BY <1>0, <1>7, <1>a DEF DeliverReply, DeliverUnasked, vars, Mapped, Other
<1> QED
  BY <1>1, <1>2, <1>3, <1>4, <1>5, <1>6, <1>7 DEF Next, ProccStep

LEMMA StepLatest == Base /\ Latest /\ [Next]_vars => Latest'
<1> SUFFICES ASSUME Base, Latest, [Next]_vars PROVE Latest'
  OBVIOUS
<1>0. Shape /\ Known /\ Mapped
  BY DEF Base
<1>1. ASSUME NEW id \in Ids, send(id) PROVE Latest'
  <2> DEFINE n == Len(reqs) + 1
  <2>1. /\ Of(id)' = Of(id) \cup {n} /\ Last(id)' = n
        /\ \A i \in Ids \ {id} : Of(i)' = Of(i) /\ Last(i)' = Last(i)
    BY <1>0, <1>1, SendAdds
  <2>2. n \in Nat /\ \A k \in Of(id) : k <= n
    BY <1>0, RequestFacts
  <2> HIDE DEF n
  <2>3. ASSUME NEW i \in Ids, Of(i)' # {}
        PROVE  Last(i)' \in Of(i)' /\ \A k \in Of(i)' : k <= Last(i)'
    <3>1. CASE i = id
      BY <3>1, <2>1, <2>2
    <3>2. CASE i # id
      BY <3>2, <2>1, <2>3 DEF Latest
    <3> QED
      BY <3>1, <3>2
  <2> QED
    BY <2>3 DEF Latest
<1>2. CASE Other
  BY <1>0, <1>2, OtherAnswers, ReqsStay DEF Latest
<1> QED
  BY <1>1, <1>2 DEF Next, Other

(* send under a quiet id finds no trace of an earlier request. *)
LEMMA QuietIsUntraced ==
    ASSUME Shape, Known, NEW id \in Ids, Quiet(id), NEW n \in Of(id)
    PROVE  ~Traced(n)
<1>1. n \in Requests /\ reqs[n] = id
  BY DEF Of
<1>2. \A k \in DOMAIN itimers : itimers[k].of # n
  BY <1>1 DEF Quiet, Queued, Known
<1>3. n # cur /\ ~\E k \in DOMAIN input : input[k] = n
  BY DEF Quiet, InHand
<1> QED
  BY <1>2, <1>3 DEF Quiet, Traced

LEMMA StepAlone == Base /\ Latest /\ Alone /\ [Next]_vars => Alone'
<1> SUFFICES ASSUME Base, Latest, Alone, [Next]_vars PROVE Alone'
  OBVIOUS
<1>0. Shape /\ Known /\ Mapped
  BY DEF Base
<1>1. ASSUME NEW id \in Ids, send(id) PROVE Alone'
  <2> DEFINE n == Len(reqs) + 1
  <2>1. /\ Of(id)' = Of(id) \cup {n} /\ Last(id)' = n
        /\ \A i \in Ids \ {id} : Of(i)' = Of(i) /\ Last(i)' = Last(i)
    BY <1>0, <1>1, SendAdds
  <2>2. n \in Nat /\ n \notin Requests /\ \A i : Of(i) \subseteq Requests
    BY <1>0, RequestFacts
  <2>3. /\ DOMAIN input' = DOMAIN input \cup {Len(input) + 1}
        /\ \A k \in DOMAIN input : input'[k] = input[k]
        /\ input'[Len(input) + 1] = n
    BY <1>0, <1>1, <2>2, AppendFacts DEF send, Shape
  <2>4. fresh' \subseteq fresh \cup {n} /\ (n \in fresh' => Quiet(id))
    BY <1>0, <1>1, <2>2 DEF send, Known
  <2> HIDE DEF n
  <2>5. \A m \in Requests : Traced(m)' => Traced(m)
    BY <1>1, <2>2, <2>3 DEF send, Traced, pvars, tvars, nvars
  <2>6. ASSUME NEW i \in Ids, Of(i)' # {}, Last(i)' \in fresh', NEW m \in Of(i)', Traced(m)'
        PROVE  m = Last(i)'
    <3>1. CASE i = id
      <4>1. Quiet(id)
        BY <3>1, <2>1, <2>2, <2>4, <2>6, <1>0 DEF Known
      <4> QED
        BY <3>1, <4>1, <1>0, <2>1, <2>2, <2>5, <2>6, QuietIsUntraced
    <3>2. CASE i # id
      <4>1. Last(i) \in Of(i) /\ Last(i) # n
        BY <3>2, <2>1, <2>2, <2>6 DEF Latest
      <4> QED
        BY <3>2, <4>1, <2>1, <2>2, <2>4, <2>5, <2>6 DEF Alone
    <3> QED
      BY <3>1, <3>2
  <2> QED
    BY <2>6 DEF Alone
<1>2. CASE Other
  <2>1. UNCHANGED fresh /\ \A id : Of(id)' = Of(id) /\ Last(id)' = Last(id)
    BY <1>0, <1>2, OtherAnswers, ReqsStay
  <2>2. \A id \in Ids : \A n \in Of(id) : Traced(n)' => Traced(n)
    BY <1>0, <1>2, TracesFade, RequestFacts
  <2> QED
    BY <2>1, <2>2 DEF Alone
<1> QED
  BY <1>1, <1>2 DEF Next, Other

LEMMA StepOwn == Base /\ Latest /\ Alone /\ Own /\ [Next]_vars => Own'
<1> SUFFICES ASSUME Base, Latest, Alone, Own, [Next]_vars PROVE Own'
  OBVIOUS
<1>0. Shape /\ Known /\ Mapped
  BY DEF Base
<1>1. ASSUME NEW id \in Ids, send(id) PROVE Own'
  <2> DEFINE n == Len(reqs) + 1
  <2>1. \A i \in Ids \ {id} : Of(i)' = Of(i) /\ Last(i)' = Last(i)
    BY <1>0, <1>1, SendAdds
  <2>2. n \notin Requests /\ \A i : Of(i) \subseteq Requests
    BY <1>0, RequestFacts
  <2>3. fresh' \subseteq fresh \cup {n}
    BY <1>1 DEF send
  <2>4. answers'[id] = <<>> /\ \A i \in Ids \ {id} : answers'[i] = answers[i]
    BY <1>0, <1>1 DEF send, Shape
  <2>5. DOMAIN <<>> = {}
    OBVIOUS
  <2> HIDE DEF n
  <2>6. ASSUME NEW i \in Ids, Of(i)' # {}, Last(i)' \in fresh', NEW k \in DOMAIN answers'[i]
        PROVE  answers'[i][k] = Last(i)'
    <3>1. i # id
      BY <2>4, <2>5, <2>6
    <3>2. Last(i) \in Of(i) /\ Last(i) # n
      BY <3>1, <2>1, <2>2, <2>6 DEF Latest
    <3> QED
      BY <3>1, <3>2, <2>1, <2>3, <2>4, <2>6 DEF Own
  <2> QED
    BY <2>6 DEF Own
<1>2. CASE Other
  <2>1. UNCHANGED fresh /\ \A id : Of(id)' = Of(id) /\ Last(id)' = Last(id)
    BY <1>0, <1>2, OtherAnswers, ReqsStay
  <2>2. CASE UNCHANGED answers
    BY <2>1, <2>2 DEF Own
  <2>3. ASSUME NEW n \in Requests, Traced(n), Answer(reqs[n], n)
        PROVE  Own'
    <3>1. n \in Nat /\ reqs[n] \in Ids /\ n \in Of(reqs[n])
      BY <1>0, RequestFacts
    <3>2. /\ \A i \in Ids \ {reqs[n]} : answers'[i] = answers[i]
          /\ \A k \in DOMAIN answers'[reqs[n]] :
                \/ k \in DOMAIN answers[reqs[n]] /\ answers'[reqs[n]][k] = answers[reqs[n]][k]
                \/ answers'[reqs[n]][k] = n
      BY <1>0, <2>3, <3>1, AnswerAdds
    <3>3. Last(reqs[n]) \in fresh => n = Last(reqs[n])
      BY <2>3, <3>1 DEF Alone
    <3> QED
      BY <2>1, <3>1, <3>2, <3>3 DEF Own
  <2> QED
    BY <1>0, <1>2, <2>2, <2>3, SpeaksForTraced
<1> QED
  BY <1>1, <1>2 DEF Next, Other

(* The first conjunct of Covered through the steps of Procc. *)
LEMMA ProccCovers ==
    ASSUME Base, Latest, Covered, ProccStep, NEW id \in open'
    PROVE  InHand(id)' \/ id \in DOMAIN timers' \/ Last(id)' \in (cut \cup overheard)'
<1> USE DEF pvars, tvars, nvars, hvars
<1>0. Shape /\ Known /\ Mapped /\ None \notin Requests
  BY RequestFacts DEF Base
<1>1. Other
  BY DEF Other
<1>2. /\ UNCHANGED reqs /\ id \in open /\ Of(id)' = Of(id) /\ Last(id)' = Last(id)
      /\ Of(id) \subseteq Requests
  BY <1>0, <1>1, OtherAnswers, ReqsStay, RequestFacts
<1>3. InHand(id) \/ id \in DOMAIN timers \/ Last(id) \in cut \cup overheard
  BY <1>2 DEF Covered
<1>4. \A n \in Of(id) : reqs[n] = id
  BY DEF Of
<1>5. CASE Refuse
  <2>1. UNCHANGED <<timers, hvars, cur>> /\ input' = Tail(input) /\ input # <<>>
    BY <1>5 DEF Refuse
  <2>2. reqs[Head(input)] # id
    <3>1. Head(input) \in Requests
      BY <1>0, <2>1, FirstInput
    <3>2. reqs[Head(input)] \in Ids /\ Head(input) \in Nat
      BY <1>0, <3>1, RequestFacts
    <3>3. open' = open \ {reqs[Head(input)]}
      BY <1>0, <1>5, <3>2, AnswerAdds DEF Refuse
    <3> QED
      BY <3>3
  <2>3. InHand(id) => InHand(id)'
    <3> SUFFICES ASSUME InHand(id) PROVE InHand(id)'
      OBVIOUS
    <3>1. PICK n \in Of(id) : n = cur \/ \E k \in DOMAIN input : input[k] = n
      BY DEF InHand
    <3>2. n = cur' \/ \E k \in DOMAIN input' : input'[k] = n
      BY <1>0, <1>4, <2>1, <2>2, <3>1, FirstInput
    <3> QED
      BY <1>2, <3>1, <3>2 DEF InHand
  <2> QED
    BY <1>2, <1>3, <2>1, <2>3
<1>6. CASE SendOk
  <2>1. /\ UNCHANGED <<timers, hvars>> /\ input' = Tail(input) /\ input # <<>>
        /\ cur' = Head(input) /\ cur = None
    BY <1>0, <1>6 DEF SendOk, Known
  <2>2. InHand(id) => InHand(id)'
    <3> SUFFICES ASSUME InHand(id) PROVE InHand(id)'
      OBVIOUS
    <3>1. PICK n \in Of(id) : n = cur \/ \E k \in DOMAIN input : input[k] = n
      BY DEF InHand
    <3>2. n = cur' \/ \E k \in DOMAIN input' : input'[k] = n
      BY <1>0, <1>2, <2>1, <3>1, FirstInput
    <3> QED
      BY <1>2, <3>1, <3>2 DEF InHand
  <2> QED
    BY <1>2, <1>3, <2>1, <2>2
<1>7. CASE StartTimer
  <2>1. UNCHANGED <<input, hvars>> /\ DOMAIN timers' = DOMAIN timers \cup {reqs[cur]}
    BY <1>0, <1>7, StartAdds DEF StartTimer
  <2>2. InHand(id) => InHand(id)' \/ id = reqs[cur]
    BY <1>2, <1>4, <2>1 DEF InHand
  <2> QED
    BY <1>2, <1>3, <2>1, <2>2
<1>8. CASE ExpireFirst
  <2> DEFINE head == Head(itimers).id
  <2>1. UNCHANGED <<input, cur, hvars>>
    BY <1>8 DEF ExpireFirst
  <2>2. /\ head \in Ids
        /\ \/ UNCHANGED timers
           \/ DOMAIN timers' = DOMAIN timers \ {head} /\ open' = open \ {head}
    <3>1. ASSUME timers[head] \in Requests, head \in Ids, Answer(head, timers[head])
          PROVE  open' = open \ {head}
      <4>1. timers[head] \in Nat
        BY <1>0, <3>1, RequestFacts
      <4> QED
        BY <1>0, <3>1, <4>1, AnswerAdds
    <3> QED
      BY <1>0, <1>8, <3>1, ExpireAnswers
  <2> HIDE DEF head
  <2>3. id \in DOMAIN timers => id \in DOMAIN timers'
    BY <2>2
  <2> QED
    BY <1>2, <1>3, <2>1, <2>3 DEF InHand
<1>9. CASE LoopEnds \/ LockTimers \/ ScanEnds
  <2>1. UNCHANGED <<input, cur, hvars, timers>>
    BY <1>9 DEF LoopEnds, LockTimers, ScanEnds
  <2> QED
    BY <1>2, <1>3, <2>1 DEF InHand
<1> QED
  BY <1>5, <1>6, <1>7, <1>8, <1>9 DEF ProccStep

LEMMA StepCovered == Base /\ Latest /\ Alone /\ Covered /\ [Next]_vars => Covered'
<1> SUFFICES ASSUME Base, Latest, Alone, Covered, [Next]_vars PROVE Covered'
  OBVIOUS
<1> USE DEF avars, pvars, tvars, nvars, hvars
<1>0. Shape /\ Known /\ Mapped /\ open \subseteq Ids
  BY DEF Base, Shape
<1>1. ASSUME NEW id \in Ids, send(id) PROVE Covered'
  <2> DEFINE n == Len(reqs) + 1
  <2>1. /\ Of(id)' = Of(id) \cup {n} /\ Last(id)' = n
        /\ \A i \in Ids \ {id} : Of(i)' = Of(i) /\ Last(i)' = Last(i)
    BY <1>0, <1>1, SendAdds
  <2>2. n \in Nat /\ n \notin Requests
    BY <1>0, RequestFacts
  <2>3. /\ DOMAIN input' = DOMAIN input \cup {Len(input) + 1}
        /\ \A k \in DOMAIN input : input'[k] = input[k]
        /\ input'[Len(input) + 1] = n
    BY <1>0, <1>1, <2>2, AppendFacts DEF send, Shape
  <2>4. /\ UNCHANGED <<timers, cur, npc, nid, nreq>> /\ open' = open \cup {id}
        /\ fresh' \subseteq fresh \cup {n}
        /\ cut' = cut \ Of(id) /\ overheard' = overheard \ Of(id)
    BY <1>1 DEF send
  <2> HIDE DEF n
  <2>5. ASSUME NEW i \in open'
        PROVE  Of(i)' # {} /\ (InHand(i)' \/ i \in DOMAIN timers' \/ Last(i)' \in (cut \cup overheard)')
    <3>1. CASE i = id
      BY <3>1, <2>1, <2>3 DEF InHand
    <3>2. CASE i # id
      <4>1. i \in open /\ i \in Ids \ {id}
        BY <1>0, <2>4, <3>2
      <4>2. InHand(i) => InHand(i)'
        <5> SUFFICES ASSUME InHand(i) PROVE InHand(i)'
          OBVIOUS
        <5>1. PICK m \in Of(i) : m = cur \/ \E k \in DOMAIN input : input[k] = m
          BY DEF InHand
        <5>2. m = cur' \/ \E k \in DOMAIN input' : input'[k] = m
          BY <5>1, <2>3, <2>4
        <5> QED
          BY <4>1, <5>1, <5>2, <2>1 DEF InHand
      <4>3. Of(i) # {} /\ (InHand(i) \/ i \in DOMAIN timers \/ Last(i) \in cut \cup overheard)
        BY <4>1 DEF Covered
      <4>4. Last(i) \notin Of(id)
        BY <4>1, <4>3 DEF Latest, Of
      <4> QED
        BY <4>1, <4>2, <4>3, <4>4, <2>1, <2>4
    <3> QED
      BY <3>1, <3>2
  <2>6. (npc = "answered" /\ nid \in open => nreq # Last(nid))'
    <3>1. CASE npc = "answered"
      <4>1. nreq \in Requests /\ nid \in Ids
        BY <1>0, <3>1 DEF Known
      <4>2. PICK i \in Ids : i = nid /\ nid' = i
        BY <4>1, <2>4
      <4>3. CASE i = id
        BY <4>1, <4>2, <4>3, <2>1, <2>2, <2>4
      <4>4. CASE i # id
        BY <3>1, <4>2, <4>4, <2>1, <2>4 DEF Covered
      <4> QED
        BY <4>3, <4>4
    <3>2. CASE npc # "answered"
      BY <3>2, <2>4
    <3> QED
      BY <3>1, <3>2
  <2>7. fresh' \cap cut' = {}
    BY <1>0, <2>2, <2>4 DEF Covered, Known
  <2> QED
    BY <2>5, <2>6, <2>7 DEF Covered
<1>2. CASE Other
  <2>1. /\ UNCHANGED <<reqs, fresh>> /\ open' \subseteq open
        /\ \A id : Of(id)' = Of(id) /\ Last(id)' = Last(id)
    BY <1>0, <1>2, OtherAnswers, ReqsStay
  <2>2. CASE ProccStep
    <3>1. UNCHANGED <<npc, nid, nreq, cut>>
      BY <2>2 DEF ProccStep, Refuse, SendOk, StartTimer, LoopEnds, LockTimers, ExpireFirst, ScanEnds
    <3>2. \A id \in open' : InHand(id)' \/ id \in DOMAIN timers' \/ Last(id)' \in (cut \cup overheard)'
      BY <2>2, ProccCovers
    <3> QED
      BY <2>1, <3>1, <3>2 DEF Covered
  <2>3. CASE Tick \/ UNCHANGED vars
    <3>1. UNCHANGED <<nvars, hvars, timers, input, cur>>
      BY <2>3 DEF Tick, vars
    <3>2. \A id : InHand(id)' = InHand(id)
      BY <2>1, <3>1 DEF InHand
    <3> QED
      BY <2>1, <3>1, <3>2 DEF Covered
  <2>4. CASE DeliverReply
    <3>1. UNCHANGED <<hvars, timers, input, cur>>
      BY <2>4 DEF DeliverReply
    <3>2. \A id : InHand(id)' = InHand(id)
      BY <2>1, <3>1 DEF InHand
    <3>3. npc' = "answered" => nid' \notin open'
      <4> SUFFICES ASSUME npc' = "answered" PROVE nid' \notin open'
        OBVIOUS
      <4>1. PICK n \in server : nid' = reqs[n] /\ Answer(reqs[n], n)
        BY <2>4 DEF DeliverReply
      <4>2. n \in Nat /\ reqs[n] \in Ids
        BY <1>0, RequestFacts DEF Known
      <4> QED
        BY <1>0, <4>1, <4>2, AnswerAdds
    <3> QED
      BY <2>1, <3>1, <3>2, <3>3 DEF Covered
  <2>5. CASE DeliverUnasked
    <3>1. UNCHANGED <<hvars, timers, input, cur>> /\ npc' = "silent"
      BY <2>5 DEF DeliverUnasked
    <3>2. \A id : InHand(id)' = InHand(id)
      BY <2>1, <3>1 DEF InHand
    <3> QED
      BY <2>1, <3>1, <3>2 DEF Covered
  <2>6. CASE EraseTimer
    <3>1. nid \in Ids /\ npc \in {"answered", "silent"} /\ npc' = "idle"
      BY <1>0, <2>6 DEF EraseTimer, Known, Shape
    <3>2. /\ UNCHANGED <<input, cur>> /\ DOMAIN timers' = DOMAIN timers \ {nid}
          /\ cut \subseteq cut' /\ cut' \subseteq cut \cup {Last(nid)}
          /\ cut' # cut => nreq \notin {None, Last(nid)}
          /\ overheard \subseteq overheard'
          /\ nid \in DOMAIN timers /\ (nreq \notin {None, Last(nid)} \/ npc = "silent") =>
                Last(nid) \in cut' \cup overheard'
      BY <2>6 DEF EraseTimer, Erase
    <3>3. nid \in open => nreq \notin {None, Last(nid)} \/ npc = "silent"
      BY <1>0, <3>1 DEF Covered, Known
    <3>4. cut' # cut => Last(nid) \notin fresh
      <4>1. nreq \notin {None, Last(nid)} => nreq \in Of(nid) /\ Traced(nreq)
        BY <1>0 DEF Known, Of, Traced
      <4> QED
        BY <3>1, <3>2, <4>1 DEF Alone
    <3>5. \A id : InHand(id)' = InHand(id)
      BY <2>1, <3>2 DEF InHand
    <3>6. \A id \in open' :
             Of(id)' # {} /\ (InHand(id)' \/ id \in DOMAIN timers' \/ Last(id)' \in (cut \cup overheard)')
      BY <2>1, <3>2, <3>3, <3>5 DEF Covered
    <3>7. fresh' \cap cut' = {}
      BY <2>1, <3>2, <3>4 DEF Covered
    <3> QED
      BY <3>1, <3>6, <3>7 DEF Covered
  <2> QED
    BY <1>2, <2>2, <2>3, <2>4, <2>5, <2>6 DEF Other
<1> QED
  BY <1>1, <1>2 DEF Next, Other

LEMMA StepTiming == Base /\ Timing /\ [Next]_vars => Timing'
<1> SUFFICES ASSUME Base, Timing, [Next]_vars PROVE Timing'
  OBVIOUS
<1> USE DEF avars, pvars, tvars, nvars, hvars
<1>0. /\ Shape /\ Known /\ Mapped
      /\ clock \in 0 .. TickMod - 1 /\ tick \in 0 .. TickMod - 1
      /\ \A k \in DOMAIN itimers : itimers[k] \in Entry
  <2>1. itimers \in Seq(Entry)
    BY DEF Base, Shape
  <2> QED
    BY <2>1, LenProperties DEF Base, Shape
<1>1. CASE Tick
  <2>1. /\ DOMAIN itimers' = DOMAIN itimers
        /\ \A k \in DOMAIN itimers : /\ itimers[k].age < MaxStall
                                     /\ itimers'[k].tick = itimers[k].tick
                                     /\ itimers'[k].age = itimers[k].age + 1
    BY <1>0, <1>1, TickAges
  <2>2. \A k \in DOMAIN itimers : \A now : Since(now, itimers'[k]) = Since(now, itimers[k])
    BY <2>1 DEF Since
  <2>3. \A k \in DOMAIN itimers : Since(clock', itimers'[k]) = itimers'[k].age
    BY <1>0, <1>1, <2>1, <2>2, SinceTick DEF Tick, Timing
  <2>4. \A k \in DOMAIN itimers : Since(tick, itimers[k]) \in Nat /\ itimers[k].age \in Nat
    BY <1>0, SinceDiff, ReuseAssumption DEF Entry
  <2>5. UNCHANGED <<ppc, tick>>
    BY <1>1 DEF Tick
  <2>6. ppc \in {"lock", "scan"} =>
            \A k \in DOMAIN itimers : Since(tick, itimers'[k]) <= itimers'[k].age
    BY <2>1, <2>2, <2>4 DEF Timing
  <2> QED
    BY <2>1, <2>3, <2>5, <2>6 DEF Timing
<1>2. CASE StartTimer
  <2> DEFINE e == [id |-> reqs[cur], tick |-> clock, age |-> 0, of |-> cur]
  <2>1. /\ e \in Entry
        /\ DOMAIN itimers' = DOMAIN itimers \cup {Len(itimers) + 1}
        /\ \A k \in DOMAIN itimers : itimers'[k] = itimers[k]
        /\ itimers'[Len(itimers) + 1] = e
    BY <1>0, <1>2, StartAdds
  <2>2. e.age = 0 /\ e.tick = clock
    OBVIOUS
  <2> HIDE DEF e
  <2>3. Since(clock, e) = 0
    BY <1>0, <2>1, <2>2, SinceDiff
  <2>4. clock' = clock /\ ppc' = "loop"
    BY <1>2 DEF StartTimer
  <2> QED
    BY <2>1, <2>2, <2>3, <2>4 DEF Timing
<1>3. CASE LoopEnds
  BY <1>0, <1>3 DEF LoopEnds, Timing, Entry
<1>4. CASE ExpireFirst
  <2>1. \A k \in DOMAIN itimers' : k + 1 \in DOMAIN itimers /\ itimers'[k] = itimers[k + 1]
    BY <1>0, <1>4, FirstEntry DEF ExpireFirst
  <2>2. UNCHANGED <<clock, tick, ppc>>
    BY <1>4 DEF ExpireFirst
  <2> QED
    BY <2>1, <2>2 DEF Timing
<1>5. CASE ScanEnds
  BY <1>5 DEF ScanEnds, Timing
<1>6. CASE Refuse \/ SendOk \/ LockTimers
  BY <1>6 DEF Refuse, SendOk, LockTimers, Timing
<1>7. CASE DeliverReply \/ DeliverUnasked \/ EraseTimer \/ UNCHANGED vars
  BY <1>7 DEF DeliverReply, DeliverUnasked, EraseTimer, vars, Timing
<1>8. ASSUME NEW id \in Ids, send(id) PROVE Timing'
  BY <1>8 DEF send, Timing
<1> QED
  BY <1>1, <1>2, <1>3, <1>4, <1>5, <1>6, <1>7, <1>8 DEF Next, ProccStep

-----------------------------------------------------------------------------
(* Theorems *)

LEMMA Invariance == Spec => []IInv
<1>1. Init => IInv
  <2> SUFFICES ASSUME Init PROVE IInv
    OBVIOUS
  <2>1. /\ <<>> \in Seq(Ids) /\ <<>> \in Seq(Nat) /\ <<>> \in Seq(Entry) /\ <<>> \in Seq(Nat)
        /\ DOMAIN <<>> = {} /\ Len(<<>>) = 0 /\ 0 \in 0 .. TickMod - 1
    BY ReuseAssumption
  <2>2. DOMAIN timers = {}
    BY DEF Init
  <2>3. Shape
    BY <2>1, <2>2, ReuseAssumption DEF Init, Shape, None
  <2>4. Requests = {} /\ \A id : Of(id) = {}
    BY <2>1 DEF Init, Requests, Of
  <2>5. Known /\ Mapped /\ Latest /\ Alone /\ Own /\ Timing
    BY <2>1, <2>2, <2>4 DEF Init, Known, Mapped, Latest, Alone, Own, Timing
  <2>6. Covered
    BY DEF Init, Covered
  <2> QED
    BY <2>3, <2>5, <2>6 DEF IInv
<1>2. IInv /\ [Next]_vars => IInv'
  BY StepShape, StepKnown, StepMapped, StepLatest, StepAlone, StepOwn, StepCovered, StepTiming
     DEF IInv, Base
<1> QED
  BY <1>1, <1>2, PTL DEF Spec

(* Every variable keeps its type; in particular every request that is      *)
(* held in a queue, in the map or by a thread is one that was sent, and    *)
(* the command in the map is that of a request under its id.               *)
THEOREM TypeCorrect == Spec => []TypeOK
<1>1. IInv => TypeOK
  <2> SUFFICES ASSUME IInv PROVE TypeOK
    OBVIOUS
  <2>0. Shape /\ Known /\ Mapped
    BY DEF IInv
  <2>1. input \in Seq(Requests)
    BY <2>0, SeqOver DEF Shape, Known
  <2>2. itimers \in Seq([id : Ids, tick : 0..TickMod - 1, age : 0..MaxStall, of : Requests])
    <3>1. \A k \in DOMAIN itimers : itimers[k] \in Entry
      <4>1. itimers \in Seq(Entry)
        BY <2>0 DEF Shape
      <4> QED
        BY <4>1, LenProperties
    <3>2. \A k \in DOMAIN itimers :
              itimers[k] \in [id : Ids, tick : 0..TickMod - 1, age : 0..MaxStall, of : Requests]
      BY <2>0, <3>1 DEF Entry, Known
    <3> QED
      BY <2>0, <3>2, SeqOver DEF Shape
  <2>3. DOMAIN answers = Ids
    BY <2>0 DEF Shape
  <2> QED
    BY <2>0, <2>1, <2>2, <2>3 DEF Shape, Known, Mapped, TypeOK
<1> QED
  BY <1>1, Invariance, PTL

(* A request under an id of which nothing was left gets the answers meant  *)
(* for it and no other request's, and OnTimer finds its own command.       *)
THEOREM FreshGetsItsOwn == Spec => []FreshIsOwn
<1>1. IInv => FreshIsOwn
  <2> SUFFICES ASSUME IInv, NEW id \in Ids, Of(id) # {}, Last(id) \in fresh
               PROVE  /\ \A k \in DOMAIN answers[id] : answers[id][k] = Last(id)
                      /\ id \in DOMAIN timers => timers[id] = Last(id)
    BY DEF FreshIsOwn
  <2>1. \A k \in DOMAIN answers[id] : answers[id][k] = Last(id)
    BY DEF IInv, Own
  <2>2. id \in DOMAIN timers => timers[id] \in Of(id) /\ Traced(timers[id])
    BY DEF IInv, Mapped, Traced
  <2> QED
    BY <2>1, <2>2 DEF IInv, Alone
<1> QED
  BY <1>1, Invariance, PTL

(* A request that waits without a timer and out of Procc's hands has lost  *)
(* it to the erase at the end of BinStream, for an earlier request's reply *)
(* or for a message that answers nothing; the first never happens to a     *)
(* request whose id was quiet.                                             *)
THEOREM TimerLostOnlyToErase == Spec => []UntimedOnlyByErase
<1>1. IInv => UntimedOnlyByErase
  BY DEF IInv, Covered, UntimedOnlyByErase
<1> QED
  BY <1>1, Invariance, PTL

(* TestTimers answers for such a request only by its own entry, and when   *)
(* that has really waited the 15 s.                                        *)
THEOREM FreshNeverEarly == Spec => FreshIsNotEarly
<1>1. IInv /\ [Next]_vars =>
        [\A id \in Ids :
            Of(id) # {} /\ Last(id) \in fresh /\ ppc = "scan"
                /\ Len(answers'[id]) > Len(answers[id]) /\ npc' = npc =>
            Head(itimers).of = Last(id) /\ Head(itimers).age >= TIMEOUT]_vars
  <2> SUFFICES ASSUME IInv, [Next]_vars, NEW id \in Ids, Of(id) # {}, Last(id) \in fresh, ppc = "scan",
                      Len(answers'[id]) > Len(answers[id]), npc' = npc
               PROVE  Head(itimers).of = Last(id) /\ Head(itimers).age >= TIMEOUT
    OBVIOUS
  <2> USE DEF avars, pvars, tvars, nvars, hvars
  <2>0. Shape /\ Known /\ Mapped /\ Alone /\ Timing /\ Len(answers[id]) \in Nat
    BY LenProperties DEF IInv, Shape
  <2>1. answers'[id] # answers[id]
    BY <2>0
  <2>2. CASE ExpireFirst
    <3> DEFINE t == Head(itimers)
    <3>1. /\ t.id \in Ids
          /\ \/ UNCHANGED answers
             \/ t.id \in DOMAIN timers /\ timers[t.id] \in Requests /\ Answer(t.id, timers[t.id])
      BY <2>0, <2>2, ExpireAnswers
    <3>2. itimers # <<>> /\ Expired(t)
      BY <2>2 DEF ExpireFirst
    <3>3. /\ 1 \in DOMAIN itimers /\ t = itimers[1] /\ t \in Entry
          /\ t.of \in Requests /\ t.id = reqs[t.of]
      BY <2>0, <3>2, FirstEntry
    <3>4. t.id = id
      <4> SUFFICES ASSUME t.id # id PROVE FALSE
        OBVIOUS
      <4>1. /\ timers[t.id] \in Requests /\ Answer(t.id, timers[t.id])
        BY <3>1, <2>1
      <4>2. timers[t.id] \in Nat
        BY <4>1, <2>0, RequestFacts
      <4>3. answers'[id] = answers[id]
        BY <3>1, <4>1, <4>2, <2>0, AnswerAdds
      <4> QED
        BY <4>3, <2>1
    <3>5. t.of = Last(id)
      <4>1. t.of \in Of(id)
        BY <3>3, <3>4 DEF Of
      <4>2. Traced(t.of)
        BY <3>3 DEF Traced
      <4> QED
        BY <4>1, <4>2, <2>0 DEF Alone
    <3>6. Since(tick, t) <= t.age /\ Since(tick, t) >= TIMEOUT
      BY <2>0, <3>2, <3>3 DEF Timing, Expired, Since
    <3>7. Since(tick, t) \in Nat /\ t.age \in Int /\ TIMEOUT \in Int
      <4>1. tick \in 0 .. TickMod - 1
        BY <2>0 DEF Shape
      <4>2. Since(tick, t) \in Nat
        BY <4>1, <3>3, SinceDiff
      <4> QED
        BY <4>2, <3>3, ReuseAssumption DEF Entry
    <3> QED
      BY <3>5, <3>6, <3>7
  <2>3. ASSUME NEW i \in Ids, send(i) PROVE FALSE
    <3>1. answers' = [answers EXCEPT ![i] = <<>>]
      BY <2>3 DEF send
    <3>2. answers'[id] = IF i = id THEN <<>> ELSE answers[id]
      BY <2>0, <3>1 DEF Shape
    <3>3. Len(<<>>) = 0
      OBVIOUS
    <3> QED
      BY <2>0, <2>1, <3>2, <3>3
  <2>4. ~Refuse /\ ~DeliverReply
    BY <2>0 DEF Refuse, DeliverReply
  <2>5. CASE \/ Tick \/ SendOk \/ StartTimer \/ LoopEnds \/ LockTimers \/ ScanEnds
             \/ DeliverUnasked \/ EraseTimer \/ UNCHANGED vars
    BY <2>1, <2>5 DEF Tick, SendOk, StartTimer, LoopEnds, LockTimers, ScanEnds, DeliverUnasked,
                      EraseTimer, vars
  <2> QED
    BY <2>2, <2>3, <2>4, <2>5 DEF Next, ProccStep
<1> QED
  BY <1>1, Invariance, PTL DEF Spec, FreshIsNotEarly

=============================================================================
