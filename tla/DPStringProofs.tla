--------------------------- MODULE DPStringProofs ---------------------------
(* Theorems about DPString, for any sizes of arrays, widths of integers    *)
(* and lengths of numbers.                                                 *)
EXTENDS DPString, TLAPS

(* What a step keeps of the variables' types, history aside. *)
Typed ==
    /\ size \in Sizes /\ size \in Nat /\ size >= 1 /\ len \in Nat
    /\ ended \in BOOLEAN
    /\ call \in [hi : Nat, want : Nat, ret : BOOLEAN]

(* A step that stays inside the array, and one that lets only the zero of  *)
(* the text fall behind it.                                                *)
StepInside == call'.hi <= size /\ len' < size
StepNear == call'.hi <= size + 1 /\ len' <= size

-----------------------------------------------------------------------------
(* How a call ends *)

(* The ends of a call keep the types. *)
LEMMA EndsTyped ==
    ASSUME Typed, NEW n \in Nat, NEW want \in Nat, NEW zero \in BOOLEAN
    PROVE  /\ Becomes(n, want) => Typed'
           /\ Refuse(want) => Typed'
           /\ Append(n) => Typed'
           /\ Stays(want) => Typed'
           /\ Midway(n, want, zero) => Typed'
           /\ Emptied(want) => Typed'
           /\ Undone(n, want) => Typed'
<1>1. Becomes(n, want) => Typed'
  BY DEF Typed, Becomes
<1>2. Refuse(want) => Typed'
  BY DEF Typed, Refuse
<1>3. Append(n) => Typed'
  BY DEF Typed, Append, Becomes
<1>4. Stays(want) => Typed'
  BY DEF Typed, Stays
<1>5. Midway(n, want, zero) => Typed'
  BY DEF Typed, Midway
<1>6. Emptied(want) => Typed'
  BY DEF Typed, Emptied
<1>7. Undone(n, want) => Typed'
  BY DEF Typed, Undone, Max
<1> QED
  BY <1>1, <1>2, <1>3, <1>4, <1>5, <1>6, <1>7

(* Calls that keep the length and write nothing. *)
LEMMA EndsIdle ==
    ASSUME Typed, NEW want \in Nat, Refuse(want) \/ Stays(want)
    PROVE  call'.hi = 0 /\ len' = len
  BY DEF Typed, Refuse, Stays

(* A text of n characters. *)
LEMMA EndsAt ==
    ASSUME Typed, NEW n \in Nat, NEW want \in Nat, Becomes(n, want)
    PROVE  call'.hi = n + 1 /\ len' = n
  BY DEF Typed, Becomes

(* Add keeps the zero inside. *)
LEMMA AddInside ==
    ASSUME Typed, NEW n \in Nat, Add(n)
    PROVE  Typed' /\ (len < size => StepInside) /\ (len <= size => StepNear)
  BY EndsTyped, EndsAt, EndsIdle DEF Typed, Add, Append, StepInside, StepNear

-----------------------------------------------------------------------------
(* The calls that count the zero *)

(* Filling up to a tab stop adds at most a tab. *)
LEMMA TabStop ==
    ASSUME NEW l \in Nat, NEW tab \in Nat, tab >= 2
    PROVE  tab - (l % tab) \in Nat
<1>1. l % tab \in 0 .. tab - 1
  OBVIOUS
<1> QED
  BY <1>1

(* The calls of Strict. *)
LEMMA StrictInside ==
    ASSUME Typed, StringAssumption, Strict
    PROVE  Typed' /\ (len < size => StepInside) /\ (len <= size => StepNear)
<1> DEFINE Goal == Typed' /\ (len < size => StepInside) /\ (len <= size => StepNear)
<1>1. Dwords \subseteq Nat
  BY DEF Dwords, StringAssumption
<1>2. ASSUME NEW n \in Nat, SetLen(n) \/ Set(n) \/ CutRight(n) PROVE Goal
  BY <1>2, EndsTyped, EndsAt, EndsIdle
  DEF Typed, SetLen, Set, CutRight, StepInside, StepNear
<1>3. ASSUME NEW n \in Nat, CutLeft(n) PROVE Goal
  BY <1>3 DEF Typed, CutLeft, StepInside, StepNear
<1>4. ASSUME NEW n \in Nat, AddSpaceAlignLen(n) PROVE Goal
  <2>1. CASE n <= len
    BY <1>4, <2>1, EndsTyped, EndsIdle
    DEF Typed, AddSpaceAlignLen, StepInside, StepNear
  <2>2. CASE ~(n <= len)
    <3>1. n - len \in Nat /\ Add(n - len)
      BY <1>4, <2>2 DEF Typed, AddSpaceAlignLen
    <3> QED
      BY <3>1, AddInside
  <2> QED
    BY <2>1, <2>2
<1>5. ASSUME NEW n \in Nat, AddSpaceTab(n) PROVE Goal
  <2>1. CASE n < 2 \/ len = 0
    BY <1>5, <2>1, EndsTyped, EndsIdle
    DEF Typed, AddSpaceTab, StepInside, StepNear
  <2>2. CASE ~(n < 2 \/ len = 0)
    <3>1. n - (len % n) \in Nat
      BY <2>2, TabStop DEF Typed
    <3>2. Add(n - (len % n))
      BY <1>5, <2>2 DEF AddSpaceTab
    <3> QED
      BY <3>1, <3>2, AddInside
  <2> QED
    BY <2>1, <2>2
<1>6. ASSUME NEW n \in Nat, AddStrLine(n) PROVE Goal
  BY <1>6, EndsTyped, EndsIdle, AddInside
  DEF Typed, AddStrLine, StepInside, StepNear
<1>7. ASSUME Clear \/ AddPathDelimiter PROVE Goal
  BY <1>7, EndsTyped, EndsAt, EndsIdle, AddInside
  DEF Typed, Clear, AddPathDelimiter, StepInside, StepNear
<1>8. 0 .. size \subseteq Nat
  OBVIOUS
<1> QED
  BY <1>1, <1>2, <1>3, <1>4, <1>5, <1>6, <1>7, <1>8, AddInside DEF Strict

(* Tokens, assignments and texts that clear, and texts in UTF-8. *)
LEMMA OthersInside ==
    ASSUME Typed, NEW n \in Nat,
           AddAsToken(n) \/ AssignOrClear(n) \/ AddOrClear(n) \/ AddWAsUTF8(n)
    PROVE  Typed' /\ (len < size => StepInside) /\ (len <= size => StepNear)
<1> DEFINE Goal == Typed' /\ (len < size => StepInside) /\ (len <= size => StepNear)
<1>1. ASSUME AddAsToken(n) PROVE Goal
  BY <1>1, EndsTyped, EndsAt, EndsIdle
  DEF Typed, AddAsToken, Append, StepInside, StepNear
<1>2. ASSUME AssignOrClear(n) \/ AddOrClear(n) PROVE Goal
  <2>1. Typed'
    BY <1>2, EndsTyped DEF AssignOrClear, AddOrClear
  <2>2. (len < size => StepInside) /\ (len <= size => StepNear)
    BY <1>2 DEF Typed, AssignOrClear, AddOrClear, Emptied, Append, Becomes,
                StepInside, StepNear
  <2> QED
    BY <2>1, <2>2
<1>3. ASSUME AddWAsUTF8(n) PROVE Goal
  <2>1. Typed'
    <3>1. ASSUME NEW l \in 1 .. 3, NEW zero \in BOOLEAN, Midway(n, n + l, zero) PROVE Typed'
      BY <3>1, EndsTyped, n + l \in Nat
    <3> QED
      BY <1>3, <3>1, EndsTyped DEF AddWAsUTF8
  <2>2. (len < size => StepInside) /\ (len <= size => StepNear)
    BY <1>3 DEF Typed, AddWAsUTF8, Midway, Append, Becomes, StepInside, StepNear
  <2> QED
    BY <2>1, <2>2
<1> QED
  BY <1>1, <1>2, <1>3

-----------------------------------------------------------------------------
(* The calls that do not count it *)

(* Numbers: zeros in front are tested first, then the digits. *)
LEMMA AddNumberNear ==
    ASSUME Typed, NEW pads \in Nat, NEW c \in Nat, AddNumber(pads, c)
    PROVE  Typed' /\ (len <= size => StepNear)
<1>1. Typed'
  BY EndsTyped, len + pads \in Nat, pads + c \in Nat DEF AddNumber, Typed
<1>2. len <= size => StepNear
  BY DEF Typed, AddNumber, Room, Undone, Max, Append, Becomes, StepNear
<1> QED
  BY <1>1, <1>2

(* A sign and digits. *)
LEMMA AddSignedNear ==
    ASSUME Typed, NEW c \in Nat, AddSigned(c)
    PROVE  Typed' /\ (len <= size => StepNear)
<1>1. Typed'
  BY EndsTyped, len + 2 \in Nat, c + 1 \in Nat DEF AddSigned, Typed
<1>2. len <= size => StepNear
  BY DEF Typed, AddSigned, Room, Refuse, Undone, Max, Append, Becomes, StepNear
<1> QED
  BY <1>1, <1>2

(* The byte that is returned is no more than what was written. *)
LEMMA ByteOf ==
    ASSUME StringAssumption, NEW n \in Nat
    PROVE  n % ByteMod \in Nat /\ n % ByteMod <= n
<1>1. n % ByteMod \in 0 .. ByteMod - 1 /\ n % ByteMod <= n
  BY DEF StringAssumption
<1> QED
  BY <1>1

(* Symbols in front, digits, and spaces behind. *)
LEMMA AddNumberExNear ==
    ASSUME Typed, StringAssumption, NEW pads \in Nat, NEW c \in Nat, NEW spaces \in Nat,
           AddNumberEx(pads, c, spaces)
    PROVE  Typed' /\ (len <= size => StepNear)
<1> DEFINE n == pads + c + spaces
           l == n % ByteMod
           done == IF pads > Room THEN 0
                   ELSE IF pads + c > Room THEN pads
                   ELSE IF n > Room THEN pads + c ELSE n
<1>1. n \in Nat /\ l \in Nat /\ l <= n
  BY ByteOf
<1>2. done \in Nat /\ (done <= Room \/ done = 0)
  BY DEF Typed, Room
<1>3. CASE n >= Room
  <2>1. Undone(len + done, n)
    BY <1>3 DEF AddNumberEx
  <2>2. Typed'
    BY <1>1, <1>2, <2>1, EndsTyped, len + done \in Nat DEF Typed
  <2>3. len <= size => StepNear
    <3> HIDE DEF done, n
    <3> QED
      BY <1>1, <1>2, <2>1 DEF Typed, Undone, Max, Room, StepNear
  <2> QED
    BY <2>2, <2>3
<1>4. CASE ~(n >= Room)
  <2>1. /\ len' = len + l
        /\ ended' = (l = n)
        /\ call' = [hi |-> len + n + 1, want |-> n, ret |-> (l # 0)]
        /\ UNCHANGED size
    BY <1>4 DEF AddNumberEx
  <2> HIDE DEF n, l
  <2>2. Typed'
    BY <1>1, <2>1 DEF Typed
  <2>3. len <= size => StepNear
    BY <1>1, <1>4, <2>1 DEF Typed, Room, StepNear
  <2> QED
    BY <2>2, <2>3
<1> QED
  BY <1>3, <1>4

(* A sign in front. *)
LEMMA AddSignedExNear ==
    ASSUME Typed, StringAssumption, NEW c \in Nat, NEW spaces \in Nat, AddSignedEx(c, spaces)
    PROVE  Typed' /\ (len <= size => StepNear)
<1> DEFINE n == 1 + c + spaces
<1>1. n \in Nat /\ len + n + 1 \in Nat
  BY DEF Typed
<1>2. CASE Refuse(n)
  <2> HIDE DEF n
  <2> QED
    BY <1>1, <1>2, EndsTyped DEF Typed, Refuse, StepNear
<1>3. CASE n < Room /\ Undone(len + n + 1, n)
  <2> HIDE DEF n
  <2>1. Typed'
    BY <1>1, <1>3, EndsTyped
  <2>2. len <= size => StepNear
    BY <1>1, <1>3 DEF Typed, Undone, Max, Room, StepNear
  <2> QED
    BY <2>1, <2>2
<1>4. CASE AddNumberEx(1, c, spaces)
  BY <1>4, AddNumberExNear
<1> QED
  BY <1>2, <1>3, <1>4 DEF AddSignedEx

(* Two numbers and a point. *)
LEMMA AddDoubleNear ==
    ASSUME Typed, NEW c \in Nat, NEW d \in Nat, AddDouble(c, d)
    PROVE  Typed' /\ (len <= size => StepNear)
<1>1. CASE d = 0 \/ c + 1 > Room
  BY <1>1, AddNumberNear DEF AddDouble
<1>2. CASE ~(d = 0 \/ c + 1 > Room) /\ len + c + 1 + d > size
  <2> DEFINE last == IF len + c + 1 > size THEN len + c + 1 ELSE len + c + 2
  <2>1. /\ ended' = FALSE
        /\ call' = [hi |-> last, want |-> c + 1 + d, ret |-> FALSE]
        /\ UNCHANGED <<size, len>>
    BY <1>2 DEF AddDouble
  <2>2. last \in Nat /\ (len <= size => last <= size + 1)
    BY <1>2 DEF Typed, Room
  <2> HIDE DEF last
  <2>3. Typed'
    BY <2>1, <2>2, c + 1 + d \in Nat DEF Typed
  <2>4. len <= size => StepNear
    BY <2>1, <2>2 DEF Typed, StepNear
  <2> QED
    BY <2>3, <2>4
<1>3. CASE ~(d = 0 \/ c + 1 > Room) /\ ~(len + c + 1 + d > size)
  <2>1. Append(c + 1 + d)
    BY <1>3 DEF AddDouble
  <2>2. Typed'
    BY <2>1, EndsTyped, c + 1 + d \in Nat
  <2>3. len <= size => StepNear
    BY <1>3, <2>1 DEF Typed, Append, Becomes, StepNear
  <2> QED
    BY <2>2, <2>3
<1> QED
  BY <1>1, <1>2, <1>3

(* Fixed numbers and dumps of bytes. *)
LEMMA AddFixedNear ==
    ASSUME Typed, NEW n \in Nat, NEW w \in {2, 3}, AddHexFixed(n) \/ AddDumpByte(n, w)
    PROVE  Typed' /\ (len <= size => StepNear)
<1>1. CASE AddHexFixed(n)
  BY <1>1, EndsTyped, EndsAt, EndsIdle DEF Typed, AddHexFixed, Append, StepNear
<1>2. CASE AddDumpByte(n, w)
  <2> DEFINE k == IF w = 3 /\ n > 0 THEN 3 * n - 1 ELSE w * n
  <2>1. k \in Nat /\ k <= n * w
    OBVIOUS
  <2>2. IF n * w + len > size THEN Refuse(k) ELSE Append(k)
    BY <1>2 DEF AddDumpByte
  <2> HIDE DEF k
  <2>3. Typed'
    BY <2>1, <2>2, EndsTyped
  <2>4. len <= size => StepNear
    BY <2>1, <2>2, n * w \in Nat DEF Typed, Refuse, Append, Becomes, StepNear
  <2> QED
    BY <2>3, <2>4
<1> QED
  BY <1>1, <1>2

(* The calls of Loose. *)
LEMMA LooseNear ==
    ASSUME Typed, StringAssumption, Loose
    PROVE  Typed' /\ (len <= size => StepNear)
<1>1. Digits \subseteq Nat /\ Bytes \subseteq Nat /\ Dwords \subseteq Nat
  BY DEF StringAssumption, Bytes, Dwords
<1> QED
  BY <1>1, AddNumberNear, AddSignedNear, AddNumberExNear, AddSignedExNear, AddDoubleNear, AddFixedNear
     DEF Loose

(* Addresses, which may stop midway. *)
LEMMA AddIPNear ==
    ASSUME Typed, NEW n \in Nat, NEW part \in Nat, AddIP(n, part)
    PROVE  Typed' /\ (len <= size => StepNear)
<1>1. Typed'
  BY EndsTyped, n + part \in Nat DEF AddIP
<1>2. len <= size => StepNear
  BY DEF Typed, AddIP, Midway, Append, Becomes, StepNear
<1> QED
  BY <1>1, <1>2

(* The wild calls keep the types, if nothing else. *)
LEMMA WildTyped ==
    ASSUME Typed, StringAssumption, len <= size, Wild
    PROVE  Typed'
<1>1. Alphabets \subseteq Nat /\ Dwords \subseteq Nat
  BY DEF StringAssumption, Dwords
<1>2. ASSUME NEW n \in Nat, AddWraps(n) PROVE Typed'
  BY <1>2, EndsTyped DEF AddWraps
<1>3. ASSUME NEW n \in Nat, NEW w \in {2, 3}, AddDumpByteWraps(n, w) PROVE Typed'
  <2>1. n > 0
    BY <1>3 DEF AddDumpByteWraps, StringAssumption, Typed
  <2>2. (IF w = 3 THEN 3 * n - 1 ELSE w * n) \in Nat
    BY <2>1
  <2> QED
    BY <1>3, <2>2, EndsTyped DEF AddDumpByteWraps
<1>4. ASSUME NEW n \in Nat, NEW space \in 0 .. 3, NEW w \in {4, 5}, AddDumpByte0x(n, space, w)
      PROVE  Typed'
  <2>1. (IF w = 4 \/ n = 0 THEN 4 * n ELSE 4 * n + (n - 1) * (1 + space)) \in Nat
    <3>1. CASE w = 4 \/ n = 0
      BY <3>1
    <3>2. CASE ~(w = 4 \/ n = 0)
      <4>1. n - 1 \in Nat /\ 1 + space \in Nat /\ 4 * n \in Nat
        BY <3>2
      <4>2. (n - 1) * (1 + space) \in Nat
        BY <4>1
      <4> QED
        BY <3>2, <4>1, <4>2
    <3> QED
      BY <3>1, <3>2
  <2> QED
    BY <1>4, <2>1, EndsTyped DEF AddDumpByte0x
<1>5. ASSUME NEW n \in Nat, NEW letters \in Nat, AddRnd(n, letters) PROVE Typed'
  BY <1>5, EndsTyped, len + letters \in Nat DEF AddRnd, Typed
<1>6. ASSUME SetChar PROVE Typed'
  BY <1>6, EndsTyped DEF SetChar
<1> QED
  BY <1>1, <1>2, <1>3, <1>4, <1>5, <1>6 DEF Wild

-----------------------------------------------------------------------------
(* A step of any kind keeps the types. *)
LEMMA NextTyped ==
    ASSUME StringAssumption, Typed, Next
    PROVE  Typed'
<1>1. Dwords \subseteq Nat /\ 0 .. size \subseteq Nat
  BY DEF StringAssumption, Dwords
<1>2. 0 .. 21 \subseteq Nat /\ 1 .. 5 \subseteq Nat
  OBVIOUS
<1> QED
  BY <1>1, <1>2, StrictInside, OthersInside, LooseNear, AddIPNear, WildTyped DEF Next

(* A step of the calls that count the zero stays inside the array. *)
LEMMA CountedInside ==
    ASSUME StringAssumption, Typed, Next, len < size, how' \in Counted
    PROVE  StepInside
<1>1. Dwords \subseteq Nat /\ 0 .. size \subseteq Nat
  BY DEF StringAssumption, Dwords
<1> QED
  BY <1>1, StrictInside, OthersInside DEF Next, Counted

(* A step of any but the wild calls oversteps by no more than the zero. *)
LEMMA TameNear ==
    ASSUME StringAssumption, Typed, Next, len <= size, how' # "wild"
    PROVE  StepNear
<1>1. Dwords \subseteq Nat /\ 0 .. size \subseteq Nat
  BY DEF StringAssumption, Dwords
<1>2. 0 .. 21 \subseteq Nat /\ 1 .. 5 \subseteq Nat
  OBVIOUS
<1> QED
  BY <1>1, <1>2, StrictInside, OthersInside, LooseNear, AddIPNear DEF Next

(* Inductive: Typed and the range of the history variable. *)
IInv == Typed /\ how \in Counted \cup {"loose", "ip", "wild"}

(* The constructors establish it. *)
LEMMA InitTyped ==
    ASSUME StringAssumption, Init PROVE IInv
  BY DEF StringAssumption, Init, IInv, Typed, Max, Counted

(* Every step keeps it. *)
LEMMA NextKeeps ==
    ASSUME StringAssumption, IInv, [Next]_vars PROVE IInv'
<1>1. CASE Next
  <2>1. Typed'
    BY <1>1, NextTyped DEF IInv
  <2>2. how' \in Counted \cup {"loose", "ip", "wild"}
    BY <1>1 DEF Next, Counted
  <2> QED
    BY <2>1, <2>2 DEF IInv
<1>2. CASE UNCHANGED vars
  BY <1>2 DEF IInv, Typed, vars
<1> QED
  BY <1>1, <1>2

(* The invariant holds. *)
LEMMA Invariance == Spec => []IInv
<1>1. Init => IInv
  BY StringAssumption, InitTyped
<1>2. IInv /\ [Next]_vars => IInv'
  BY StringAssumption, NextKeeps
<1> QED
  BY <1>1, <1>2, PTL DEF Spec

(* Every variable keeps its type, whatever is called in whatever order.    *)
THEOREM TypeCorrect == Spec => []TypeOK
<1>1. IInv => TypeOK
  BY DEF IInv, Typed, TypeOK
<1> QED
  BY <1>1, Invariance, PTL

(* For any array and anything they are given, the calls that count the     *)
(* zero keep the text and its zero in the array, and the others let its    *)
(* zero fall behind it and never more, in any sequence.                    *)
THEOREM StayNear == Spec => StaysNear
<1>1. IInv /\ [Next]_vars =>
         [/\ len < size /\ how' \in Counted => call'.hi <= size /\ len' < size
          /\ len <= size /\ how' # "wild" => call'.hi <= size + 1 /\ len' <= size]_vars
  BY StringAssumption, CountedInside, TameNear DEF IInv, StepInside, StepNear
<1> QED
  BY <1>1, Invariance, PTL DEF Spec, StaysNear

-----------------------------------------------------------------------------
(* What a call returns *)

(* The text has its zero, or the call has failed; and all was added that   *)
(* was asked for, or nothing.                                              *)
ZeroKept == ended' \/ ~ended \/ ~call'.ret
AllOrNone == call'.want > 0 => len' = IF call'.ret THEN len + call'.want ELSE len
Honest == call'.want < ByteMod => ZeroKept /\ AllOrNone

(* How the ends of a call report. *)
LEMMA EndsTrue ==
    ASSUME NEW n, NEW want, NEW zero
    PROVE  /\ Becomes(n, want) => ended' /\ call'.ret /\ call'.want = want /\ len' = n
           /\ Refuse(want) => ended' = ended /\ ~call'.ret /\ call'.want = want /\ len' = len
           /\ Stays(want) => ended' = ended /\ call'.ret /\ call'.want = want /\ len' = len
           /\ Midway(n, want, zero) => ~call'.ret
           /\ Emptied(want) => ~call'.ret
           /\ Undone(n, want) => ended' /\ ~call'.ret /\ call'.want = want /\ len' = len
<1>1. ASSUME NEW h, NEW r, call' = [hi |-> h, want |-> want, ret |-> r]
      PROVE  call'.want = want /\ call'.ret = r
  BY <1>1
<1>2. Becomes(n, want) => ended' = TRUE /\ call'.ret = TRUE /\ call'.want = want /\ len' = n
  BY <1>1 DEF Becomes
<1>3. Refuse(want) => ended' = ended /\ call'.ret = FALSE /\ call'.want = want /\ len' = len
  BY <1>1 DEF Refuse
<1>4. Stays(want) => ended' = ended /\ call'.ret = TRUE /\ call'.want = want /\ len' = len
  BY <1>1 DEF Stays
<1>5. Midway(n, want, zero) => call'.ret = FALSE
  BY <1>1 DEF Midway
<1>6. Emptied(want) => call'.ret = FALSE
  BY <1>1 DEF Emptied
<1>7. Undone(n, want) => ended' = TRUE /\ call'.ret = FALSE /\ call'.want = want /\ len' = len
  BY <1>1 DEF Undone
<1> QED
  BY <1>2, <1>3, <1>4, <1>5, <1>6, <1>7

(* The four ways in which the strict and the loose calls end. *)
LEMMA EndsHonest ==
    ASSUME Typed, NEW n \in Nat, NEW hi \in Nat
    PROVE  /\ Append(n) => ZeroKept /\ AllOrNone
           /\ Refuse(n) => ZeroKept /\ AllOrNone
           /\ Undone(hi, n) => ZeroKept /\ AllOrNone
           /\ Becomes(n, 0) => ZeroKept /\ AllOrNone
           /\ Stays(0) => ZeroKept /\ AllOrNone
           /\ Add(n) => ZeroKept /\ AllOrNone
<1>1. Append(n) => ZeroKept /\ AllOrNone
  BY EndsTrue DEF Append, ZeroKept, AllOrNone
<1>2. Refuse(n) => ZeroKept /\ AllOrNone
  BY EndsTrue DEF ZeroKept, AllOrNone
<1>3. Undone(hi, n) => ZeroKept /\ AllOrNone
  BY EndsTrue DEF ZeroKept, AllOrNone
<1>4. Becomes(n, 0) => ZeroKept /\ AllOrNone
  BY EndsTrue DEF ZeroKept, AllOrNone
<1>5. Stays(0) => ZeroKept /\ AllOrNone
  BY EndsTrue DEF ZeroKept, AllOrNone
<1> QED
  BY <1>1, <1>2, <1>3, <1>4, <1>5 DEF Add

(* The calls of Strict. *)
LEMMA StrictHonest ==
    ASSUME Typed, StringAssumption, Strict
    PROVE  ZeroKept /\ AllOrNone
<1>1. Dwords \subseteq Nat /\ 0 .. size \subseteq Nat
  BY DEF Dwords, StringAssumption
<1>2. ASSUME NEW n \in Nat, SetLen(n) \/ Set(n) \/ CutRight(n) PROVE ZeroKept /\ AllOrNone
  BY <1>2, EndsHonest DEF SetLen, Set, CutRight
<1>3. ASSUME NEW n \in Nat, CutLeft(n) PROVE ZeroKept /\ AllOrNone
  <2>1. ended' = ended /\ call'.want = 0
    BY <1>3, Zenon DEF CutLeft
  <2> QED
    BY <2>1 DEF ZeroKept, AllOrNone
<1>4. ASSUME NEW n \in Nat, AddSpaceAlignLen(n) PROVE ZeroKept /\ AllOrNone
  <2>1. CASE n <= len
    BY <1>4, <2>1, EndsHonest DEF AddSpaceAlignLen
  <2>2. CASE ~(n <= len)
    <3>1. n - len \in Nat /\ Add(n - len)
      BY <1>4, <2>2 DEF Typed, AddSpaceAlignLen
    <3> QED
      BY <3>1, EndsHonest
  <2> QED
    BY <2>1, <2>2
<1>5. ASSUME NEW n \in Nat, AddSpaceTab(n) PROVE ZeroKept /\ AllOrNone
  <2>1. CASE n < 2 \/ len = 0
    BY <1>5, <2>1, EndsHonest DEF AddSpaceTab
  <2>2. CASE ~(n < 2 \/ len = 0)
    <3>1. n - (len % n) \in Nat
      BY <2>2, TabStop DEF Typed
    <3>2. Add(n - (len % n))
      BY <1>5, <2>2 DEF AddSpaceTab
    <3> QED
      BY <3>1, <3>2, EndsHonest
  <2> QED
    BY <2>1, <2>2
<1>6. ASSUME NEW n \in Nat, Add(n) \/ AddStrLine(n) PROVE ZeroKept /\ AllOrNone
  BY <1>6, EndsHonest DEF AddStrLine
<1>7. ASSUME Clear \/ AddPathDelimiter PROVE ZeroKept /\ AllOrNone
  BY <1>7, EndsHonest DEF Clear, AddPathDelimiter
<1> QED
  BY <1>1, <1>2, <1>3, <1>4, <1>5, <1>6, <1>7 DEF Strict

(* A number below the byte's range is returned as it is. *)
LEMMA ByteWhole ==
    ASSUME StringAssumption, NEW n \in Nat, n < ByteMod
    PROVE  n % ByteMod = n
  BY DEF StringAssumption

(* Symbols in front, digits, and spaces behind. *)
LEMMA AddNumberExHonest ==
    ASSUME Typed, StringAssumption, NEW pads \in Nat, NEW c \in Nat, NEW spaces \in Nat,
           AddNumberEx(pads, c, spaces)
    PROVE  Honest
<1> DEFINE n == pads + c + spaces
           l == n % ByteMod
           done == IF pads > Room THEN 0
                   ELSE IF pads + c > Room THEN pads
                   ELSE IF n > Room THEN pads + c ELSE n
<1>1. n \in Nat /\ (n < ByteMod => l = n)
  BY ByteWhole
<1>2. CASE n >= Room
  <2>1. Undone(len + done, n)
    BY <1>2 DEF AddNumberEx
  <2>2. ended' /\ ~call'.ret /\ len' = len
    BY <2>1, EndsTrue
  <2> QED
    BY <2>2 DEF Honest, ZeroKept, AllOrNone
<1>3. CASE ~(n >= Room)
  <2>1. /\ len' = len + l
        /\ ended' = (l = n)
        /\ call' = [hi |-> len + n + 1, want |-> n, ret |-> (l # 0)]
    BY <1>3 DEF AddNumberEx
  <2> HIDE DEF n, l
  <2>2. call'.want = n /\ (call'.ret <=> l # 0) /\ (ended' <=> l = n)
    BY <2>1, Zenon
  <2> QED
    BY <1>1, <2>1, <2>2 DEF Honest, ZeroKept, AllOrNone
<1> QED
  BY <1>2, <1>3

(* A sign in front. *)
LEMMA AddSignedExHonest ==
    ASSUME Typed, StringAssumption, NEW c \in Nat, NEW spaces \in Nat, AddSignedEx(c, spaces)
    PROVE  Honest
<1> DEFINE n == 1 + c + spaces
<1>1. n \in Nat /\ len + n + 1 \in Nat
  BY DEF Typed
<1>2. \/ Refuse(n) \/ Undone(len + n + 1, n) \/ AddNumberEx(1, c, spaces)
  BY DEF AddSignedEx
<1> HIDE DEF n
<1> QED
  BY <1>1, <1>2, EndsHonest, AddNumberExHonest DEF Honest

(* Two numbers and a point. *)
LEMMA AddDoubleHonest ==
    ASSUME Typed, NEW c \in Nat, NEW d \in Nat, AddDouble(c, d)
    PROVE  ZeroKept /\ AllOrNone
<1>1. CASE AddNumber(0, c)
  BY <1>1, EndsHonest, len + 0 \in Nat, 0 + c \in Nat DEF AddNumber, Typed
<1>2. CASE c + 1 + d \in Nat /\ Append(c + 1 + d)
  BY <1>2, EndsHonest
<1>3. ASSUME NEW hi, call' = [hi |-> hi, want |-> c + 1 + d, ret |-> FALSE], UNCHANGED len
      PROVE  ZeroKept /\ AllOrNone
  <2>1. ~call'.ret
    BY <1>3, Zenon
  <2> QED
    BY <1>3, <2>1 DEF ZeroKept, AllOrNone
<1> QED
  BY <1>1, <1>2, <1>3 DEF AddDouble

(* The calls of Loose. *)
LEMMA LooseHonest ==
    ASSUME Typed, StringAssumption, Loose
    PROVE  Honest
<1>1. Digits \subseteq Nat /\ Bytes \subseteq Nat /\ Dwords \subseteq Nat
  BY DEF StringAssumption, Bytes, Dwords
<1>2. ASSUME NEW c \in Nat, AddSigned(c) PROVE Honest
  BY <1>2, EndsHonest, len + 2 \in Nat, c + 1 \in Nat DEF AddSigned, Typed, Honest
<1>3. ASSUME NEW pads \in Nat, NEW c \in Nat, AddNumber(pads, c) PROVE Honest
  BY <1>3, EndsHonest, len + pads \in Nat, pads + c \in Nat DEF AddNumber, Typed, Honest
<1>4. ASSUME NEW c \in Nat, NEW d \in Nat, AddDouble(c, d) PROVE Honest
  BY <1>4, AddDoubleHonest DEF Honest
<1>5. ASSUME NEW n \in Nat, AddHexFixed(n) PROVE Honest
  BY <1>5, EndsHonest DEF AddHexFixed, Honest
<1>6. ASSUME NEW n \in Nat, NEW w \in {2, 3}, AddDumpByte(n, w) PROVE Honest
  <2> DEFINE k == IF w = 3 /\ n > 0 THEN 3 * n - 1 ELSE w * n
  <2>1. k \in Nat
    OBVIOUS
  <2>2. Refuse(k) \/ Append(k)
    BY <1>6 DEF AddDumpByte
  <2> HIDE DEF k
  <2> QED
    BY <2>1, <2>2, EndsHonest DEF Honest
<1> QED
  BY <1>1, <1>2, <1>3, <1>4, <1>5, <1>6, AddNumberExHonest, AddSignedExHonest DEF Loose

(* The others keep the zero or fail. *)
LEMMA OthersKeepZero ==
    ASSUME Typed, Next, how' \notin {"strict", "loose"}
    PROVE  ZeroKept
<1>1. ASSUME NEW n, NEW want, \/ Becomes(n, want) \/ Append(n) \/ Refuse(want) \/ Stays(want)
                              \/ Emptied(want)
      PROVE  ZeroKept
  BY <1>1, EndsTrue DEF Append, ZeroKept
<1>2. ASSUME NEW n, NEW want, NEW zero, Midway(n, want, zero) PROVE ZeroKept
  BY <1>2, EndsTrue DEF ZeroKept
<1>3. ASSUME NEW n, AddAsToken(n) \/ AssignOrClear(n) \/ AddOrClear(n) PROVE ZeroKept
  BY <1>3, <1>1 DEF AddAsToken, AssignOrClear, AddOrClear
<1>4. ASSUME NEW n, AddWAsUTF8(n) PROVE ZeroKept
  BY <1>4, <1>1, <1>2 DEF AddWAsUTF8
<1>5. ASSUME NEW n, NEW part, AddIP(n, part) PROVE ZeroKept
  BY <1>5, <1>1, <1>2 DEF AddIP
<1>6. CASE Wild
  BY <1>6, <1>1 DEF Wild, SetChar, AddWraps, AddDumpByteWraps, AddDumpByte0x, AddRnd
<1> QED
  BY <1>3, <1>4, <1>5, <1>6 DEF Next

(* For any array and anything they are given, the calls of the text class  *)
(* say what they have done: a C string stays one unless the call fails,    *)
(* and a strict or a loose call adds all it was given or nothing.          *)
THEOREM ResultsAreTrue == Spec => ResultIsTrue
<1>1. IInv /\ [Next]_vars =>
         [call'.want < ByteMod =>
             /\ ended /\ ~ended' => ~call'.ret
             /\ how' \in {"strict", "loose"} /\ call'.want > 0 =>
                   len' = IF call'.ret THEN len + call'.want ELSE len]_vars
  <2> SUFFICES ASSUME IInv, Next, call'.want < ByteMod
               PROVE  /\ ended /\ ~ended' => ~call'.ret
                      /\ how' \in {"strict", "loose"} /\ call'.want > 0 =>
                            len' = IF call'.ret THEN len + call'.want ELSE len
    OBVIOUS
  <2>1. CASE how' \in {"strict", "loose"}
    <3>1. Strict \/ Loose
      BY <2>1 DEF Next
    <3>2. ZeroKept /\ AllOrNone
      BY <3>1, StringAssumption, StrictHonest, LooseHonest DEF IInv, Honest
    <3> QED
      BY <3>2 DEF ZeroKept, AllOrNone
  <2>2. CASE how' \notin {"strict", "loose"}
    BY <2>2, OthersKeepZero DEF IInv, ZeroKept
  <2> QED
    BY <2>1, <2>2
<1> QED
  BY <1>1, Invariance, PTL DEF Spec, ResultIsTrue

=============================================================================
