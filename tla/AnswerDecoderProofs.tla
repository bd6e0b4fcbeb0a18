------------------------ MODULE AnswerDecoderProofs ------------------------
(***************************************************************************)
(* For every message, whatever its bytes say, and for every table of rules *)
(* that meets the assumptions: the decoder stays inside the message, an    *)
(* integer is read inside its parameter and no null pointer is followed,   *)
(* but for the careless fields; and an object is what the list of the      *)
(* message's parameters says, down to every list inside it.                *)
(*                                                                         *)
(* Both invariants are about a stack of frames.  For the first, IInv, it   *)
(* is shown what the three ways to change a stack preserve; then every     *)
(* action has only to show that the frames it makes are good ones.  The    *)
(* second, MidwayAll, says for every function at work how far it is in the *)
(* list of its parameters, and that what it has made, with what the one it *)
(* waits for owes it, is what the first part of that list says; then every *)
(* action has to show that it moves the innermost function on by one.      *)
(***************************************************************************)
EXTENDS DecoderReference, SequenceTheorems, NaturalsInduction,
        WellFoundedInduction, FiniteSetTheorems, TLAPS

FrameFields == {"kind", "to", "pos", "end", "tab", "at", "val"}

IsFrame(f) == f = [x \in FrameFields |-> f[x]]

(* A table of function k that points to places before e. *)
TabOK(k, e, tab) ==
    \A t \in DOMAIN tab : /\ t \in 0 .. Schema[k].max - 1
                          /\ tab[t].pos \in Nat /\ tab[t].len \in Nat
                          /\ tab[t].pos + tab[t].len <= e

(* A frame whose walk, and whose table, are inside m. *)
FrameOK(m, f) ==
    /\ IsFrame(f)
    /\ f.kind \in Kinds
    /\ f.pos \in Nat /\ f.end \in Nat /\ f.at \in Nat
    /\ f.pos <= f.end /\ f.end <= Len(m)
    /\ TabOK(f.kind, f.end, f.tab)

IsSeq(s) == \E S : s \in Seq(S)

StackOK(m, s) ==
    /\ IsSeq(s)
    /\ \A i \in 1 .. Len(s) : FrameOK(m, s[i])
    /\ \A i \in 1 .. Len(s) - 1 : s[i + 1].end <= s[i].end

ReadOK == read.pos \in Nat /\ read.n \in Nat /\ read.len \in Nat

IInv ==
    /\ msg \in Seq(Byte)
    /\ StackOK(msg, stack)
    /\ ReadOK /\ ReadFits
    /\ NullOnlyCareless

-----------------------------------------------------------------------------
(* Stacks *)

(* The innermost frame is replaced by one with the same end. *)
LEMMA ReplaceTop ==
    ASSUME NEW m, NEW s, StackOK(m, s), s # <<>>,
           NEW f, FrameOK(m, f), f.end = s[Len(s)].end
    PROVE  /\ StackOK(m, [s EXCEPT ![Len(s)] = f])
           /\ Len([s EXCEPT ![Len(s)] = f]) = Len(s)
           /\ [s EXCEPT ![Len(s)] = f][Len(s)] = f
<1> DEFINE r == [s EXCEPT ![Len(s)] = f]
<1>1. PICK S : s \in Seq(S)
  BY DEF StackOK, IsSeq
<1>2. DOMAIN s = 1 .. Len(s)
  BY <1>1
<1>n. Len(s) \in Nat /\ Len(s) > 0
  BY <1>1
<1>3. s \in Seq(S \cup {f})
  BY <1>1, <1>2
<1>4. /\ r \in Seq(S \cup {f}) /\ Len(r) = Len(s)
      /\ \A i \in 1 .. Len(s) : r[i] = IF i = Len(s) THEN f ELSE s[i]
  <2>1. f \in S \cup {f} /\ Len(s) \in 1 .. Len(s)
    BY <1>n
  <2> QED
    BY <1>2, <1>3, <2>1, ExceptSeq
<1> HIDE DEF r
<1>l. Len(r) = Len(s)
  BY <1>4
<1>5. IsSeq(r)
  BY <1>4 DEF IsSeq
<1>6. \A i \in 1 .. Len(r) : FrameOK(m, r[i])
  BY <1>4 DEF StackOK
<1>7. \A i \in 1 .. Len(r) - 1 : r[i + 1].end <= r[i].end
  <2> SUFFICES ASSUME NEW i \in 1 .. Len(r) - 1
               PROVE  r[i + 1].end <= r[i].end
    OBVIOUS
  <2>1. i \in 1 .. Len(s) /\ i + 1 \in 1 .. Len(s) /\ i # Len(s)
    BY <1>n, <1>l
  <2>2. r[i] = s[i] /\ r[i + 1].end = s[i + 1].end
    BY <1>4, <2>1
  <2> QED
    BY <2>1, <2>2, <1>4 DEF StackOK
<1>8. StackOK(m, r) /\ Len(r) = Len(s) /\ r[Len(s)] = f
  <2>1. Len(s) \in 1 .. Len(s)
    BY <1>n
  <2> QED
    BY <1>4, <1>5, <1>6, <1>7, <2>1 DEF StackOK
<1> QED
  BY <1>8 DEF r

(* A frame that lies inside the innermost one is put on top. *)
LEMMA PushFrame ==
    ASSUME NEW m, NEW s, StackOK(m, s), s # <<>>,
           NEW g, FrameOK(m, g), g.end <= s[Len(s)].end
    PROVE  StackOK(m, Append(s, g))
<1> DEFINE r == Append(s, g)
<1>1. PICK S : s \in Seq(S)
  BY DEF StackOK, IsSeq
<1>2. DOMAIN s = 1 .. Len(s)
  BY <1>1
<1>n. Len(s) \in Nat /\ Len(s) > 0
  BY <1>1
<1>3. s \in Seq(S \cup {g}) /\ g \in S \cup {g}
  BY <1>1, <1>2
<1>4. /\ r \in Seq(S \cup {g}) /\ Len(r) = Len(s) + 1
      /\ \A i \in 1 .. Len(s) : r[i] = s[i]
      /\ r[Len(s) + 1] = g
  BY <1>3, AppendProperties
<1> HIDE DEF r
<1>l. Len(r) = Len(s) + 1
  BY <1>4
<1>5. IsSeq(r)
  BY <1>4 DEF IsSeq
<1>6. \A i \in 1 .. Len(r) : FrameOK(m, r[i])
  <2> SUFFICES ASSUME NEW i \in 1 .. Len(r) PROVE FrameOK(m, r[i])
    OBVIOUS
  <2>1. i \in 1 .. Len(s) \/ i = Len(s) + 1
    BY <1>n, <1>l
  <2> QED
    BY <1>4, <2>1 DEF StackOK
<1>7. \A i \in 1 .. Len(r) - 1 : r[i + 1].end <= r[i].end
  <2> SUFFICES ASSUME NEW i \in 1 .. Len(r) - 1
               PROVE  r[i + 1].end <= r[i].end
    OBVIOUS
  <2>1. i \in 1 .. Len(s)
    BY <1>n, <1>l
  <2>2. CASE i = Len(s)
    BY <1>4, <2>1, <2>2
  <2>3. CASE i # Len(s)
    <3>1. i \in 1 .. Len(s) - 1 /\ i + 1 \in 1 .. Len(s)
      BY <1>n, <2>1, <2>3
    <3> QED
      BY <1>4, <2>1, <3>1 DEF StackOK
  <2> QED
    BY <2>2, <2>3
<1>8. StackOK(m, r)
  BY <1>5, <1>6, <1>7 DEF StackOK
<1> QED
  BY <1>8 DEF r

(* The innermost frame is taken off. *)
LEMMA PopFrame ==
    ASSUME NEW m, NEW s, StackOK(m, s), Len(s) > 1
    PROVE  LET r == SubSeq(s, 1, Len(s) - 1)
           IN  StackOK(m, r) /\ Len(r) = Len(s) - 1 /\ r # <<>>
<1> DEFINE r == SubSeq(s, 1, Len(s) - 1)
<1>1. PICK S : s \in Seq(S)
  BY DEF StackOK, IsSeq
<1>2. Len(s) \in Nat /\ Len(s) - 1 \in 1 .. Len(s)
  BY <1>1
<1>3. /\ r \in Seq(S) /\ Len(r) = Len(s) - 1
      /\ \A i \in 1 .. Len(s) - 1 : r[i] = s[i]
  <2>1. \A i \in 1 .. Len(s) - 1 : s[i] \in S
    BY <1>1, <1>2
  <2> QED
    BY <1>1, <1>2, <2>1
<1> HIDE DEF r
<1>4. IsSeq(r) /\ r # <<>>
  BY <1>2, <1>3 DEF IsSeq
<1>5. \A i \in 1 .. Len(r) : FrameOK(m, r[i])
  <2> SUFFICES ASSUME NEW i \in 1 .. Len(r) PROVE FrameOK(m, r[i])
    OBVIOUS
  <2>1. i \in 1 .. Len(s) - 1 /\ i \in 1 .. Len(s)
    BY <1>2, <1>3
  <2> QED
    BY <1>3, <2>1 DEF StackOK
<1>6. \A i \in 1 .. Len(r) - 1 : r[i + 1].end <= r[i].end
  <2> SUFFICES ASSUME NEW i \in 1 .. Len(r) - 1
               PROVE  r[i + 1].end <= r[i].end
    OBVIOUS
  <2>1. i \in 1 .. Len(s) - 1 /\ i + 1 \in 1 .. Len(s) - 1
    BY <1>2, <1>3
  <2> QED
    BY <1>3, <2>1 DEF StackOK
<1>7. StackOK(m, r)
  BY <1>4, <1>5, <1>6 DEF StackOK
<1> QED
  BY <1>3, <1>4, <1>7 DEF r

-----------------------------------------------------------------------------
(* Frames *)

(* The walk may move on up to the end. *)
LEMMA FramePos ==
    ASSUME NEW m, NEW f, FrameOK(m, f), NEW p \in Nat, p <= f.end
    PROVE  LET g == [f EXCEPT !.pos = p]
           IN  FrameOK(m, g) /\ g.end = f.end
<1> DEFINE g == [f EXCEPT !.pos = p]
<1>1. IsFrame(f)
  BY DEF FrameOK
<1>2. /\ IsFrame(g) /\ g.kind = f.kind /\ g.pos = p /\ g.end = f.end
      /\ g.tab = f.tab /\ g.at = f.at
  BY <1>1 DEF IsFrame, FrameFields
<1> HIDE DEF g
<1>3. FrameOK(m, g) /\ g.end = f.end
  BY <1>2 DEF FrameOK
<1> QED
  BY <1>3 DEF g

(* The next field may be any. *)
LEMMA FrameAt ==
    ASSUME NEW m, NEW f, FrameOK(m, f), NEW n \in Nat
    PROVE  LET g == [f EXCEPT !.at = n]
           IN  FrameOK(m, g) /\ g.end = f.end
<1> DEFINE g == [f EXCEPT !.at = n]
<1>1. IsFrame(f)
  BY DEF FrameOK
<1>2. /\ IsFrame(g) /\ g.kind = f.kind /\ g.pos = f.pos /\ g.end = f.end
      /\ g.tab = f.tab /\ g.at = n
  BY <1>1 DEF IsFrame, FrameFields
<1> HIDE DEF g
<1>3. FrameOK(m, g) /\ g.end = f.end
  BY <1>2 DEF FrameOK
<1> QED
  BY <1>3 DEF g

(* So may the object. *)
LEMMA FrameVal ==
    ASSUME NEW m, NEW f, FrameOK(m, f), NEW v
    PROVE  LET g == [f EXCEPT !.val = v]
           IN  FrameOK(m, g) /\ g.end = f.end /\ g.at = f.at /\ g.pos = f.pos
<1> DEFINE g == [f EXCEPT !.val = v]
<1>1. IsFrame(f)
  BY DEF FrameOK
<1>2. /\ IsFrame(g) /\ g.kind = f.kind /\ g.pos = f.pos /\ g.end = f.end
      /\ g.tab = f.tab /\ g.at = f.at
  BY <1>1 DEF IsFrame, FrameFields
<1> HIDE DEF g
<1>3. FrameOK(m, g) /\ g.end = f.end /\ g.at = f.at /\ g.pos = f.pos
  BY <1>2 DEF FrameOK
<1> QED
  BY <1>3 DEF g

(* A table may get one more entry that lies before the end. *)
LEMMA TabMore ==
    ASSUME NEW k, NEW e, NEW tab, TabOK(k, e, tab),
           NEW q \in 0 .. Schema[k].max - 1,
           NEW p \in Nat, NEW l \in Nat, p + l <= e
    PROVE  TabOK(k, e, Noted(tab, q, p, l))
<1> DEFINE new == Noted(tab, q, p, l)
<1> SUFFICES ASSUME NEW t \in DOMAIN new
             PROVE  /\ t \in 0 .. Schema[k].max - 1
                    /\ new[t].pos \in Nat /\ new[t].len \in Nat
                    /\ new[t].pos + new[t].len <= e
  BY DEF TabOK
<1>1. CASE t = q
  <2>1. new[t] = [pos |-> p, len |-> l]
    BY <1>1 DEF Noted
  <2> QED
    BY <1>1, <2>1
<1>2. CASE t # q
  <2>1. t \in DOMAIN tab /\ new[t] = tab[t]
    BY <1>2 DEF Noted
  <2> QED
    BY <2>1 DEF TabOK
<1> QED
  BY <1>1, <1>2

(* A new frame is good if its bounds are. *)
LEMMA FrameNew ==
    ASSUME NEW m, NEW k \in Kinds, NEW to, NEW p \in Nat, NEW e \in Nat,
           p <= e, e <= Len(m)
    PROVE  FrameOK(m, Frame(k, to, p, e)) /\ Frame(k, to, p, e).end = e
  BY DEF Frame, FrameOK, IsFrame, FrameFields, TabOK

-----------------------------------------------------------------------------
(* The innermost frame, and a parameter that fits *)

(* The innermost frame of a good stack is good. *)
LEMMA TopOK ==
    ASSUME IInv, stack # <<>>
    PROVE  Len(stack) \in Nat /\ Len(stack) > 0 /\ FrameOK(msg, Top)
<1>1. PICK S : stack \in Seq(S)
  BY DEF IInv, StackOK, IsSeq
<1>2. Len(stack) \in Nat /\ Len(stack) > 0
  BY <1>1
<1>3. Len(stack) \in 1 .. Len(stack)
  BY <1>2
<1> QED
  BY <1>2, <1>3 DEF IInv, StackOK, Top

(* A parameter that fits ends before its frame does. *)
LEMMA FitsFacts ==
    ASSUME IInv, stack # <<>>, Fits
    PROVE  /\ pn \in Nat /\ pl \in Nat
           /\ Top.pos \in Nat /\ Top.end \in Nat
           /\ Top.pos + 4 + pl <= Top.end /\ Top.end <= Len(msg)
<1>1. /\ Top.pos \in Nat /\ Top.end \in Nat /\ Top.end <= Len(msg)
      /\ Top.end - Top.pos >= 4
  BY TopOK DEF FrameOK, Fits
<1>2. msg \in Seq(Byte) /\ Len(msg) \in Nat
  BY DEF IInv
<1>3. \A i \in Nat : i + 2 <= Len(msg) => WordAt(i) \in Nat
  <2> SUFFICES ASSUME NEW i \in Nat, i + 2 <= Len(msg) PROVE WordAt(i) \in Nat
    OBVIOUS
  <2>1. i + 1 \in 1 .. Len(msg) /\ i + 2 \in 1 .. Len(msg)
    BY <1>2
  <2>2. msg[i + 1] \in Byte /\ msg[i + 2] \in Byte
    BY <1>2, <2>1
  <2>3. msg[i + 1] \in Nat /\ msg[i + 2] \in Nat /\ Base \in Nat
    BY <2>2, DecoderAssumption DEF Byte
  <2> QED
    BY <2>3 DEF WordAt
<1>4. pn \in Nat /\ pl \in Nat
  <2>1. Top.pos + 2 \in Nat /\ Top.pos + 2 <= Len(msg) /\ (Top.pos + 2) + 2 <= Len(msg)
    BY <1>1, <1>2
  <2> QED
    BY <1>1, <1>3, <2>1 DEF pn, pl
<1> QED
  BY <1>1, <1>4 DEF Fits

(* What the table says of a tag lies inside the frame. *)
LEMMA EntryInside ==
    ASSUME IInv, stack # <<>>, NEW t
    PROVE  /\ PosOf(t) \in Nat /\ LenOf(t) \in Nat
           /\ PosOf(t) + LenOf(t) <= Top.end
           /\ Top.end \in Nat /\ Top.end <= Len(msg)
<1>1. FrameOK(msg, Top)
  BY TopOK
<1>2. CASE Given(t)
  BY <1>1, <1>2 DEF FrameOK, TabOK, Given, PosOf, LenOf
<1>3. CASE ~Given(t)
  BY <1>1, <1>3 DEF FrameOK, PosOf, LenOf
<1> QED
  BY <1>2, <1>3

(* A field that is read and not careless is wanted only if its parameter   *)
(* is as long as what is read.                                             *)
LEMMA FieldCovered ==
    ASSUME IInv, Taking, Wanted, IsRead(FieldNow), FieldNow.to \notin Careless
    PROVE  LenOf(FieldNow.tag) >= FieldNow.n
<1>1. Top.kind \in Kinds /\ FieldNow \in Fields(Top.kind)
  BY TopOK DEF Taking, FrameOK, FieldNow, Fields, Kind
<1>2. PICK j \in DOMAIN FieldNow.when : Covers(FieldNow, FieldNow.when[j])
  BY <1>1, SchemaAssumption
<1>3. Holds(FieldNow.when[j])
  BY DEF Wanted
<1> QED
  BY <1>2, <1>3 DEF Covers, Holds

-----------------------------------------------------------------------------
(* What the actions do to the stack *)

(* A step that replaces the innermost frame. *)
LEMMA SetTopOK ==
    ASSUME IInv, stack # <<>>, NEW f, FrameOK(msg, f), f.end = Top.end, SetTop(f)
    PROVE  StackOK(msg, stack')
  BY ReplaceTop DEF IInv, SetTop, Top

(* A step that moves the innermost frame on and calls a function on a part of it. *)
LEMMA EnterOK ==
    ASSUME IInv, stack # <<>>, NEW f, FrameOK(msg, f), f.end = Top.end,
           NEW g, FrameOK(msg, g), g.end <= Top.end,
           stack' = Append([stack EXCEPT ![Len(stack)] = f], g)
    PROVE  StackOK(msg, stack')
<1> DEFINE s == [stack EXCEPT ![Len(stack)] = f]
<1>1. StackOK(msg, s) /\ Len(s) = Len(stack) /\ s[Len(stack)] = f
  BY ReplaceTop DEF IInv, Top
<1>2. Len(stack) > 0 /\ Len(stack) \in Nat
  BY TopOK
<1>3. stack' = Append(s, g)
  OBVIOUS
<1> HIDE DEF s
<1>4. s # <<>> /\ g.end <= s[Len(s)].end
  BY <1>1, <1>2
<1> QED
  BY <1>1, <1>3, <1>4, PushFrame

(* The stack of a handler that is done. *)
LEMMA EmptyOK ==
    ASSUME NEW m PROVE StackOK(m, <<>>)
<1>1. <<>> \in Seq({})
  OBVIOUS
<1>2. IsSeq(<<>>)
  BY <1>1 DEF IsSeq
<1> QED
  BY <1>2 DEF StackOK

(* A step that returns to the caller, or ends the handler. *)
LEMMA ReturnOK ==
    ASSUME IInv, stack # <<>>, Return
    PROVE  StackOK(msg, stack') /\ NullOnlyCareless'
<1>1. CASE Len(stack) = 1
  <2>1. stack' = <<>> /\ out'[1] = "done"
    BY <1>1 DEF Return
  <2> QED
    BY <2>1, EmptyOK DEF NullOnlyCareless
<1>2. CASE Len(stack) # 1
  <2>1. Len(stack) \in Nat /\ Len(stack) > 1
    <3>1. Len(stack) \in Nat /\ Len(stack) > 0
      BY TopOK
    <3>2. \A n \in Nat : n > 0 /\ n # 1 => n > 1
      OBVIOUS
    <3> QED
      BY <1>2, <3>1, <3>2
  <2> DEFINE s == SubSeq(stack, 1, Len(stack) - 1)
             v == Append(s[Len(stack) - 1].val, [to |-> Top.to, v |-> Top.val])
             f == [s[Len(stack) - 1] EXCEPT !.val = v]
  <2>2. StackOK(msg, s) /\ Len(s) = Len(stack) - 1 /\ s # <<>>
    BY <2>1, PopFrame DEF IInv
  <2>3. stack' = [s EXCEPT ![Len(stack) - 1] = f] /\ out' = out
    BY <1>2 DEF Return
  <2> HIDE DEF s
  <2>4. Len(s) \in 1 .. Len(s)
    BY <2>1, <2>2
  <2>5. FrameOK(msg, s[Len(s)])
    BY <2>2, <2>4 DEF StackOK
  <2>6. FrameOK(msg, f) /\ f.end = s[Len(s)].end
    <3>1. f = [s[Len(s)] EXCEPT !.val = v]
      BY <2>2
    <3> HIDE DEF v, f
    <3> QED
      BY <2>5, <3>1, FrameVal
  <2>7. stack' = [s EXCEPT ![Len(s)] = f]
    BY <2>2, <2>3
  <2> HIDE DEF f
  <2>8. StackOK(msg, stack')
    BY <2>2, <2>6, <2>7, ReplaceTop
  <2> QED
    BY <2>3, <2>8 DEF IInv, NullOnlyCareless
<1> QED
  BY <1>1, <1>2

-----------------------------------------------------------------------------
(* The actions *)

(* A message that has just arrived. *)
LEMMA InitOK == Init => IInv
<1> SUFFICES ASSUME Init PROVE IInv
  OBVIOUS
<1>1. PICK k \in Roots : /\ msg \in Messages[k]
                         /\ stack = << Frame(k, "answer", 0, Len(msg)) >>
  BY DEF Init
<1>2. msg \in Seq(Byte) /\ k \in Kinds
  BY <1>1, DecoderAssumption
<1>3. FrameOK(msg, Frame(k, "answer", 0, Len(msg)))
  <2>1. Len(msg) \in Nat
    BY <1>2
  <2> QED
    BY <1>2, <2>1, FrameNew
<1>4. StackOK(msg, stack)
  <2> DEFINE f == Frame(k, "answer", 0, Len(msg))
  <2> HIDE DEF f
  <2>1. stack = << f >>
    BY <1>1 DEF f
  <2>2. stack \in Seq({f}) /\ Len(stack) = 1 /\ stack[1] = f
    BY <2>1
  <2>3. IsSeq(stack)
    BY <2>2 DEF IsSeq
  <2>4. \A i \in 1 .. Len(stack) : FrameOK(msg, stack[i])
    BY <1>3, <2>2 DEF f
  <2> QED
    BY <2>2, <2>3, <2>4 DEF StackOK
<1>5. ReadOK /\ ReadFits /\ NullOnlyCareless
  <2>1. read = NoRead /\ out = << "pending" >>
    BY DEF Init
  <2>2. read.pos = 0 /\ read.n = 0 /\ read.len = 0
    BY <2>1 DEF NoRead
  <2>3. out[1] = "pending"
    BY <2>1
  <2> QED
    BY <2>2, <2>3 DEF ReadOK, ReadFits, NullOnlyCareless
<1> QED
  BY <1>2, <1>4, <1>5 DEF IInv

(* A step that changes the stack only, and leaves a good one. *)
LEMMA OnlyStack ==
    ASSUME IInv, UNCHANGED <<msg, out, read>>, StackOK(msg, stack')
    PROVE  IInv'
  BY DEF IInv, ReadOK, ReadFits, NullOnlyCareless

(* ParseItem keeps the invariant. *)
LEMMA ParseItemOK == ASSUME IInv, ParseItem PROVE IInv'
<1> DEFINE new == Noted(Top.tab, pn, Top.pos + 4, pl)
           tab == IF pn < Kind.max THEN new ELSE Top.tab
           f == [Top EXCEPT !.pos = Top.pos + 4 + pl, !.tab = tab]
<1>1. stack # <<>> /\ Fits /\ UNCHANGED <<msg, out, read>>
  BY DEF ParseItem, Walking
<1>2. SetTop(f)
  BY DEF ParseItem
<1>3. FrameOK(msg, Top)
  BY <1>1, TopOK
<1>4. /\ pn \in Nat /\ pl \in Nat /\ Top.pos \in Nat /\ Top.end \in Nat
      /\ Top.pos + 4 + pl <= Top.end
  BY <1>1, FitsFacts
<1>5. TabOK(Top.kind, Top.end, tab)
  <2>1. CASE pn < Kind.max
    <3>1. pn \in 0 .. Schema[Top.kind].max - 1
      <4>1. Schema[Top.kind].max \in Nat
        BY <1>3, DecoderAssumption DEF FrameOK
      <4> QED
        BY <1>4, <2>1, <4>1 DEF Kind
    <3>2. Top.pos + 4 \in Nat /\ (Top.pos + 4) + pl <= Top.end
      BY <1>4
    <3>3. TabOK(Top.kind, Top.end, Top.tab)
      BY <1>3 DEF FrameOK
    <3>4. TabOK(Top.kind, Top.end, new)
      BY <1>4, <3>1, <3>2, <3>3, TabMore
    <3> QED
      BY <2>1, <3>4
  <2>2. CASE ~(pn < Kind.max)
    BY <1>3, <2>2 DEF FrameOK
  <2> QED
    BY <2>1, <2>2
<1> HIDE DEF tab
<1>6. /\ IsFrame(f) /\ f.kind = Top.kind /\ f.pos = Top.pos + 4 + pl /\ f.end = Top.end
      /\ f.tab = tab /\ f.at = Top.at
  <2>1. IsFrame(Top)
    BY <1>3 DEF FrameOK
  <2> QED
    BY <2>1 DEF IsFrame, FrameFields
<1> HIDE DEF f
<1>7. FrameOK(msg, f)
  BY <1>3, <1>4, <1>5, <1>6 DEF FrameOK
<1>8. StackOK(msg, stack')
  BY <1>1, <1>2, <1>6, <1>7, SetTopOK
<1> QED
  BY <1>1, <1>8, OnlyStack

(* ParseEnd keeps the invariant. *)
LEMMA ParseEndOK == ASSUME IInv, ParseEnd PROVE IInv'
<1>1. stack # <<>> /\ UNCHANGED <<msg, out, read>> /\ SetTop([Top EXCEPT !.at = 1])
  BY DEF ParseEnd, Walking
<1>2. FrameOK(msg, [Top EXCEPT !.at = 1]) /\ [Top EXCEPT !.at = 1].end = Top.end
  BY <1>1, TopOK, FrameAt
<1>3. StackOK(msg, stack')
  BY <1>1, <1>2, SetTopOK
<1> QED
  BY <1>1, <1>3, OnlyStack

(* Moving on beyond a parameter that fits. *)
LEMMA BeyondOK ==
    ASSUME IInv, stack # <<>>, Fits, NEW f, FrameOK(msg, f),
           f.pos = Top.pos, f.end = Top.end
    PROVE  FrameOK(msg, Beyond(f)) /\ Beyond(f).end = Top.end
<1>1. f.pos + 4 + pl \in Nat /\ f.pos + 4 + pl <= f.end
  BY FitsFacts
<1>2. Beyond(f) = [f EXCEPT !.pos = f.pos + 4 + pl]
  BY DEF Beyond
<1> QED
  BY <1>1, <1>2, FramePos

(* SkipItem keeps the invariant. *)
LEMMA SkipItemOK == ASSUME IInv, SkipItem PROVE IInv'
<1>1. stack # <<>> /\ Fits /\ UNCHANGED <<msg, out, read>> /\ SetTop(Beyond(Top))
  BY DEF SkipItem, Walking
<1>2. FrameOK(msg, Beyond(Top)) /\ Beyond(Top).end = Top.end
  BY <1>1, TopOK, BeyondOK
<1>3. StackOK(msg, stack')
  BY <1>1, <1>2, SetTopOK
<1> QED
  BY <1>1, <1>3, OnlyStack

(* What is known of the item that matches. *)
LEMMA ItemFacts ==
    ASSUME IInv, stack # <<>>, Matching # {}
    PROVE  Top.kind \in Kinds /\ Item \in Items(Top.kind) /\ pl \in Item.lens
<1>1. Top.kind \in Kinds
  BY TopOK DEF FrameOK
<1>2. PICK i \in Matching : Item = Kind.items[i]
  BY DEF Item
<1> QED
  BY <1>1, <1>2 DEF Matching, Items, Kind

(* A read of no more bytes than there are, or one of a careless field. *)
LEMMA ReadsOK ==
    ASSUME ReadOK, ReadFits, NEW f, f.n \in Nat, NEW p \in Nat, NEW l \in Nat,
           Reads(f, p, l), IsRead(f) => f.to \in Careless \/ f.n <= l
    PROVE  ReadOK' /\ ReadFits'
<1>1. CASE Width(f) > 0
  <2>1. IsRead(f) /\ Width(f) = f.n
    BY <1>1 DEF Width
  <2>2. read' = [to |-> f.to, pos |-> p, n |-> f.n, len |-> l]
    BY <1>1, <2>1 DEF Reads
  <2> QED
    BY <2>1, <2>2 DEF ReadOK, ReadFits
<1>2. CASE ~(Width(f) > 0)
  BY <1>2 DEF Reads, ReadOK, ReadFits
<1> QED
  BY <1>1, <1>2

(* A value kept changes the object and nothing else. *)
LEMMA KeepOK ==
    ASSUME IInv, stack # <<>>, NEW r, NEW p, NEW l
    PROVE  /\ FrameOK(msg, Keep(r, p, l)) /\ Keep(r, p, l).end = Top.end
           /\ Keep(r, p, l).pos = Top.pos /\ Keep(r, p, l).at = Top.at
<1> DEFINE v == Append(Top.val, [to |-> r.to, v |-> Value(r, p, l)])
<1>1. Keep(r, p, l) = [Top EXCEPT !.val = v]
  BY DEF Keep
<1> HIDE DEF v
<1>2. FrameOK(msg, Top)
  BY TopOK
<1> DEFINE g == [Top EXCEPT !.val = v]
<1>3. FrameOK(msg, g) /\ g.end = Top.end /\ g.at = Top.at /\ g.pos = Top.pos
  BY <1>2, FrameVal
<1> QED
  BY <1>1, <1>3

(* KeepItem keeps the invariant. *)
LEMMA KeepItemOK == ASSUME IInv, KeepItem PROVE IInv'
<1> DEFINE p == Top.pos + 4
           f == Keep(Item, p, pl)
<1>1. /\ stack # <<>> /\ Fits /\ Matching # {} /\ UNCHANGED <<msg, out>>
      /\ SetTop(Beyond(f)) /\ Reads(Item, p, pl)
  BY DEF KeepItem, Walking
<1>2. p \in Nat /\ pl \in Nat
  BY <1>1, FitsFacts
<1>3. Item.n \in Nat /\ (IsRead(Item) => Item.n <= pl)
  <2>1. Top.kind \in Kinds /\ Item \in Items(Top.kind) /\ pl \in Item.lens
    BY <1>1, ItemFacts
  <2>2. Item.n \in Nat
    BY <2>1, DecoderAssumption
  <2>3. IsRead(Item) => pl >= Item.n
    BY <2>1, SchemaAssumption
  <2> QED
    BY <1>2, <2>2, <2>3
<1>4. ReadOK' /\ ReadFits'
  <2> HIDE DEF p
  <2>1. ReadOK /\ ReadFits
    BY DEF IInv
  <2> QED
    BY <1>1, <1>2, <1>3, <2>1, ReadsOK
<1>5. FrameOK(msg, Beyond(f)) /\ Beyond(f).end = Top.end
  <2>1. FrameOK(msg, f) /\ f.end = Top.end /\ f.pos = Top.pos
    BY <1>1, KeepOK
  <2> HIDE DEF f
  <2> QED
    BY <1>1, <2>1, BeyondOK
<1> HIDE DEF f
<1>6. StackOK(msg, stack')
  BY <1>1, <1>5, SetTopOK
<1> QED
  BY <1>1, <1>4, <1>6 DEF IInv, NullOnlyCareless

(* EnterItem keeps the invariant. *)
LEMMA EnterItemOK == ASSUME IInv, EnterItem PROVE IInv'
<1> DEFINE g == Frame(Item.kind, Item.to, Top.pos + 4, Top.pos + 4 + pl)
<1>1. /\ stack # <<>> /\ Fits /\ Matching # {} /\ Item.how = "into"
      /\ UNCHANGED <<msg, out, read>>
      /\ stack' = Append([stack EXCEPT ![Len(stack)] = Beyond(Top)], g)
  BY DEF EnterItem, Walking
<1>2. FrameOK(msg, Beyond(Top)) /\ Beyond(Top).end = Top.end
  BY <1>1, TopOK, BeyondOK
<1>3. FrameOK(msg, g) /\ g.end <= Top.end
  <2>1. Item.kind \in Kinds
    BY <1>1, ItemFacts, DecoderAssumption
  <2>2. /\ Top.pos + 4 \in Nat /\ Top.pos + 4 + pl \in Nat
        /\ Top.pos + 4 <= Top.pos + 4 + pl
        /\ Top.pos + 4 + pl <= Top.end /\ Top.pos + 4 + pl <= Len(msg)
    <3>1. Len(msg) \in Nat
      BY DEF IInv
    <3> QED
      BY <1>1, <3>1, FitsFacts
  <2>3. FrameOK(msg, g) /\ g.end = Top.pos + 4 + pl
    BY <2>1, <2>2, FrameNew
  <2> QED
    BY <2>2, <2>3
<1> HIDE DEF g
<1>4. StackOK(msg, stack')
  BY <1>1, <1>2, <1>3, EnterOK
<1> QED
  BY <1>1, <1>4, OnlyStack

(* ListEnd keeps the invariant. *)
LEMMA ListEndOK == ASSUME IInv, ListEnd PROVE IInv'
<1>1. stack # <<>> /\ Return /\ UNCHANGED <<msg, read>>
  BY DEF ListEnd, Walking
<1>2. StackOK(msg, stack') /\ NullOnlyCareless'
  BY <1>1, ReturnOK
<1> QED
  BY <1>1, <1>2 DEF IInv, ReadOK, ReadFits

(* FieldsEnd keeps the invariant. *)
LEMMA FieldsEndOK == ASSUME IInv, FieldsEnd PROVE IInv'
<1>1. stack # <<>> /\ Return /\ UNCHANGED <<msg, read>>
  BY DEF FieldsEnd
<1>2. StackOK(msg, stack') /\ NullOnlyCareless'
  BY <1>1, ReturnOK
<1> QED
  BY <1>1, <1>2 DEF IInv, ReadOK, ReadFits

(* Moving on to the next field keeps a frame good. *)
LEMMA OneOnOK ==
    ASSUME NEW f, FrameOK(msg, f)
    PROVE  FrameOK(msg, OneOn(f)) /\ OneOn(f).end = f.end
<1>1. f.at + 1 \in Nat
  BY DEF FrameOK
<1>2. OneOn(f) = [f EXCEPT !.at = f.at + 1]
  BY DEF OneOn
<1> QED
  BY <1>1, <1>2, FrameAt

(* SkipField keeps the invariant. *)
LEMMA SkipFieldOK == ASSUME IInv, SkipField PROVE IInv'
<1>1. stack # <<>> /\ UNCHANGED <<msg, out, read>> /\ SetTop(OneOn(Top))
  BY DEF SkipField, Taking
<1>2. FrameOK(msg, OneOn(Top)) /\ OneOn(Top).end = Top.end
  BY <1>1, TopOK, OneOnOK
<1>3. StackOK(msg, stack')
  BY <1>1, <1>2, SetTopOK
<1> QED
  BY <1>1, <1>3, OnlyStack

(* The rule of a field is one of its function. *)
LEMMA FieldFacts ==
    ASSUME IInv, Taking
    PROVE  Top.kind \in Kinds /\ FieldNow \in Fields(Top.kind) /\ FieldNow.n \in Nat
<1>1. Top.kind \in Kinds /\ FieldNow \in Fields(Top.kind)
  BY TopOK DEF Taking, FrameOK, FieldNow, Fields, Kind
<1> QED
  BY <1>1, DecoderAssumption

(* TakeField keeps the invariant. *)
LEMMA TakeFieldOK == ASSUME IInv, TakeField PROVE IInv'
<1> DEFINE p == PosOf(FieldNow.tag)
           l == LenOf(FieldNow.tag)
           f == Keep(FieldNow, p, l)
<1>1. /\ stack # <<>> /\ Taking /\ Wanted /\ UNCHANGED <<msg, out>>
      /\ SetTop(OneOn(f)) /\ Reads(FieldNow, p, l)
  BY DEF TakeField, Taking
<1>2. p \in Nat /\ l \in Nat
  BY <1>1, EntryInside
<1>3. FieldNow.n \in Nat
  BY <1>1, FieldFacts
<1>4. IsRead(FieldNow) => FieldNow.to \in Careless \/ FieldNow.n <= l
  <2> SUFFICES ASSUME IsRead(FieldNow), FieldNow.to \notin Careless
               PROVE  FieldNow.n <= l
    OBVIOUS
  <2>1. l >= FieldNow.n
    BY <1>1, FieldCovered
  <2> HIDE DEF l
  <2> QED
    BY <1>2, <1>3, <2>1
<1>5. ReadOK' /\ ReadFits'
  <2> HIDE DEF p, l
  <2>1. ReadOK /\ ReadFits
    BY DEF IInv
  <2> QED
    BY <1>1, <1>2, <1>3, <1>4, <2>1, ReadsOK
<1>6. FrameOK(msg, OneOn(f)) /\ OneOn(f).end = Top.end
  <2>1. FrameOK(msg, f) /\ f.end = Top.end
    BY <1>1, KeepOK
  <2> HIDE DEF f
  <2> QED
    BY <2>1, OneOnOK
<1> HIDE DEF f
<1>7. StackOK(msg, stack')
  BY <1>1, <1>6, SetTopOK
<1> QED
  BY <1>1, <1>5, <1>7 DEF IInv, NullOnlyCareless

(* A null pointer has length 0, which no condition of a read allows. *)
LEMMA ReadNullOK == ASSUME IInv, ReadNull PROVE IInv'
<1>1. /\ Taking /\ Wanted /\ Width(FieldNow) > 0 /\ ~Given(FieldNow.tag)
      /\ UNCHANGED <<msg, read>> /\ stack' = <<>> /\ out' = << "crashed", FieldNow.to >>
  BY DEF ReadNull
<1>2. IsRead(FieldNow) /\ FieldNow.n > 0
  BY <1>1 DEF Width
<1>3. LenOf(FieldNow.tag) = 0
  BY <1>1 DEF LenOf
<1>4. FieldNow.to \in Careless
  <2>1. FieldNow.n \in Nat
    BY <1>1, FieldFacts
  <2>2. ~(LenOf(FieldNow.tag) >= FieldNow.n)
    BY <1>2, <1>3, <2>1
  <2> QED
    BY <1>1, <1>2, <2>2, FieldCovered
<1>5. NullOnlyCareless'
  <2>1. out'[2] = FieldNow.to
    BY <1>1
  <2> QED
    BY <1>4, <2>1 DEF NullOnlyCareless
<1>6. StackOK(msg, stack')
  BY <1>1, EmptyOK
<1> QED
  BY <1>1, <1>5, <1>6 DEF IInv, ReadOK, ReadFits

(* EnterField keeps the invariant. *)
LEMMA EnterFieldOK == ASSUME IInv, EnterField PROVE IInv'
<1> DEFINE p == PosOf(FieldNow.tag)
           l == LenOf(FieldNow.tag)
           g == Frame(FieldNow.kind, FieldNow.to, p, p + l)
<1>1. /\ stack # <<>> /\ Taking /\ FieldNow.how = "into"
      /\ UNCHANGED <<msg, out, read>>
      /\ stack' = Append([stack EXCEPT ![Len(stack)] = OneOn(Top)], g)
  BY DEF EnterField, Taking
<1>2. FrameOK(msg, OneOn(Top)) /\ OneOn(Top).end = Top.end
  BY <1>1, TopOK, OneOnOK
<1>3. FrameOK(msg, g) /\ g.end <= Top.end
  <2>1. FieldNow.kind \in Kinds
    BY <1>1, FieldFacts, DecoderAssumption
  <2>2. p \in Nat /\ l \in Nat /\ p + l <= Top.end /\ Top.end \in Nat /\ Top.end <= Len(msg)
    BY <1>1, EntryInside
  <2> HIDE DEF p, l
  <2>3. p + l \in Nat /\ p <= p + l /\ p + l <= Len(msg)
    <3>1. Len(msg) \in Nat
      BY DEF IInv
    <3> QED
      BY <2>2, <3>1
  <2>4. FrameOK(msg, g) /\ g.end = p + l
    BY <2>1, <2>2, <2>3, FrameNew
  <2> QED
    BY <2>2, <2>4
<1> HIDE DEF g
<1>4. StackOK(msg, stack')
  BY <1>1, <1>2, <1>3, EnterOK
<1> QED
  BY <1>1, <1>4, OnlyStack

-----------------------------------------------------------------------------
(* The theorems *)

(* The invariant holds of every message: Init establishes it, and every    *)
(* action of a handler of BinStream keeps it.                              *)
THEOREM Invariance == Spec => []IInv
<1>1. Init => IInv
  BY InitOK
<1>2. IInv /\ [Next]_vars => IInv'
  <2> SUFFICES ASSUME IInv, [Next]_vars PROVE IInv'
    OBVIOUS
  <2>1. CASE ParseItem
    BY <2>1, ParseItemOK
  <2>2. CASE ParseEnd
    BY <2>2, ParseEndOK
  <2>3. CASE SkipItem
    BY <2>3, SkipItemOK
  <2>4. CASE KeepItem
    BY <2>4, KeepItemOK
  <2>5. CASE EnterItem
    BY <2>5, EnterItemOK
  <2>6. CASE ListEnd
    BY <2>6, ListEndOK
  <2>7. CASE SkipField
    BY <2>7, SkipFieldOK
  <2>8. CASE TakeField
    BY <2>8, TakeFieldOK
  <2>9. CASE ReadNull
    BY <2>9, ReadNullOK
  <2>10. CASE EnterField
    BY <2>10, EnterFieldOK
  <2>11. CASE FieldsEnd
    BY <2>11, FieldsEndOK
  <2>12. CASE UNCHANGED vars
    BY <2>12 DEF vars, IInv, ReadOK, ReadFits, NullOnlyCareless
  <2> QED
    BY <2>1, <2>2, <2>3, <2>4, <2>5, <2>6, <2>7, <2>8, <2>9, <2>10, <2>11, <2>12 DEF Next
<1> QED
  BY <1>1, <1>2, PTL DEF Spec

(* The frames of a good stack, for the theorems below. *)
LEMMA DomainOfStack ==
    ASSUME IInv
    PROVE  DOMAIN stack = 1 .. Len(stack) /\ \A i \in DOMAIN stack : FrameOK(msg, stack[i])
<1>1. PICK S : stack \in Seq(S)
  BY DEF IInv, StackOK, IsSeq
<1>2. DOMAIN stack = 1 .. Len(stack)
  BY <1>1
<1> QED
  BY <1>2 DEF IInv, StackOK

(* The tables of Parse have no entry beyond their array, for any message. *)
THEOREM TypeCorrect == Spec => []TypeOK
<1>1. IInv => TypeOK
  <2> SUFFICES ASSUME IInv PROVE TypeOK
    OBVIOUS
  <2>1. \A i \in DOMAIN stack :
          LET f == stack[i]
          IN  /\ f.kind \in Kinds
              /\ f.pos \in Nat /\ f.end \in Nat /\ f.at \in Nat
              /\ DOMAIN f.tab \subseteq 0 .. Schema[f.kind].max - 1
              /\ \A t \in DOMAIN f.tab : f.tab[t].pos \in Nat /\ f.tab[t].len \in Nat
    BY DomainOfStack DEF FrameOK, TabOK
  <2> QED
    BY <2>1 DEF IInv, TypeOK, ReadOK
<1> QED
  BY <1>1, Invariance, PTL

(* Whatever lengths a message states, neither Parse nor a loop over a list *)
(* leaves the bytes it was given, and no pointer of a table does.          *)
THEOREM StaysInside == Spec => []Inside
<1>1. IInv => Inside
  <2> SUFFICES ASSUME IInv PROVE Inside
    OBVIOUS
  <2>1. \A i \in DOMAIN stack :
          /\ stack[i].pos <= stack[i].end /\ stack[i].end <= Len(msg)
          /\ \A t \in DOMAIN stack[i].tab :
                 stack[i].tab[t].pos + stack[i].tab[t].len <= stack[i].end
    BY DomainOfStack DEF FrameOK, TabOK
  <2> QED
    BY <2>1 DEF IInv, StackOK, Inside
<1> QED
  BY <1>1, Invariance, PTL

(* Whatever the message, no integer is read beyond its parameter, or       *)
(* through a null pointer, but for the careless fields.                    *)
THEOREM ReadsStayInside == Spec => []ReadsInside
<1>1. IInv => ReadsInside
  BY DEF IInv, ReadsInside
<1> QED
  BY <1>1, Invariance, PTL

-----------------------------------------------------------------------------
(* Lists of parameters                                                     *)

(* A set of numbers that is not empty has a least one, from which follows  *)
(* what is said below of sequences of any length.                          *)
LEMMA LeastOf ==
    ASSUME NEW T, T \subseteq Nat, T # {}
    PROVE  \E n \in T : \A m \in T : n <= m
<1>1. IsWellFoundedOn(OpToRel(<, Nat), Nat)
  BY NatLessThanWellFounded
<1>2. PICK n \in T : \A m \in T : ~(<<m, n>> \in OpToRel(<, Nat))
  BY <1>1, WFMin
<1>3. \A m \in T : ~(m < n)
  BY <1>2 DEF OpToRel
<1> QED
  BY <1>3

(* The walk always moves on, and never beyond the end. *)
LEMMA NextIsFurther ==
    ASSUME NEW s \in Seq(Nat), NEW k \in 0 .. Len(s), P!ItemFits(s, k)
    PROVE  P!NextAfter(s, k) \in k + 1 .. Len(s)
<1>1. Len(s) \in Nat /\ k + 4 <= Len(s) /\ Base \in Nat
  BY DecoderAssumption DEF P!ItemFits
<1>2. s[k + 3] \in Nat /\ s[k + 4] \in Nat
  BY <1>1
<1>3. Base * s[k + 4] \in Nat
  BY <1>1, <1>2
<1>4. P!WordAt(s, k + 3) \in Nat
  BY <1>2, <1>3 DEF P!WordAt
<1> QED
  BY <1>1, <1>4 DEF P!ItemFits, P!NextAfter

(* The body of the walk, and a walk of what follows the first n bytes. *)
Walked(s, g, k) ==
    IF P!ItemFits(s, k)
    THEN << P!ItemAt(s, k) >> \o g[P!NextAfter(s, k)]
    ELSE <<>>

IsWalk(s, n, g) == g = [k \in n .. Len(s) |-> Walked(s, g, k)]

(* A walk exists: from a walk of the rest one makes a longer one. *)
LEMMA WalkExists ==
    ASSUME NEW s \in Seq(Nat)
    PROVE  \E g : IsWalk(s, 0, g)
<1> DEFINE T == {i \in 0 .. Len(s) + 1 : \E g : IsWalk(s, i, g)}
<1>0. Len(s) \in Nat
  OBVIOUS
<1>1. T \subseteq Nat
  BY <1>0
<1>2. Len(s) + 1 \in T
  <2> DEFINE g == [k \in {} |-> <<>>]
  <2>1. Len(s) + 1 .. Len(s) = {}
    BY <1>0
  <2>2. g = [k \in Len(s) + 1 .. Len(s) |-> Walked(s, g, k)]
    BY <2>1
  <2>3. IsWalk(s, Len(s) + 1, g)
    BY <2>2 DEF IsWalk
  <2> HIDE DEF g
  <2>4. Len(s) + 1 \in 0 .. Len(s) + 1
    BY <1>0
  <2> QED
    BY <2>3, <2>4
<1>3. PICK n \in T : \A m \in T : n <= m
  BY <1>1, <1>2, LeastOf
<1>4. PICK g : IsWalk(s, n, g)
  OBVIOUS
<1>5. n = 0
  <2> SUFFICES ASSUME n # 0 PROVE FALSE
    OBVIOUS
  <2>1. n \in 1 .. Len(s) + 1 /\ n - 1 \in 0 .. Len(s) /\ ~(n <= n - 1)
    BY <1>0
  <2> DEFINE h == [k \in n - 1 .. Len(s) |->
                     IF k = n - 1 THEN Walked(s, g, k) ELSE g[k]]
  <2>2. ASSUME NEW k \in n - 1 .. Len(s) PROVE h[k] = Walked(s, h, k)
    <3>1. k \in 0 .. Len(s)
      BY <1>0, <2>1
    <3> DEFINE next == P!NextAfter(s, k)
    <3>2. P!ItemFits(s, k) => next \in n - 1 .. Len(s) /\ next # n - 1
      <4>1. P!ItemFits(s, k) => next \in k + 1 .. Len(s)
        BY <3>1, NextIsFurther
      <4> HIDE DEF next
      <4> QED
        BY <1>0, <2>1, <4>1
    <3>3. P!ItemFits(s, k) => h[next] = g[next]
      BY <3>2
    <3>4. Walked(s, h, k) = Walked(s, g, k)
      <4> HIDE DEF h
      <4> QED
        BY <3>3, Zenon DEF Walked
    <3>5. CASE k = n - 1
      BY <3>4, <3>5
    <3>6. CASE k # n - 1
      <4>1. k \in n .. Len(s)
        BY <1>0, <2>1, <3>6
      <4>2. g[k] = Walked(s, g, k)
        BY <1>4, <4>1 DEF IsWalk
      <4> QED
        BY <3>4, <3>6, <4>2
    <3> QED
      BY <3>5, <3>6
  <2>3. h = [k \in n - 1 .. Len(s) |-> h[k]]
    OBVIOUS
  <2> HIDE DEF h
  <2>4. h = [k \in n - 1 .. Len(s) |-> Walked(s, h, k)]
    BY <2>2, <2>3
  <2>5. n - 1 \in T
    BY <2>1, <2>4 DEF IsWalk
  <2> QED
    BY <1>3, <2>1, <2>5
<1> QED
  BY <1>4, <1>5

(* So the walk is what its definition says. *)
LEMMA WalkUnfolds ==
    ASSUME NEW s \in Seq(Nat), NEW k \in 0 .. Len(s)
    PROVE  P!ItemsFrom(s, k) =
             IF P!ItemFits(s, k)
             THEN << P!ItemAt(s, k) >>
                  \o P!ItemsFrom(s, P!NextAfter(s, k))
             ELSE <<>>
<1>1. P!Walk(s) = CHOOSE g : IsWalk(s, 0, g)
  BY Zenon DEF P!Walk, IsWalk, Walked
<1>2. IsWalk(s, 0, P!Walk(s))
  BY <1>1, WalkExists
<1>3. P!Walk(s)[k] = Walked(s, P!Walk(s), k)
  BY <1>2, Zenon DEF IsWalk
<1> QED
  BY <1>3 DEF Walked, P!ItemsFrom

(* A parameter that a list holds. *)
Parameters == [tag : Nat, val : Seq(Byte)]

(* The bytes of a parameter that fits are its tag and its value. *)
LEMMA ItemIs ==
    ASSUME NEW s \in Seq(Byte), NEW k \in 0 .. Len(s), P!ItemFits(s, k)
    PROVE  /\ P!ItemAt(s, k) \in Parameters
           /\ P!NextAfter(s, k) \in k + 1 .. Len(s)
<1>1. Len(s) \in Nat /\ k + 4 <= Len(s) /\ Base \in Nat
  BY DecoderAssumption DEF P!ItemFits
<1>2. s \in Seq(Nat)
  BY <1>1 DEF Byte
<1>3. P!NextAfter(s, k) \in k + 1 .. Len(s)
  BY <1>2, NextIsFurther
<1>4. s[k + 1] \in Nat /\ s[k + 2] \in Nat
  BY <1>1, <1>2
<1>5. Base * s[k + 2] \in Nat
  BY <1>1, <1>4
<1>6. P!WordAt(s, k + 1) \in Nat
  <2>1. k + 1 + 1 = k + 2
    BY <1>1
  <2> QED
    BY <1>4, <1>5, <2>1 DEF P!WordAt
<1> DEFINE e == k + 4 + P!WordAt(s, k + 3)
<1>7. e \in 0 .. Len(s)
  BY <1>1, <1>3 DEF P!NextAfter
<1> HIDE DEF e
<1>8. SubSeq(s, k + 5, e) \in Seq(Byte)
  <2>1. \A i \in k + 5 .. e : s[i] \in Byte
    BY <1>1, <1>7
  <2> QED
    BY <1>1, <1>7, <2>1, SubSeqProperties
<1>9. P!ItemAt(s, k) = [tag |-> P!WordAt(s, k + 1), val |-> SubSeq(s, k + 5, e)]
  BY DEF P!ItemAt, e
<1> QED
  BY <1>3, <1>6, <1>8, <1>9 DEF Parameters

(* So is every element of the list. *)
LEMMA ItemsAre ==
    ASSUME NEW s \in Seq(Byte), NEW k \in 0 .. Len(s)
    PROVE  P!ItemsFrom(s, k) \in Seq(Parameters)
<1> DEFINE Bad == {n \in 0 .. Len(s) : P!ItemsFrom(s, Len(s) - n) \notin Seq(Parameters)}
<1>1. Len(s) \in Nat /\ Bad \subseteq Nat
  OBVIOUS
<1>2. s \in Seq(Nat)
  BY DecoderAssumption DEF Byte
<1>3. ASSUME Bad # {} PROVE FALSE
  <2>1. PICK n \in Bad : \A m \in Bad : n <= m
    BY <1>1, <1>3, LeastOf
  <2> DEFINE j == Len(s) - n
             next == P!NextAfter(s, j)
  <2>2. j \in 0 .. Len(s) /\ P!ItemsFrom(s, j) \notin Seq(Parameters) /\ n = Len(s) - j
    BY <1>1, <2>1
  <2> HIDE DEF j
  <2>3. CASE P!ItemFits(s, j)
    <3>1. P!ItemAt(s, j) \in Parameters /\ next \in j + 1 .. Len(s)
      BY <2>2, <2>3, ItemIs
    <3>2. P!ItemsFrom(s, j) = << P!ItemAt(s, j) >> \o P!ItemsFrom(s, next)
      BY <1>2, <2>2, <2>3, WalkUnfolds
    <3> HIDE DEF next
    <3>3. Len(s) - next \in 0 .. Len(s) /\ ~(n <= Len(s) - next) /\ Len(s) - (Len(s) - next) = next
      BY <1>1, <2>2, <3>1
    <3>4. P!ItemsFrom(s, next) \in Seq(Parameters)
      BY <2>1, <3>3
    <3>5. << P!ItemAt(s, j) >> \in Seq(Parameters)
      BY <3>1
    <3> QED
      BY <2>2, <3>2, <3>4, <3>5, ConcatProperties
  <2>4. CASE ~P!ItemFits(s, j)
    <3>1. P!ItemsFrom(s, j) = <<>>
      BY <1>2, <2>2, <2>4, WalkUnfolds
    <3> QED
      BY <2>2, <3>1, EmptySeq
  <2> QED
    BY <2>3, <2>4
<1>4. Len(s) - k \in 0 .. Len(s) /\ Len(s) - (Len(s) - k) = k
  BY <1>1
<1> QED
  BY <1>3, <1>4

(* One step of the walk takes one element off the list that is left. *)
LEMMA OneItem ==
    ASSUME NEW s \in Seq(Byte), NEW k \in 0 .. Len(s),
           NEW items \in Seq(Parameters), NEW j \in 0 .. Len(items),
           P!ItemsFrom(s, k) = SubSeq(items, j + 1, Len(items))
    PROVE  /\ P!ItemFits(s, k) =>
                /\ j + 1 \in 1 .. Len(items) /\ items[j + 1] = P!ItemAt(s, k)
                /\ P!NextAfter(s, k) \in 0 .. Len(s)
                /\ P!ItemsFrom(s, P!NextAfter(s, k)) = SubSeq(items, j + 2, Len(items))
           /\ ~P!ItemFits(s, k) => j = Len(items)
<1> DEFINE n == Len(items)
           left == SubSeq(items, j + 1, n)
           next == P!NextAfter(s, k)
           x == P!ItemAt(s, k)
<1>1. n \in Nat /\ j \in Nat /\ Len(s) \in Nat
  OBVIOUS
<1>2. s \in Seq(Nat)
  BY DecoderAssumption DEF Byte
<1>3. \A i \in j + 1 .. n : items[i] \in Parameters
  BY <1>1
<1>4. /\ left \in Seq(Parameters) /\ Len(left) = n - j
      /\ \A i \in 1 .. n - j : left[i] = items[j + i]
  <2>1. /\ left \in Seq(Parameters)
        /\ Len(left) = IF j + 1 <= n THEN n - (j + 1) + 1 ELSE 0
        /\ \A i \in 1 .. n - (j + 1) + 1 : left[i] = items[j + 1 + i - 1]
    BY <1>1, <1>3, SubSeqProperties
  <2> HIDE DEF left
  <2>2. n - (j + 1) + 1 = n - j /\ Len(left) = n - j
    BY <1>1, <2>1
  <2>3. ASSUME NEW i \in 1 .. n - j PROVE left[i] = items[j + i]
    <3>1. i \in 1 .. n - (j + 1) + 1 /\ j + 1 + i - 1 = j + i
      BY <1>1, <2>2
    <3>2. left[i] = items[j + 1 + i - 1]
      BY <2>1, <3>1
    <3> QED
      BY <3>1, <3>2
  <2> QED
    BY <2>1, <2>2, <2>3
<1> HIDE DEF left, next, x
<1>5. CASE P!ItemFits(s, k)
  <2>1. x \in Parameters /\ next \in k + 1 .. Len(s)
    BY <1>5, ItemIs DEF x, next
  <2>2. left = << x >> \o P!ItemsFrom(s, next)
    BY <1>2, <1>5, WalkUnfolds DEF left, next, x
  <2> DEFINE more == P!ItemsFrom(s, next)
  <2>3. more \in Seq(Parameters)
    BY <1>1, <2>1, ItemsAre
  <2> HIDE DEF more
  <2>4. /\ Len(left) = 1 + Len(more) /\ left[1] = x
        /\ \A i \in 1 .. Len(more) : left[i + 1] = more[i]
    <3>1. << x >> \in Seq(Parameters) /\ Len(<< x >>) = 1 /\ << x >>[1] = x
      BY <2>1
    <3>2. /\ Len(left) = 1 + Len(more)
          /\ \A i \in 1 .. 1 + Len(more) : left[i] = IF i <= 1 THEN << x >>[i] ELSE more[i - 1]
      BY <2>2, <2>3, <3>1, ConcatProperties DEF more
    <3>3. Len(more) \in Nat
      BY <2>3
    <3>4. ASSUME NEW i \in 1 .. Len(more) PROVE left[i + 1] = more[i]
      <4>1. i + 1 \in 1 .. 1 + Len(more) /\ ~(i + 1 <= 1) /\ i + 1 - 1 = i
        BY <3>3
      <4> QED
        BY <3>2, <4>1
    <3>5. 1 \in 1 .. 1 + Len(more) /\ 1 <= 1
      BY <3>3
    <3>6. left[1] = x
      BY <3>1, <3>2, <3>5
    <3> QED
      BY <3>2, <3>4, <3>6
  <2>5. Len(more) \in Nat /\ n - j = 1 + Len(more)
    <3>1. Len(more) \in Nat
      BY <2>3, LenProperties
    <3>2. n - j = Len(left)
      BY <1>4
    <3>3. Len(left) = 1 + Len(more)
      BY <2>4
    <3> QED
      BY <3>1, <3>2, <3>3
  <2>6. j + 1 \in 1 .. n /\ items[j + 1] = x
    BY <1>1, <1>4, <2>4, <2>5
  <2>7. more = SubSeq(items, j + 2, n)
    <3> DEFINE t == SubSeq(items, j + 2, n)
    <3>1. \A i \in j + 2 .. n : items[i] \in Parameters
      BY <1>1
    <3>2. /\ t \in Seq(Parameters)
          /\ Len(t) = IF j + 2 <= n THEN n - (j + 2) + 1 ELSE 0
          /\ \A i \in 1 .. n - (j + 2) + 1 : t[i] = items[j + 2 + i - 1]
      BY <1>1, <3>1, SubSeqProperties
    <3> HIDE DEF t
    <3>3. Len(t) = Len(more) /\ n - (j + 2) + 1 = Len(more)
      BY <1>1, <2>5, <3>2
    <3>4. ASSUME NEW i \in 1 .. Len(more) PROVE t[i] = more[i]
      <4>1. j + 2 + i - 1 = j + (i + 1) /\ i + 1 \in 1 .. n - j
        BY <1>1, <2>5
      <4>2. t[i] = items[j + (i + 1)]
        BY <3>2, <3>3, <4>1
      <4> QED
        BY <1>4, <2>4, <4>1, <4>2
    <3> QED
      BY <2>3, <3>2, <3>3, <3>4, SeqEqual DEF t
  <2> QED
    BY <1>1, <1>5, <2>1, <2>6, <2>7 DEF more, next, x
<1>6. CASE ~P!ItemFits(s, k)
  <2>1. left = <<>>
    BY <1>2, <1>6, WalkUnfolds DEF left
  <2>2. Len(left) = 0
    BY <2>1
  <2> QED
    BY <1>1, <1>4, <1>6, <2>2
<1> QED
  BY <1>5, <1>6

-----------------------------------------------------------------------------
(* Parts joined, and the functions that are nested: both are recursive.    *)

(* The body of the recursion, up to part n. *)
IsJoined(pre, parts, n, g) ==
    g = [i \in 0 .. n |-> IF i = 0 THEN pre ELSE g[i - 1] \o parts[i]]

(* Parts can be joined up to any. *)
LEMMA JoinedExists ==
    ASSUME NEW pre, NEW parts, NEW m \in Nat
    PROVE  \E g : IsJoined(pre, parts, m, g)
<1> DEFINE Bad == {n \in Nat : ~ \E g : IsJoined(pre, parts, n, g)}
<1>1. ASSUME Bad # {} PROVE FALSE
  <2>1. PICK n \in Bad : \A i \in Bad : n <= i
    BY <1>1, LeastOf
  <2>2. CASE n = 0
    <3> DEFINE g == [i \in 0 .. 0 |-> pre]
    <3>1. g = [i \in 0 .. 0 |-> IF i = 0 THEN pre ELSE g[i - 1] \o parts[i]]
      <4>1. \A i \in 0 .. 0 : i = 0
        OBVIOUS
      <4> QED
        BY <4>1
    <3>2. IsJoined(pre, parts, 0, g)
      BY <3>1, Zenon DEF IsJoined
    <3> QED
      BY <2>1, <2>2, <3>2
  <2>3. CASE n # 0
    <3>1. n \in Nat /\ n - 1 \in Nat /\ n \in 0 .. n /\ ~(n <= n - 1)
      BY <2>1, <2>3
    <3>2. PICK g : IsJoined(pre, parts, n - 1, g)
      BY <2>1, <3>1
    <3> DEFINE h == [i \in 0 .. n |-> IF i = n THEN g[n - 1] \o parts[n] ELSE g[i]]
    <3>3. ASSUME NEW i \in 0 .. n
          PROVE  h[i] = IF i = 0 THEN pre ELSE h[i - 1] \o parts[i]
      <4>1. i # n => i \in 0 .. n - 1
        BY <3>1
      <4>2. i # 0 => i - 1 \in 0 .. n /\ i - 1 # n
        BY <3>1
      <4>3. h[i] = IF i = n THEN g[n - 1] \o parts[n] ELSE g[i]
        OBVIOUS
      <4>4. i # 0 => h[i - 1] = g[i - 1]
        BY <4>2
      <4>5. i # n => g[i] = IF i = 0 THEN pre ELSE g[i - 1] \o parts[i]
        BY <3>2, <4>1, Zenon DEF IsJoined
      <4> HIDE DEF h
      <4>6. CASE i = n
        BY <2>3, <4>3, <4>4, <4>6, Zenon
      <4>7. CASE i # n
        BY <4>3, <4>4, <4>5, <4>7, Zenon
      <4> QED
        BY <4>6, <4>7
    <3>4. h = [i \in 0 .. n |-> h[i]]
      OBVIOUS
    <3> HIDE DEF h
    <3>5. IsJoined(pre, parts, n, h)
      BY <3>3, <3>4 DEF IsJoined
    <3> QED
      BY <2>1, <3>5
  <2> QED
    BY <2>2, <2>3
<1> QED
  BY <1>1

(* So each part is put behind those before it. *)
IsUpTo(g, pre, parts) ==
    /\ g[0] = pre
    /\ \A i \in 1 .. Len(parts) : g[i] = g[i - 1] \o parts[i]

LEMMA JoinedUnfolds ==
    ASSUME NEW pre, NEW parts, Len(parts) \in Nat
    PROVE  IsUpTo(JoinedTo(pre, parts), pre, parts)
<1> DEFINE j == JoinedTo(pre, parts)
<1>1. j = CHOOSE g : IsJoined(pre, parts, Len(parts), g)
  BY Zenon DEF JoinedTo, IsJoined
<1>2. IsJoined(pre, parts, Len(parts), j)
  BY <1>1, JoinedExists
<1> HIDE DEF j
<1>3. \A i \in 0 .. Len(parts) : j[i] = IF i = 0 THEN pre ELSE j[i - 1] \o parts[i]
  BY <1>2, Zenon DEF IsJoined
<1>4. 0 \in 0 .. Len(parts) /\ \A i \in 1 .. Len(parts) : i \in 0 .. Len(parts) /\ i # 0
  OBVIOUS
<1>5. j[0] = pre
  BY <1>3, <1>4, Zenon
<1>6. \A i \in 1 .. Len(parts) : j[i] = j[i - 1] \o parts[i]
  BY <1>3, <1>4, Zenon
<1> QED
  BY <1>5, <1>6 DEF j, IsUpTo

(* The body of Decode, and a solution for the functions in K. *)
Decoding(D, k) == [s \in Seq(Byte) |-> Joined(Schema[k].pre, Parts(D, k, P!Items(s)))]

IsDecode(K, D) == D = [k \in K |-> Decoding(D, k)]

(* The functions with fewer than n levels below them. *)
Shallow(n) == {k \in Kinds : Depth[k] < n}

(* What a function makes depends only on the functions its rules call. *)
LEMMA DecodingDepends ==
    ASSUME NEW k \in Kinds, NEW D, NEW E,
           \A f \in Fields(k) \cup Items(k) : f.how = "into" => D[f.kind] = E[f.kind]
    PROVE  Decoding(D, k) = Decoding(E, k)
<1>1. ASSUME NEW f \in Fields(k) \cup Items(k), NEW v
      PROVE  Entry(D, f, v) = Entry(E, f, v)
  BY Zenon DEF Entry
<1>2. ASSUME NEW items PROVE Parts(D, k, items) = Parts(E, k, items)
  <2>1. ASSUME NEW i \in DOMAIN Schema[k].fields
        PROVE  FieldOf(D, items, Schema[k].fields[i]) = FieldOf(E, items, Schema[k].fields[i])
    <3>1. Schema[k].fields[i] \in Fields(k) \cup Items(k)
      BY Zenon DEF Fields
    <3> QED
      BY <1>1, <3>1, Zenon DEF FieldOf
  <2>2. ASSUME NEW i PROVE ItemOf(D, k, items[i]) = ItemOf(E, k, items[i])
    <3> DEFINE r == CHOOSE n \in RulesFor(k, items[i]) : TRUE
    <3>1. CASE RulesFor(k, items[i]) = {}
      BY <3>1, Zenon DEF ItemOf
    <3>2. CASE RulesFor(k, items[i]) # {}
      <4>1. r \in RulesFor(k, items[i])
        BY <3>2, Zenon
      <4> HIDE DEF r
      <4>2. r \in DOMAIN Schema[k].items
        BY <4>1, Zenon DEF RulesFor
      <4>3. Schema[k].items[r] \in Fields(k) \cup Items(k)
        BY <4>2, Zenon DEF Items
      <4>4. Entry(D, Schema[k].items[r], items[i].val) = Entry(E, Schema[k].items[r], items[i].val)
        BY <1>1, <4>3, Zenon
      <4> QED
        BY <3>2, <4>4, Zenon DEF ItemOf, r
    <3> QED
      BY <3>1, <3>2
  <2>3. CASE Schema[k].form = "table"
    <3>1. [i \in DOMAIN Schema[k].fields |-> FieldOf(D, items, Schema[k].fields[i])]
          = [i \in DOMAIN Schema[k].fields |-> FieldOf(E, items, Schema[k].fields[i])]
      BY <2>1, Zenon
    <3> QED
      BY <2>3, <3>1, Zenon DEF Parts
  <2>4. CASE Schema[k].form # "table"
    <3>1. [i \in DOMAIN items |-> ItemOf(D, k, items[i])]
          = [i \in DOMAIN items |-> ItemOf(E, k, items[i])]
      BY <2>2, Zenon
    <3> QED
      BY <2>4, <3>1, Zenon DEF Parts
  <2> QED
    BY <2>3, <2>4
<1> QED
  BY <1>2, Zenon DEF Decoding

(* A solution for the shallow functions gives one for those a level deeper. *)
LEMMA DecodeExists ==
    ASSUME NEW m \in Nat
    PROVE  \E D : IsDecode(Shallow(m), D)
<1> DEFINE Bad == {n \in Nat : ~ \E D : IsDecode(Shallow(n), D)}
<1>1. ASSUME Bad # {} PROVE FALSE
  <2>1. PICK n \in Bad : \A i \in Bad : n <= i
    BY <1>1, LeastOf
  <2>d. \A k \in Kinds : Depth[k] \in Nat
    BY ReferenceAssumption, FS_CardinalityType
  <2>2. CASE n = 0
    <3> DEFINE D == [k \in {} |-> <<>>]
    <3>1. Shallow(0) = {}
      BY <2>d DEF Shallow
    <3>2. D = [k \in {} |-> Decoding(D, k)]
      OBVIOUS
    <3>3. IsDecode(Shallow(0), D)
      BY <3>1, <3>2, Zenon DEF IsDecode
    <3> QED
      BY <2>1, <2>2, <3>3
  <2>3. CASE n # 0
    <3>1. n \in Nat /\ n - 1 \in Nat /\ ~(n <= n - 1)
      BY <2>1, <2>3
    <3>2. PICK D : IsDecode(Shallow(n - 1), D)
      BY <2>1, <3>1
    <3> DEFINE E == [k \in Shallow(n) |-> Decoding(D, k)]
    <3>3. ASSUME NEW k \in Shallow(n) PROVE Decoding(D, k) = Decoding(E, k)
      <4>1. k \in Kinds /\ Depth[k] < n /\ Depth[k] \in Nat
        BY <2>d DEF Shallow
      <4>2. ASSUME NEW f \in Fields(k) \cup Items(k), f.how = "into"
            PROVE  D[f.kind] = E[f.kind]
        <5>1. f.kind \in Kinds /\ Depth[f.kind] < Depth[k] /\ Depth[f.kind] \in Nat
          BY <2>d, <4>1, <4>2, DecoderAssumption, ReferenceAssumption
        <5>2. f.kind \in Shallow(n - 1) /\ f.kind \in Shallow(n)
          BY <3>1, <4>1, <5>1 DEF Shallow
        <5>3. D[f.kind] = Decoding(D, f.kind)
          BY <3>2, <5>2, Zenon DEF IsDecode
        <5> QED
          BY <5>2, <5>3, Zenon
      <4> HIDE DEF E
      <4> QED
        BY <4>1, <4>2, DecodingDepends
    <3>4. E = [k \in Shallow(n) |-> Decoding(E, k)]
      <4> DEFINE F == [k \in Shallow(n) |-> Decoding(E, k)]
      <4>1. \A k \in Shallow(n) : E[k] = F[k]
        BY <3>3, Zenon
      <4> QED
        BY <4>1, Zenon
    <3> HIDE DEF E
    <3>5. IsDecode(Shallow(n), E)
      BY <3>4 DEF IsDecode
    <3> QED
      BY <2>1, <3>5
  <2> QED
    BY <2>2, <2>3
<1> QED
  BY <1>1

(* So Decode is what its definition says. *)
LEMMA DecodeUnfolds ==
    ASSUME NEW k \in Kinds, NEW s \in Seq(Byte)
    PROVE  Decode[k][s] = Joined(Schema[k].pre, Parts(Decode, k, P!Items(s)))
<1>1. Cardinality(Kinds) + 1 \in Nat /\ Shallow(Cardinality(Kinds) + 1) = Kinds
  <2>1. Cardinality(Kinds) \in Nat
    BY ReferenceAssumption, FS_CardinalityType
  <2>2. \A j \in Kinds : Depth[j] \in 0 .. Cardinality(Kinds)
    BY ReferenceAssumption
  <2>3. \A j \in Kinds : Depth[j] < Cardinality(Kinds) + 1
    BY <2>1, <2>2
  <2> QED
    BY <2>1, <2>3 DEF Shallow
<1>2. \E D : IsDecode(Kinds, D)
  BY <1>1, DecodeExists
<1>3. Decode = CHOOSE D : IsDecode(Kinds, D)
  BY Zenon DEF Decode, IsDecode, Decoding
<1>4. IsDecode(Kinds, Decode)
  BY <1>2, <1>3
<1>5. Decode[k] = Decoding(Decode, k)
  BY <1>4, Zenon DEF IsDecode
<1> QED
  BY <1>5, Zenon DEF Decoding

-----------------------------------------------------------------------------
(* The bytes a function was given, and the walk over them                  *)

Slice(m, b, e) == SubSeq(m, b + 1, e)

(* The bytes from b to e. *)
LEMMA SliceIs ==
    ASSUME NEW m \in Seq(Byte), NEW b \in Nat, NEW e \in Nat, b <= e, e <= Len(m)
    PROVE  /\ Slice(m, b, e) \in Seq(Byte)
           /\ Len(Slice(m, b, e)) = e - b
           /\ \A i \in 1 .. e - b : Slice(m, b, e)[i] = m[b + i]
<1> DEFINE s == Slice(m, b, e)
<1>1. Len(m) \in Nat
  OBVIOUS
<1>2. \A i \in b + 1 .. e : m[i] \in Byte
  BY <1>1
<1>3. /\ s \in Seq(Byte)
      /\ Len(s) = IF b + 1 <= e THEN e - (b + 1) + 1 ELSE 0
      /\ \A i \in 1 .. e - (b + 1) + 1 : s[i] = m[b + 1 + i - 1]
  BY <1>1, <1>2, SubSeqProperties DEF Slice
<1> HIDE DEF s
<1>4. Len(s) = e - b
  BY <1>3
<1>5. ASSUME NEW i \in 1 .. e - b PROVE s[i] = m[b + i]
  <2>1. i \in 1 .. e - (b + 1) + 1 /\ b + 1 + i - 1 = b + i
    OBVIOUS
  <2>2. s[i] = m[b + 1 + i - 1]
    BY <1>3, <2>1
  <2> QED
    BY <2>1, <2>2
<1> QED
  BY <1>3, <1>4, <1>5 DEF s

(* A slice of a slice. *)
LEMMA SliceInner ==
    ASSUME NEW m \in Seq(Byte), NEW b \in Nat, NEW e \in Nat, NEW p \in Nat, NEW q \in Nat,
           b <= e, e <= Len(m), p <= q, b + q <= e
    PROVE  Slice(Slice(m, b, e), p, q) = Slice(m, b + p, b + q)
<1> DEFINE s == Slice(m, b, e)
           u == Slice(s, p, q)
           v == Slice(m, b + p, b + q)
<1>1. /\ s \in Seq(Byte) /\ Len(s) = e - b
      /\ \A i \in 1 .. e - b : s[i] = m[b + i]
  BY SliceIs
<1>2. Len(m) \in Nat /\ b + p \in Nat /\ b + q \in Nat /\ b + p <= b + q /\ b + q <= Len(m)
  OBVIOUS
<1>3. /\ v \in Seq(Byte) /\ Len(v) = (b + q) - (b + p)
      /\ \A i \in 1 .. (b + q) - (b + p) : v[i] = m[b + p + i]
  BY <1>2, SliceIs, Zenon
<1> HIDE DEF s, v
<1>4. q <= Len(s)
  BY <1>1
<1>5. /\ u \in Seq(Byte) /\ Len(u) = q - p
      /\ \A i \in 1 .. q - p : u[i] = s[p + i]
  BY <1>1, <1>4, SliceIs
<1> HIDE DEF u
<1>6. (b + q) - (b + p) = q - p
  OBVIOUS
<1>7. ASSUME NEW i \in 1 .. q - p PROVE u[i] = v[i]
  <2>1. p + i \in 1 .. e - b /\ b + (p + i) = b + p + i /\ i \in 1 .. (b + q) - (b + p)
    OBVIOUS
  <2>2. u[i] = s[p + i] /\ s[p + i] = m[b + (p + i)] /\ v[i] = m[b + p + i]
    BY <1>1, <1>3, <1>5, <2>1
  <2> QED
    BY <2>1, <2>2
<1>8. Len(u) = Len(v) /\ \A i \in 1 .. Len(u) : u[i] = v[i]
  BY <1>3, <1>5, <1>6, <1>7
<1>9. u = v
  BY <1>3, <1>5, <1>8, SeqEqual
<1> QED
  BY <1>9 DEF u, v, s

(* What the walk of the innermost function sees next is the next parameter *)
(* of the bytes it was given, from byte b on.                              *)
LEMMA TopFits ==
    ASSUME IInv, stack # <<>>, NEW b \in Nat, b <= Top.pos
    PROVE  LET s == Slice(msg, b, Top.end)
               k == Top.pos - b
               v == Slice(msg, Top.pos + 4, Top.pos + 4 + pl)
           IN  /\ s \in Seq(Byte) /\ k \in 0 .. Len(s)
               /\ P!ItemFits(s, k) <=> Fits
               /\ Fits => /\ P!ItemAt(s, k) = [tag |-> pn, val |-> v]
                          /\ v \in Seq(Byte) /\ Len(v) = pl
                          /\ P!NextAfter(s, k) = (Top.pos + 4 + pl) - b
<1> DEFINE s == Slice(msg, b, Top.end)
           k == Top.pos - b
           v == Slice(msg, Top.pos + 4, Top.pos + 4 + pl)
           p == Top.pos
           e == Top.end
<1>1. p \in Nat /\ e \in Nat /\ p <= e /\ e <= Len(msg) /\ b <= p /\ b <= e
  BY TopOK DEF FrameOK
<1>2. msg \in Seq(Byte) /\ Len(msg) \in Nat /\ Base \in Nat
  BY DecoderAssumption DEF IInv
<1>3. /\ s \in Seq(Byte) /\ Len(s) = e - b
      /\ \A i \in 1 .. e - b : s[i] = msg[b + i]
  BY <1>1, <1>2, SliceIs
<1>4. k \in Nat /\ k \in 0 .. Len(s) /\ b + k = p
  BY <1>1, <1>3
<1> HIDE DEF s, k
<1>5. ASSUME k + 4 <= Len(s)
      PROVE  /\ P!WordAt(s, k + 1) = pn /\ P!WordAt(s, k + 3) = pl
             /\ pn \in Nat /\ pl \in Nat
  <2>1. /\ k + 1 \in 1 .. e - b /\ k + 2 \in 1 .. e - b
        /\ k + 3 \in 1 .. e - b /\ k + 4 \in 1 .. e - b
    BY <1>1, <1>3, <1>4, <1>5
  <2>2. /\ b + (k + 1) = p + 1 /\ b + (k + 2) = p + 2
        /\ b + (k + 3) = p + 3 /\ b + (k + 4) = p + 4
        /\ k + 1 + 1 = k + 2 /\ k + 3 + 1 = k + 4
        /\ p + 2 + 1 = p + 3 /\ p + 2 + 2 = p + 4
    BY <1>1, <1>4
  <2>3. s[k + 1] = msg[p + 1] /\ s[k + 2] = msg[p + 2]
    <3>1. s[k + 1] = msg[b + (k + 1)] /\ s[k + 2] = msg[b + (k + 2)]
      BY <1>3, <2>1, Zenon
    <3> QED
      BY <2>2, <3>1, Zenon
  <2>4. s[k + 3] = msg[p + 3] /\ s[k + 4] = msg[p + 4]
    <3>1. s[k + 3] = msg[b + (k + 3)] /\ s[k + 4] = msg[b + (k + 4)]
      BY <1>3, <2>1, Zenon
    <3> QED
      BY <2>2, <3>1, Zenon
  <2>5. s[k + 1] \in Byte /\ s[k + 2] \in Byte /\ s[k + 3] \in Byte /\ s[k + 4] \in Byte
    BY <1>3, <2>1, SMTT(30)
  <2>6. P!WordAt(s, k + 1) = pn
    BY <2>2, <2>3 DEF P!WordAt, pn, WordAt, p
  <2>7. P!WordAt(s, k + 3) = pl
    <3>1. pl = msg[p + 2 + 1] + Base * msg[p + 2 + 2]
      BY DEF pl, WordAt, p
    <3>2. P!WordAt(s, k + 3) = s[k + 3] + Base * s[k + 3 + 1]
      BY DEF P!WordAt
    <3> QED
      BY <2>2, <2>4, <3>1, <3>2
  <2>8. ASSUME NEW x \in Byte, NEW y \in Byte PROVE x + Base * y \in Nat
    <3>1. x \in Nat /\ y \in Nat
      BY <1>2 DEF Byte
    <3> QED
      BY <1>2, <3>1
  <2>9. P!WordAt(s, k + 1) \in Nat /\ P!WordAt(s, k + 3) \in Nat
    <3>1. /\ P!WordAt(s, k + 1) = s[k + 1] + Base * s[k + 2]
          /\ P!WordAt(s, k + 3) = s[k + 3] + Base * s[k + 4]
      BY <2>2 DEF P!WordAt
    <3> QED
      BY <2>5, <2>8, <3>1
  <2> QED
    BY <2>6, <2>7, <2>9
<1>6. P!ItemFits(s, k) <=> Fits
  <2>1. k + 4 <= Len(s) <=> e - p >= 4
    BY <1>1, <1>3, <1>4
  <2>2. CASE k + 4 <= Len(s)
    <3>1. P!WordAt(s, k + 3) = pl /\ pl \in Nat
      BY <1>5, <2>2
    <3>2. k + 4 + pl <= Len(s) <=> e - (p + 4) >= pl
      BY <1>1, <1>3, <1>4, <3>1, SMTT(30)
    <3> QED
      BY <2>1, <2>2, <3>1, <3>2 DEF P!ItemFits, Fits, p, e
  <2>3. CASE ~(k + 4 <= Len(s))
    BY <2>1, <2>3 DEF P!ItemFits, Fits, p, e
  <2> QED
    BY <2>2, <2>3
<1>7. ASSUME Fits
      PROVE  /\ P!ItemAt(s, k) = [tag |-> pn, val |-> v]
             /\ v \in Seq(Byte) /\ Len(v) = pl
             /\ P!NextAfter(s, k) = (p + 4 + pl) - b
  <2>1. pn \in Nat /\ pl \in Nat /\ p + 4 + pl <= e
    BY <1>7, FitsFacts DEF p, e
  <2>2. k + 4 <= Len(s)
    BY <1>1, <1>3, <1>4, <2>1, SMTT(30)
  <2>3. P!WordAt(s, k + 1) = pn /\ P!WordAt(s, k + 3) = pl
    BY <1>5, <2>2
  <2>4. v \in Seq(Byte) /\ Len(v) = pl
    <3>1. p + 4 \in Nat /\ p + 4 + pl \in Nat /\ p + 4 <= p + 4 + pl /\ p + 4 + pl <= Len(msg)
      BY <1>1, <1>2, <2>1
    <3>2. v \in Seq(Byte) /\ Len(v) = (p + 4 + pl) - (p + 4)
      BY <1>2, <3>1, SliceIs, Zenon
    <3> HIDE DEF v
    <3>3. (p + 4 + pl) - (p + 4) = pl
      BY <1>1, <2>1
    <3> QED
      BY <3>2, <3>3
  <2>5. SubSeq(s, k + 5, k + 4 + pl) = v
    <3>1. k + 4 \in Nat /\ k + 4 + pl \in Nat /\ k + 4 <= k + 4 + pl /\ b + (k + 4 + pl) <= e
      BY <1>1, <1>4, <2>1
    <3>2. SubSeq(s, k + 4 + 1, k + 4 + pl) = Slice(msg, b + (k + 4), b + (k + 4 + pl))
      <4>1. Slice(s, k + 4, k + 4 + pl) = Slice(msg, b + (k + 4), b + (k + 4 + pl))
        BY <1>1, <1>2, <3>1, SliceInner DEF s
      <4> QED
        BY <4>1 DEF Slice
    <3>3. k + 4 + 1 = k + 5 /\ b + (k + 4) = p + 4 /\ b + (k + 4 + pl) = p + 4 + pl
      BY <1>1, <1>4, <2>1
    <3> QED
      BY <3>2, <3>3
  <2>6. P!ItemAt(s, k) = [tag |-> pn, val |-> v]
    BY <2>3, <2>5, Zenon DEF P!ItemAt
  <2>7. k + 4 + pl = (p + 4 + pl) - b
    BY <1>1, <1>4, <2>1
  <2>8. P!NextAfter(s, k) = (p + 4 + pl) - b
    BY <2>3, <2>7 DEF P!NextAfter
  <2> QED
    BY <2>4, <2>6, <2>8
<1> QED
  BY <1>3, <1>4, <1>6, <1>7 DEF s, k

-----------------------------------------------------------------------------
(* What is true of a function midway                                       *)

(* The value of the last parameter with tag t among the first j. *)
LastTo(items, j, t) ==
    LET at == {i \in 1 .. j : items[i].tag = t}
    IN  IF at = {} THEN <<>> ELSE items[CHOOSE i \in at : \A h \in at : h <= i].val

(* Each parameter in turn is the last with its tag. *)
LEMMA LastToMore ==
    ASSUME NEW items, NEW j \in Nat, NEW t
    PROVE  /\ LastTo(items, 0, t) = <<>>
           /\ LastTo(items, j + 1, t) =
                IF items[j + 1].tag = t THEN items[j + 1].val ELSE LastTo(items, j, t)
<1> DEFINE at(n) == {i \in 1 .. n : items[i].tag = t}
           final(n) == CHOOSE i \in at(n) : \A h \in at(n) : h <= i
<1>1. at(0) = {}
  OBVIOUS
<1>2. ASSUME items[j + 1].tag # t PROVE at(j + 1) = at(j)
  <2>1. 1 .. j + 1 = 1 .. j \cup {j + 1}
    OBVIOUS
  <2> QED
    BY <1>2, <2>1, Zenon
<1>3. ASSUME items[j + 1].tag = t PROVE at(j + 1) # {} /\ final(j + 1) = j + 1
  <2>1. j + 1 \in at(j + 1)
    BY <1>3
  <2>2. \A h \in at(j + 1) : h \in Nat /\ h <= j + 1
    OBVIOUS
  <2>3. \A i \in at(j + 1) : (\A h \in at(j + 1) : h <= i) => i = j + 1
    <3> SUFFICES ASSUME NEW i \in at(j + 1), \A h \in at(j + 1) : h <= i PROVE i = j + 1
      OBVIOUS
    <3>1. i \in Nat /\ i <= j + 1 /\ j + 1 <= i
      BY <2>1, <2>2
    <3> QED
      BY <3>1
  <2> HIDE DEF at
  <2> QED
    BY <2>1, <2>2, <2>3
<1> HIDE DEF at
<1>4. \A n : LastTo(items, n, t) = IF at(n) = {} THEN <<>> ELSE items[final(n)].val
  BY Zenon DEF LastTo, at
<1> HIDE DEF final
<1>5. LastTo(items, 0, t) = <<>>
  BY <1>1, <1>4, Zenon
<1>6. CASE items[j + 1].tag = t
  BY <1>3, <1>4, <1>5, <1>6, Zenon
<1>7. CASE items[j + 1].tag # t
  <2>1. at(j + 1) = at(j) /\ final(j + 1) = final(j)
    BY <1>2, <1>7, Zenon DEF final
  <2> QED
    BY <1>4, <1>5, <1>7, <2>1, Zenon
<1> QED
  BY <1>6, <1>7

(* What the table says of a tag. *)
At(m, tab, t) == IF t \in DOMAIN tab
                 THEN Slice(m, tab[t].pos, tab[t].pos + tab[t].len) ELSE <<>>

(* The table says what the first j parameters are. *)
TabSays(m, k, tab, items, j) ==
    \A t \in 0 .. Schema[k].max - 1 : At(m, tab, t) = LastTo(items, j, t)

Whole(m, f, b) == P!Items(Slice(m, b, f.end))

(* What a function makes of the first i fields, or items. *)
SoFar(k, items) == JoinedTo(Schema[k].pre, Parts(Decode, k, items))

(* The walk of f, over the bytes from b on, is behind the first j parameters. *)
WalkIsAt(m, f, b, j) ==
    /\ j \in 0 .. Len(Whole(m, f, b))
    /\ P!ItemsFrom(Slice(m, b, f.end), f.pos - b)
         = SubSeq(Whole(m, f, b), j + 1, Len(Whole(m, f, b)))

(* A function midway, when w is what another owes it: in Parse; taking     *)
(* the fields; in the loop over a list.                                    *)
InParse(m, f, b, w) ==
    /\ Schema[f.kind].form = "table" /\ f.at = 0
    /\ f.val = Schema[f.kind].pre /\ w = <<>>
    /\ \E j : WalkIsAt(m, f, b, j) /\ TabSays(m, f.kind, f.tab, Whole(m, f, b), j)

InFields(m, f, b, w) ==
    /\ Schema[f.kind].form = "table" /\ f.at \in 1 .. Len(Schema[f.kind].fields) + 1
    /\ TabSays(m, f.kind, f.tab, Whole(m, f, b), Len(Whole(m, f, b)))
    /\ f.val \o w = SoFar(f.kind, Whole(m, f, b))[f.at - 1]

InList(m, f, b, w) ==
    /\ Schema[f.kind].form # "table" /\ f.at = 0
    /\ \E j : /\ WalkIsAt(m, f, b, j)
              /\ f.val \o w = SoFar(f.kind, Whole(m, f, b))[j]

Midway(m, f, b, w) ==
    /\ b \in Nat /\ b <= f.pos /\ IsSeq(f.val)
    /\ InParse(m, f, b, w) \/ InFields(m, f, b, w) \/ InList(m, f, b, w)

(* What the function above frame i owes it: all that it should make of its *)
(* bytes.                                                                  *)
Owed(m, s, b, i) ==
    IF i = Len(s) THEN <<>>
    ELSE << [to |-> s[i + 1].to,
             v  |-> Decode[s[i + 1].kind][Slice(m, b[i + 1], s[i + 1].end)]] >>

(* Every function is midway; the first was given the message. *)
RightBy(m, s, b) ==
    /\ s # <<>> => b[1] = 0 /\ s[1].end = Len(m)
    /\ \A i \in 1 .. Len(s) : Midway(m, s[i], b[i], Owed(m, s, b, i))

-----------------------------------------------------------------------------
(* Sequences of anything *)

LEMMA Anything ==
    ASSUME NEW s, IsSeq(s), NEW x
    PROVE  /\ s \o <<>> = s
           /\ s \o << x >> = Append(s, x)
           /\ IsSeq(Append(s, x))
<1>1. PICK S : s \in Seq(S)
  BY DEF IsSeq
<1>2. s \in Seq(S \cup {x}) /\ << x >> \in Seq(S \cup {x})
  <2>1. Len(s) \in Nat /\ DOMAIN s = 1 .. Len(s) /\ \A i \in 1 .. Len(s) : s[i] \in S
    BY <1>1
  <2> QED
    BY <1>1, <2>1
<1>3. s \o <<>> = s
  BY <1>1, ConcatEmptySeq
<1>4. Append(s, x) = s \o << x >>
  BY <1>2, AppendIsConcat
<1>5. Append(s, x) \in Seq(S \cup {x})
  BY <1>2, AppendProperties
<1> QED
  BY <1>3, <1>4, <1>5 DEF IsSeq

(* The lists of a function's rules. *)
LEMMA Lists ==
    ASSUME NEW k \in Kinds
    PROVE  /\ IsSeq(Schema[k].pre)
           /\ Len(Schema[k].fields) \in Nat
           /\ DOMAIN Schema[k].fields = 1 .. Len(Schema[k].fields)
<1>1. IsList(Schema[k].pre) /\ IsList(Schema[k].fields)
  BY ReferenceAssumption
<1>2. IsSeq(Schema[k].pre)
  BY <1>1, Zenon DEF IsList, IsSeq
<1>3. \E S : Schema[k].fields \in Seq(S)
  BY <1>1, Zenon DEF IsList
<1>4. PICK S : Schema[k].fields \in Seq(S)
  BY <1>3
<1> QED
  BY <1>2, <1>4

(* The parameters of a function's bytes. *)
LEMMA WholeIs ==
    ASSUME NEW s \in Seq(Byte)
    PROVE  P!Items(s) \in Seq(Parameters) /\ Len(P!Items(s)) \in Nat
<1>1. 0 \in 0 .. Len(s)
  OBVIOUS
<1>2. P!Items(s) = P!ItemsFrom(s, 0)
  BY Zenon DEF P!Items
<1>3. P!ItemsFrom(s, 0) \in Seq(Parameters)
  BY <1>1, ItemsAre
<1>4. P!Items(s) \in Seq(Parameters)
  BY <1>2, <1>3
<1> QED
  BY <1>4, LenProperties

(* A table function puts field behind field ... *)
LEMMA FieldByField ==
    ASSUME NEW k \in Kinds, Schema[k].form = "table", NEW items
    PROVE  LET n == Len(Schema[k].fields)
           IN  /\ n \in Nat
               /\ SoFar(k, items)[0] = Schema[k].pre
               /\ \A i \in 1 .. n : SoFar(k, items)[i] = SoFar(k, items)[i - 1]
                                      \o FieldOf(Decode, items, Schema[k].fields[i])
               /\ Joined(Schema[k].pre, Parts(Decode, k, items)) = SoFar(k, items)[n]
<1> DEFINE n == Len(Schema[k].fields)
           parts == Parts(Decode, k, items)
<1>1. n \in Nat /\ DOMAIN Schema[k].fields = 1 .. n
  BY Lists
<1> HIDE DEF n
<1>2. parts = [i \in 1 .. n |-> FieldOf(Decode, items, Schema[k].fields[i])]
  BY <1>1, Zenon DEF Parts
<1>3. Len(parts) = n
  <2> DEFINE F(i) == FieldOf(Decode, items, Schema[k].fields[i])
  <2> HIDE DEF F, parts
  <2>1. parts = [i \in 1 .. n |-> F(i)]
    BY <1>2 DEF F
  <2>2. parts \in Seq({F(i) : i \in 1 .. n}) /\ DOMAIN parts = 1 .. n
    BY <1>1, <2>1
  <2> QED
    BY <1>1, <2>2
<1>4. \A i \in 1 .. n : parts[i] = FieldOf(Decode, items, Schema[k].fields[i])
  BY <1>2, Zenon
<1> DEFINE j == JoinedTo(Schema[k].pre, parts)
<1>5. /\ j[0] = Schema[k].pre
      /\ \A i \in 1 .. Len(parts) : j[i] = j[i - 1] \o parts[i]
  <2> HIDE DEF parts
  <2>1. Len(parts) \in Nat
    BY <1>1, <1>3
  <2>2. IsUpTo(j, Schema[k].pre, parts)
    BY <2>1, JoinedUnfolds, Zenon
  <2> QED
    BY <2>2, Zenon DEF IsUpTo
<1>6. \A i \in 1 .. n : j[i] = j[i - 1] \o FieldOf(Decode, items, Schema[k].fields[i])
  <2> HIDE DEF j, parts
  <2> QED
    BY <1>3, <1>4, <1>5, Zenon
<1>7. Joined(Schema[k].pre, parts) = j[n]
  BY <1>3, Zenon DEF Joined
<1>8. j = SoFar(k, items)
  BY Zenon DEF SoFar
<1> HIDE DEF j
<1> QED
  BY <1>1, <1>5, <1>6, <1>7, <1>8, Zenon DEF n

(* ... and a list function what it makes of each item. *)
LEMMA ItemByItem ==
    ASSUME NEW k \in Kinds, Schema[k].form # "table", NEW items \in Seq(Parameters)
    PROVE  LET n == Len(items)
           IN  /\ SoFar(k, items)[0] = Schema[k].pre
               /\ \A i \in 1 .. n : SoFar(k, items)[i] = SoFar(k, items)[i - 1]
                                      \o ItemOf(Decode, k, items[i])
               /\ Joined(Schema[k].pre, Parts(Decode, k, items)) = SoFar(k, items)[n]
<1> DEFINE n == Len(items)
           parts == Parts(Decode, k, items)
<1>1. n \in Nat /\ DOMAIN items = 1 .. n
  OBVIOUS
<1> HIDE DEF n
<1>2. parts = [i \in 1 .. n |-> ItemOf(Decode, k, items[i])]
  BY <1>1, Zenon DEF Parts
<1>3. Len(parts) = n
  <2> DEFINE F(i) == ItemOf(Decode, k, items[i])
  <2> HIDE DEF F, parts
  <2>1. parts = [i \in 1 .. n |-> F(i)]
    BY <1>2 DEF F
  <2>2. parts \in Seq({F(i) : i \in 1 .. n}) /\ DOMAIN parts = 1 .. n
    BY <1>1, <2>1
  <2> QED
    BY <1>1, <2>2
<1>4. \A i \in 1 .. n : parts[i] = ItemOf(Decode, k, items[i])
  BY <1>2, Zenon
<1> DEFINE j == JoinedTo(Schema[k].pre, parts)
<1>5. /\ j[0] = Schema[k].pre
      /\ \A i \in 1 .. Len(parts) : j[i] = j[i - 1] \o parts[i]
  <2> HIDE DEF parts
  <2>1. Len(parts) \in Nat
    BY <1>1, <1>3
  <2>2. IsUpTo(j, Schema[k].pre, parts)
    BY <2>1, JoinedUnfolds, Zenon
  <2> QED
    BY <2>2, Zenon DEF IsUpTo
<1>6. \A i \in 1 .. n : j[i] = j[i - 1] \o ItemOf(Decode, k, items[i])
  <2> HIDE DEF j, parts
  <2> QED
    BY <1>3, <1>4, <1>5, Zenon
<1>7. Joined(Schema[k].pre, parts) = j[n]
  BY <1>3, Zenon DEF Joined
<1>8. j = SoFar(k, items)
  BY Zenon DEF SoFar
<1> HIDE DEF j
<1> QED
  BY <1>5, <1>6, <1>7, <1>8, Zenon DEF n

-----------------------------------------------------------------------------
(* One function *)

(* The bytes of a good frame. *)
LEMMA BytesOf ==
    ASSUME NEW m \in Seq(Byte), NEW f, FrameOK(m, f), NEW b \in Nat, b <= f.pos
    PROVE  /\ Slice(m, b, f.end) \in Seq(Byte)
           /\ Len(Slice(m, b, f.end)) = f.end - b
           /\ Whole(m, f, b) \in Seq(Parameters) /\ Len(Whole(m, f, b)) \in Nat
<1>1. f.pos \in Nat /\ f.end \in Nat /\ f.pos <= f.end /\ f.end <= Len(m)
  BY DEF FrameOK
<1>2. b <= f.end
  BY <1>1
<1>3. Slice(m, b, f.end) \in Seq(Byte) /\ Len(Slice(m, b, f.end)) = f.end - b
  BY <1>1, <1>2, SliceIs
<1> QED
  BY <1>3, WholeIs DEF Whole

(* A function that begins is midway. *)
LEMMA NewMidway ==
    ASSUME NEW m \in Seq(Byte), NEW k \in Kinds, NEW to, NEW p \in Nat, NEW e \in Nat,
           p <= e, e <= Len(m)
    PROVE  Midway(m, Frame(k, to, p, e), p, <<>>)
<1> DEFINE f == Frame(k, to, p, e)
           items == Whole(m, f, p)
<1>1. /\ f.kind = k /\ f.pos = p /\ f.end = e /\ f.at = 0
      /\ f.tab = [t \in {} |-> <<>>] /\ f.val = Schema[k].pre
  BY DEF Frame
<1>2. FrameOK(m, f)
  BY FrameNew
<1> HIDE DEF f
<1>3. items \in Seq(Parameters) /\ Len(items) \in Nat
  BY <1>1, <1>2, BytesOf
<1>4. WalkIsAt(m, f, p, 0)
  <2>1. p - p = 0 /\ 0 + 1 = 1 /\ 0 \in 0 .. Len(items)
    BY <1>3
  <2>2. items = P!ItemsFrom(Slice(m, p, f.end), 0)
    BY Zenon DEF Whole, P!Items
  <2>3. items = SubSeq(items, 1, Len(items))
    <3> HIDE DEF items
    <3> QED
      BY <1>3, SubSeqFull
  <2> QED
    BY <1>1, <2>1, <2>2, <2>3, Zenon DEF WalkIsAt
<1>5. TabSays(m, k, f.tab, items, 0)
  <2>1. \A t : LastTo(items, 0, t) = <<>>
    BY LastToMore
  <2>2. \A t : At(m, f.tab, t) = <<>>
    BY <1>1 DEF At
  <2> QED
    BY <2>1, <2>2, Zenon DEF TabSays
<1>6. IsSeq(f.val) /\ f.val \o <<>> = Schema[k].pre
  BY <1>1, Lists, Anything
<1>7. CASE Schema[k].form = "table"
  <2>1. InParse(m, f, p, <<>>)
    BY <1>1, <1>4, <1>5, <1>7, Zenon DEF InParse
  <2> QED
    BY <1>1, <1>6, <2>1 DEF Midway, f
<1>8. CASE Schema[k].form # "table"
  <2>1. SoFar(k, items)[0] = Schema[k].pre
    <3> HIDE DEF items
    <3> QED
      BY <1>3, <1>8, ItemByItem
  <2>2. InList(m, f, p, <<>>)
    BY <1>1, <1>4, <1>6, <1>8, <2>1, Zenon DEF InList
  <2> QED
    BY <1>1, <1>6, <2>2 DEF Midway, f
<1> QED
  BY <1>7, <1>8

(* A function that has taken all has made what it should. *)
LEMMA AllMade ==
    ASSUME NEW m \in Seq(Byte), NEW f, FrameOK(m, f), NEW b, IsSeq(f.val),
           b \in Nat, b <= f.pos,
           \/ InFields(m, f, b, <<>>) /\ f.at > Len(Schema[f.kind].fields)
           \/ /\ Schema[f.kind].form # "table"
              /\ f.val \o <<>> = SoFar(f.kind, Whole(m, f, b))[Len(Whole(m, f, b))]
    PROVE  f.val = Decode[f.kind][Slice(m, b, f.end)]
<1> DEFINE k == f.kind
           s == Slice(m, b, f.end)
           items == Whole(m, f, b)
<1>1. k \in Kinds
  BY DEF FrameOK
<1>2. s \in Seq(Byte) /\ items \in Seq(Parameters)
  BY BytesOf
<1>3. f.val \o <<>> = f.val
  BY Anything
<1>4. Decode[k][s] = Joined(Schema[k].pre, Parts(Decode, k, items))
  <2> HIDE DEF k, s
  <2>1. Decode[k][s] = Joined(Schema[k].pre, Parts(Decode, k, P!Items(s)))
    BY <1>1, <1>2, DecodeUnfolds
  <2> QED
    BY <2>1, Zenon DEF Whole, s
<1> HIDE DEF s, items
<1>5. CASE InFields(m, f, b, <<>>) /\ f.at > Len(Schema[k].fields)
  <2> DEFINE n == Len(Schema[k].fields)
  <2>1. n \in Nat /\ Joined(Schema[k].pre, Parts(Decode, k, items)) = SoFar(k, items)[n]
    BY <1>1, <1>5, FieldByField DEF InFields
  <2>2. f.at \in 1 .. n + 1 /\ f.at > n
    BY <1>5 DEF InFields
  <2> HIDE DEF n
  <2>3. f.at - 1 = n
    BY <2>1, <2>2
  <2>4. f.val \o <<>> = SoFar(k, items)[f.at - 1]
    BY <1>5, Zenon DEF InFields, items
  <2> QED
    BY <1>3, <1>4, <2>1, <2>3, <2>4 DEF s
<1>6. CASE Schema[k].form # "table" /\ f.val \o <<>> = SoFar(k, items)[Len(items)]
  <2>1. Joined(Schema[k].pre, Parts(Decode, k, items)) = SoFar(k, items)[Len(items)]
    BY <1>1, <1>2, <1>6, ItemByItem
  <2> QED
    BY <1>3, <1>4, <1>6, <2>1, Zenon DEF s
<1> QED
  BY <1>5, <1>6 DEF items

(* One parameter that fits takes the walk behind one more. *)
LEMMA OneOnWalk ==
    ASSUME IInv, stack # <<>>, NEW b \in Nat, b <= Top.pos, NEW j, WalkIsAt(msg, Top, b, j)
    PROVE  LET items == Whole(msg, Top, b)
               v == Slice(msg, Top.pos + 4, Top.pos + 4 + pl)
           IN  /\ Fits =>
                    /\ j \in Nat /\ j + 1 \in 1 .. Len(items)
                    /\ items[j + 1] = [tag |-> pn, val |-> v]
                    /\ v \in Seq(Byte) /\ Len(v) = pl
                    /\ \A f : f.end = Top.end /\ f.pos = Top.pos + 4 + pl
                              => WalkIsAt(msg, f, b, j + 1)
               /\ ~Fits => j = Len(items)
<1> DEFINE items == Whole(msg, Top, b)
           v == Slice(msg, Top.pos + 4, Top.pos + 4 + pl)
           s == Slice(msg, b, Top.end)
           k == Top.pos - b
<1>1. FrameOK(msg, Top) /\ msg \in Seq(Byte)
  BY TopOK DEF IInv
<1>2. items \in Seq(Parameters) /\ Len(items) \in Nat
  BY <1>1, BytesOf
<1>3. /\ s \in Seq(Byte) /\ k \in 0 .. Len(s)
      /\ P!ItemFits(s, k) <=> Fits
      /\ Fits => /\ P!ItemAt(s, k) = [tag |-> pn, val |-> v]
                 /\ v \in Seq(Byte) /\ Len(v) = pl
                 /\ P!NextAfter(s, k) = (Top.pos + 4 + pl) - b
  BY TopFits
<1>4. j \in 0 .. Len(items) /\ P!ItemsFrom(s, k) = SubSeq(items, j + 1, Len(items))
  BY Zenon DEF WalkIsAt
<1> HIDE DEF s, k, v, items
<1>5. /\ P!ItemFits(s, k) =>
           /\ j + 1 \in 1 .. Len(items) /\ items[j + 1] = P!ItemAt(s, k)
           /\ P!ItemsFrom(s, P!NextAfter(s, k)) = SubSeq(items, j + 2, Len(items))
      /\ ~P!ItemFits(s, k) => j = Len(items)
  BY <1>2, <1>3, <1>4, OneItem
<1>6. ASSUME Fits, NEW f, f.end = Top.end, f.pos = Top.pos + 4 + pl
      PROVE  WalkIsAt(msg, f, b, j + 1)
  <2>1. Top.pos \in Nat /\ pl \in Nat
    BY <1>6, FitsFacts
  <2>2. f.pos - b = (Top.pos + 4 + pl) - b
    BY <1>6
  <2>3. P!ItemsFrom(s, f.pos - b) = SubSeq(items, j + 2, Len(items))
    BY <1>3, <1>5, <1>6, <2>2
  <2>4. j + 1 \in 0 .. Len(items) /\ (j + 1) + 1 = j + 2
    BY <1>2, <1>3, <1>4, <1>5, <1>6
  <2>5. Whole(msg, f, b) = items /\ Slice(msg, b, f.end) = s
    BY <1>6, Zenon DEF Whole, items, s
  <2> QED
    BY <2>3, <2>4, <2>5, Zenon DEF WalkIsAt
<1> QED
  BY <1>2, <1>3, <1>4, <1>5, <1>6 DEF items, v

-----------------------------------------------------------------------------
(* Values and tables *)

(* A division by Base leaves no more than there was. *)
LEMMA Remainder ==
    ASSUME NEW l \in Nat
    PROVE  l % Base \in Nat /\ l % Base <= l
<1>1. Base \in Nat /\ Base > 0
  BY DecoderAssumption
<1>2. l % Base \in 0 .. Base - 1
  BY <1>1
<1>3. CASE l < Base
  BY <1>1, <1>2, <1>3
<1>4. CASE ~(l < Base)
  BY <1>1, <1>2, <1>4
<1> QED
  BY <1>3, <1>4

(* What is read from the message is what the value's bytes say. *)
LEMMA ValueIs ==
    ASSUME IInv, NEW p \in Nat, NEW l \in Nat, p + l <= Len(msg),
           NEW f, f.n \in Nat, f.how \in Hows, f.how # "into"
    PROVE  Value(f, p, l) = Made(f, Slice(msg, p, p + l))
<1> DEFINE v == Slice(msg, p, p + l)
<1>1. v \in Seq(Byte) /\ Len(v) = l /\ \A i \in 1 .. l : v[i] = msg[p + i]
  <2>1. msg \in Seq(Byte) /\ p + l \in Nat /\ p <= p + l /\ (p + l) - p = l
    BY DEF IInv
  <2>2. v \in Seq(Byte) /\ Len(v) = (p + l) - p /\ \A i \in 1 .. (p + l) - p : v[i] = msg[p + i]
    BY <2>1, SliceIs
  <2> QED
    BY <2>1, <2>2
<1> HIDE DEF v
<1>2. ASSUME NEW n \in Nat PROVE Bytes(p, l, n) = First(v, n)
  <2>1. \A i \in 1 .. n : i <= l => i \in 1 .. l
    OBVIOUS
  <2>2. \A i \in 1 .. n : (IF i <= l THEN msg[p + i] ELSE Unknown)
                           = (IF i <= Len(v) THEN v[i] ELSE Unknown)
    BY <1>1, <2>1
  <2> QED
    BY <2>2, Zenon DEF Bytes, First
<1>3. \A i \in 1 .. l : i <= l /\ Bytes(p, l, l)[i] = msg[p + i]
  BY DEF Bytes
<1>4. Bytes(p, l, l) = v
  <2>1. Bytes(p, l, l) = [i \in 1 .. l |-> msg[p + i]]
    BY DEF Bytes
  <2>2. v = [i \in 1 .. l |-> v[i]]
    BY <1>1
  <2>3. [i \in 1 .. l |-> v[i]] = [i \in 1 .. l |-> msg[p + i]]
    BY <1>1, Zenon
  <2> QED
    BY <2>1, <2>2, <2>3
<1>5. Bytes(p, l, l % Base) = SubSeq(v, 1, l % Base)
  <2> DEFINE n == l % Base
  <2>1. n \in Nat /\ n <= l
    BY Remainder
  <2> HIDE DEF n
  <2>2. SubSeq(v, 1, n) = [i \in 1 .. n |-> v[i]]
    BY <1>1, <2>1
  <2>3. \A i \in 1 .. n : i <= l /\ i \in 1 .. l
    BY <2>1
  <2>4. \A i \in 1 .. n : (IF i <= l THEN msg[p + i] ELSE Unknown) = v[i]
    BY <1>1, <2>3
  <2>5. Bytes(p, l, n) = [i \in 1 .. n |-> v[i]]
    BY <2>4, Zenon DEF Bytes
  <2> QED
    BY <2>2, <2>5 DEF n
<1>6. CASE f.how = "int"
  <2>1. Value(f, p, l) = Bytes(p, l, f.n) /\ Made(f, v) = First(v, f.n)
    BY <1>6 DEF Value, Made
  <2> QED
    BY <1>2, <2>1, Zenon DEF v
<1>7. CASE f.how = "low"
  <2>1. Value(f, p, l) = Bytes(p, l, 2) /\ Made(f, v) = First(v, 2)
    BY <1>7 DEF Value, Made
  <2> QED
    BY <1>2, <2>1 DEF v
<1>8. CASE f.how = "flag"
  <2>1. Value(f, p, l) = << Truth(Bytes(p, l, 1)[1]) >> /\ Made(f, v) = << Truth(First(v, 1)[1]) >>
    BY <1>8 DEF Value, Made
  <2>2. Bytes(p, l, 1) = First(v, 1)
    BY <1>2
  <2> QED
    BY <2>1, <2>2, Zenon DEF v
<1>9. CASE f.how = "text"
  <2>1. Value(f, p, l) = Bytes(p, l, l) /\ Made(f, v) = v
    BY <1>9 DEF Value, Made
  <2> QED
    BY <1>4, <2>1, Zenon DEF v
<1>10. CASE f.how = "cut"
  <2>1. Value(f, p, l) = Bytes(p, l, l % Base) /\ Made(f, v) = SubSeq(v, 1, Len(v) % Base)
    BY <1>10 DEF Value, Made
  <2> QED
    BY <1>1, <1>5, <2>1, Zenon DEF v
<1>11. CASE f.how \in {"count", "size", "const"}
  <2>1. CASE f.how = "count"
    BY <1>1, <2>1 DEF Value, Made, v
  <2>2. CASE f.how = "size"
    <3>1. /\ Value(f, p, l) = << IF l < WordMax \div 2 THEN l ELSE l - WordMax >>
          /\ Made(f, v) = << IF Len(v) < WordMax \div 2 THEN Len(v) ELSE Len(v) - WordMax >>
      BY <2>2, Zenon DEF Value, Made
    <3> QED
      BY <1>1, <3>1, Zenon DEF v
  <2>3. CASE f.how = "const"
    BY <2>3 DEF Value, Made, v
  <2> QED
    BY <1>11, <2>1, <2>2, <2>3
<1> QED
  BY <1>6, <1>7, <1>8, <1>9, <1>10, <1>11 DEF Hows

(* What the table says of a tag, as the handler finds it. *)
LEMMA GivenIs ==
    ASSUME IInv, stack # <<>>, NEW t
    PROVE  LET v == Slice(msg, PosOf(t), PosOf(t) + LenOf(t))
           IN  /\ v = At(msg, Top.tab, t)
               /\ v \in Seq(Byte) /\ Len(v) = LenOf(t)
               /\ LenOf(t) > 0 => v[1] = msg[PosOf(t) + 1]
<1> DEFINE p == PosOf(t)
           l == LenOf(t)
           v == Slice(msg, p, p + l)
<1>1. p \in Nat /\ l \in Nat /\ p + l <= Top.end /\ Top.end \in Nat /\ Top.end <= Len(msg)
  BY EntryInside
<1>2. msg \in Seq(Byte) /\ Len(msg) \in Nat
  BY DEF IInv
<1>3. v = At(msg, Top.tab, t)
  <2>1. CASE Given(t)
    BY <2>1, Zenon DEF PosOf, LenOf, At, Given
  <2>2. CASE ~Given(t)
    <3>1. p = 0 /\ l = 0 /\ At(msg, Top.tab, t) = <<>>
      BY <2>2, Zenon DEF PosOf, LenOf, At, Given
    <3>2. Slice(msg, 0, 0) = <<>>
      <4>1. Slice(msg, 0, 0) \in Seq(Byte) /\ Len(Slice(msg, 0, 0)) = 0
        BY <1>2, SliceIs
      <4> QED
        BY <4>1, EmptySeq
    <3>3. p + l = 0
      BY <3>1
    <3> QED
      BY <3>1, <3>2, <3>3
  <2> QED
    BY <2>1, <2>2
<1> HIDE DEF p, l, v
<1>4. p + l \in Nat /\ p <= p + l /\ p + l <= Len(msg) /\ (p + l) - p = l
  BY <1>1, <1>2
<1>5. /\ v \in Seq(Byte) /\ Len(v) = (p + l) - p
      /\ \A i \in 1 .. (p + l) - p : v[i] = msg[p + i]
  BY <1>1, <1>2, <1>4, SliceIs DEF v
<1>6. l > 0 => v[1] = msg[p + 1]
  <2>1. l > 0 => 1 \in 1 .. (p + l) - p
    BY <1>1, <1>4
  <2> QED
    BY <1>5, <2>1
<1> QED
  BY <1>3, <1>4, <1>5, <1>6 DEF p, l, v

(* A condition holds of the table as it does of the list of parameters. *)
LEMMA HoldsIs ==
    ASSUME IInv, stack # <<>>, NEW items \in Seq(Parameters),
           TabSays(msg, Top.kind, Top.tab, items, Len(items)),
           NEW g, g.tag \in 0 .. Schema[Top.kind].max - 1
    PROVE  /\ Slice(msg, PosOf(g.tag), PosOf(g.tag) + LenOf(g.tag)) = Last(items, g.tag)
           /\ Holds(g) <=> Meets(items, g)
<1> DEFINE t == g.tag
           v == Slice(msg, PosOf(t), PosOf(t) + LenOf(t))
<1>1. /\ v = At(msg, Top.tab, t) /\ v \in Seq(Byte) /\ Len(v) = LenOf(t)
      /\ LenOf(t) > 0 => v[1] = msg[PosOf(t) + 1]
  BY GivenIs
<1> HIDE DEF v
<1>2. v = LastTo(items, Len(items), t)
  BY <1>1 DEF TabSays
<1>3. DOMAIN items = 1 .. Len(items)
  OBVIOUS
<1>4. v = Last(items, t)
  <2> DEFINE all == {i \in DOMAIN items : items[i].tag = t}
             to == {i \in 1 .. Len(items) : items[i].tag = t}
  <2>1. all = to
    BY <1>3
  <2>2. Last(items, t) = IF all = {} THEN <<>>
                         ELSE items[CHOOSE i \in all : \A h \in all : h <= i].val
    BY Zenon DEF Last
  <2>3. v = IF to = {} THEN <<>> ELSE items[CHOOSE i \in to : \A h \in to : h <= i].val
    BY <1>2, Zenon DEF LastTo
  <2> HIDE DEF all, to
  <2> QED
    BY <2>1, <2>2, <2>3, Zenon
<1>5. v # <<>> <=> LenOf(t) > 0
  <2>1. Len(v) \in Nat /\ (v = <<>> <=> Len(v) = 0)
    BY <1>1, EmptySeq
  <2> QED
    BY <1>1, <2>1
<1> DEFINE A == LenOf(t) \in g.lens
           B == LenOf(t) > 0 => msg[PosOf(t) + 1] \in g.bytes
           C == v # <<>> => v[1] \in g.bytes
<1>6. B <=> C
  BY <1>1, <1>5, Zenon
<1>7. Holds(g) <=> ((g.yes = 1) = (A /\ B))
  BY Zenon DEF Holds
<1>8. Meets(items, g) <=> ((g.yes = 1) = (A /\ C))
  BY <1>1, <1>4, Zenon DEF Meets
<1> HIDE DEF A, B, C
<1>9. Holds(g) <=> Meets(items, g)
  BY <1>6, <1>7, <1>8
<1> QED
  BY <1>4, <1>9 DEF v

(* A field is wanted if the list of parameters says so. *)
LEMMA WantedIs ==
    ASSUME IInv, Taking, NEW items \in Seq(Parameters),
           TabSays(msg, Top.kind, Top.tab, items, Len(items))
    PROVE  LET v == Slice(msg, PosOf(FieldNow.tag), PosOf(FieldNow.tag) + LenOf(FieldNow.tag))
           IN  FieldOf(Decode, items, FieldNow) = IF Wanted THEN Entry(Decode, FieldNow, v) ELSE <<>>
<1> DEFINE f == FieldNow
<1>1. f \in Fields(Top.kind) /\ Top.kind \in Kinds
  BY FieldFacts
<1>2. stack # <<>>
  BY DEF Taking
<1>3. f.tag \in 0 .. Schema[Top.kind].max - 1
  <2>1. f.tag \in TagsIn(f)
    BY DEF TagsIn
  <2> QED
    BY <1>1, <2>1, ReferenceAssumption
<1>4. ASSUME NEW j \in DOMAIN f.when PROVE Holds(f.when[j]) <=> Meets(items, f.when[j])
  <2>1. f.when[j].tag \in TagsIn(f)
    BY DEF TagsIn
  <2>2. f.when[j].tag \in 0 .. Schema[Top.kind].max - 1
    BY <1>1, <2>1, ReferenceAssumption
  <2> QED
    BY <1>2, <2>2, HoldsIs
<1>5. Slice(msg, PosOf(f.tag), PosOf(f.tag) + LenOf(f.tag)) = Last(items, f.tag)
  BY <1>2, <1>3, HoldsIs
<1>6. Wanted <=> \A j \in DOMAIN f.when : Meets(items, f.when[j])
  BY <1>4, Zenon DEF Wanted
<1> QED
  BY <1>5, <1>6, Zenon DEF FieldOf

(* Parse notes a parameter: the table says one more. *)
LEMMA NotedSays ==
    ASSUME NEW m, NEW k, NEW tab, NEW items, NEW j \in Nat, TabSays(m, k, tab, items, j),
           NEW t \in Nat, NEW p, NEW l, Schema[k].max \in Nat,
           items[j + 1].tag = t, items[j + 1].val = Slice(m, p, p + l)
    PROVE  TabSays(m, k, IF t < Schema[k].max THEN Noted(tab, t, p, l) ELSE tab, items, j + 1)
<1> DEFINE new == IF t < Schema[k].max THEN Noted(tab, t, p, l) ELSE tab
<1> SUFFICES ASSUME NEW u \in 0 .. Schema[k].max - 1
             PROVE  At(m, new, u) = LastTo(items, j + 1, u)
  BY DEF TabSays
<1>1. At(m, tab, u) = LastTo(items, j, u)
  BY DEF TabSays
<1>2. LastTo(items, j + 1, u) = IF t = u THEN Slice(m, p, p + l) ELSE LastTo(items, j, u)
  BY LastToMore
<1>3. CASE t = u
  <2>1. t < Schema[k].max
    BY <1>3
  <2>2. new = Noted(tab, t, p, l)
    BY <2>1
  <2>3. u \in DOMAIN tab \cup {t}
    BY <1>3
  <2> HIDE DEF new
  <2>4. u \in DOMAIN new /\ new[u] = [pos |-> p, len |-> l]
    BY <1>3, <2>2, <2>3 DEF Noted
  <2>5. At(m, new, u) = Slice(m, p, p + l)
    BY <2>4 DEF At
  <2> QED
    BY <1>2, <1>3, <2>5
<1>4. CASE t # u
  <2>1. CASE t < Schema[k].max
    <3>1. new = Noted(tab, t, p, l)
      BY <2>1
    <3>2. /\ u \in DOMAIN new <=> u \in DOMAIN tab
          /\ u \in DOMAIN new => new[u] = tab[u]
      BY <1>4, <3>1 DEF Noted
    <3> HIDE DEF new
    <3>3. At(m, new, u) = At(m, tab, u)
      BY <3>2, Zenon DEF At
    <3> QED
      BY <1>1, <1>2, <1>4, <3>3
  <2>2. CASE ~(t < Schema[k].max)
    BY <1>1, <1>2, <1>4, <2>2
  <2> QED
    BY <2>1, <2>2
<1> QED
  BY <1>3, <1>4

-----------------------------------------------------------------------------
(* The stack, midway *)

(* What is owed to the callers depends on where they were called from, and *)
(* that does not change.                                                   *)
SameCallers(s, b, r, c, n) ==
    /\ n \in 1 .. Len(s) /\ Len(r) \in Nat /\ n <= Len(r)
    /\ \A i \in 1 .. n : c[i] = b[i] /\ (i # n => r[i] = s[i])
    /\ r[n].kind = s[n].kind /\ r[n].to = s[n].to /\ r[n].end = s[n].end

CallersRight(m, s, b, n) ==
    /\ b[1] = 0 /\ s[1].end = Len(m)
    /\ \A i \in 1 .. n : i # n => Midway(m, s[i], b[i], Owed(m, s, b, i))

LEMMA SameBelow ==
    ASSUME NEW m, NEW s, NEW b, RightBy(m, s, b), NEW n, Len(s) \in Nat,
           NEW r, NEW c, SameCallers(s, b, r, c, n)
    PROVE  CallersRight(m, r, c, n)
<1> USE DEF SameCallers
<1>1. b[1] = 0 /\ s[1].end = Len(m)
  <2>1. s # <<>>
    OBVIOUS
  <2> QED
    BY <2>1 DEF RightBy
<1>2. 1 \in 1 .. n
  OBVIOUS
<1>3. c[1] = 0 /\ r[1].end = Len(m)
  BY <1>1, <1>2
<1>4. ASSUME NEW i \in 1 .. n, i # n
      PROVE  Midway(m, r[i], c[i], Owed(m, r, c, i))
  <2>1. i \in 1 .. Len(s) /\ i # Len(s) /\ i # Len(r) /\ i + 1 \in 1 .. n
    BY <1>4
  <2>2. r[i] = s[i] /\ c[i] = b[i] /\ c[i + 1] = b[i + 1]
    BY <1>4, <2>1
  <2>3. r[i + 1].to = s[i + 1].to /\ r[i + 1].kind = s[i + 1].kind /\ r[i + 1].end = s[i + 1].end
    <3>1. CASE i + 1 = n
      BY <3>1, Zenon
    <3>2. CASE i + 1 # n
      BY <2>1, <3>2
    <3> QED
      BY <3>1, <3>2
  <2>4. Owed(m, r, c, i) = Owed(m, s, b, i)
    BY <2>1, <2>2, <2>3, Zenon DEF Owed
  <2>5. Midway(m, s[i], b[i], Owed(m, s, b, i))
    BY <2>1, Zenon DEF RightBy
  <2> QED
    BY <2>2, <2>4, <2>5, Zenon
<1> QED
  BY <1>3, <1>4, Zenon DEF CallersRight

(* The innermost function goes on. *)
LEMMA ReplaceRight ==
    ASSUME NEW m, NEW s, StackOK(m, s), s # <<>>, NEW b, RightBy(m, s, b),
           NEW f, Midway(m, f, b[Len(s)], <<>>),
           f.kind = s[Len(s)].kind, f.to = s[Len(s)].to, f.end = s[Len(s)].end
    PROVE  RightBy(m, [s EXCEPT ![Len(s)] = f], b)
<1> DEFINE r == [s EXCEPT ![Len(s)] = f]
           n == Len(s)
<1>1. PICK S : s \in Seq(S)
  BY DEF StackOK, IsSeq
<1>2. n \in Nat /\ n \in 1 .. n /\ DOMAIN s = 1 .. n
  BY <1>1
<1>3. Len(r) = n
  BY <1>2
<1>4. \A i \in 1 .. n : r[i] = IF i = n THEN f ELSE s[i]
  BY <1>2
<1> HIDE DEF r, n
<1>5. r[n] = f
  BY <1>2, <1>4
<1>6. \A i \in 1 .. n : b[i] = b[i] /\ (i # n => r[i] = s[i])
  BY <1>4
<1>7. CallersRight(m, r, b, n)
  <2>1. n = Len(s) /\ n <= n /\ n <= Len(r)
    BY <1>2, <1>3 DEF n
  <2>2. r[n].kind = s[n].kind /\ r[n].to = s[n].to /\ r[n].end = s[n].end
    BY <1>5, <2>1, Zenon
  <2>3. SameCallers(s, b, r, b, n) /\ Len(s) \in Nat
    BY <1>2, <1>3, <1>6, <2>1, <2>2 DEF SameCallers
  <2> QED
    BY <2>3, SameBelow
<1>8. Midway(m, r[n], b[n], Owed(m, r, b, n))
  BY <1>3, <1>5 DEF Owed, n
<1>9. \A i \in 1 .. Len(r) : Midway(m, r[i], b[i], Owed(m, r, b, i))
  BY <1>3, <1>7, <1>8, Zenon DEF CallersRight
<1> QED
  BY <1>7, <1>9, Zenon DEF RightBy, CallersRight, r

(* The innermost function goes on, and owes what it calls another for. *)
LEMMA PushRight ==
    ASSUME NEW m, NEW s, StackOK(m, s), s # <<>>, NEW b, RightBy(m, s, b),
           NEW f, NEW g, NEW p, Midway(m, g, p, <<>>),
           Midway(m, f, b[Len(s)],
                  << [to |-> g.to, v |-> Decode[g.kind][Slice(m, p, g.end)]] >>),
           f.kind = s[Len(s)].kind, f.to = s[Len(s)].to, f.end = s[Len(s)].end
    PROVE  \E c : RightBy(m, Append([s EXCEPT ![Len(s)] = f], g), c)
<1> DEFINE t == [s EXCEPT ![Len(s)] = f]
           r == Append(t, g)
           n == Len(s)
           c == [i \in 1 .. n + 1 |-> IF i = n + 1 THEN p ELSE b[i]]
<1>1. PICK S : s \in Seq(S)
  BY DEF StackOK, IsSeq
<1>2. n \in Nat /\ n \in 1 .. n /\ DOMAIN s = 1 .. n /\ n + 1 # n
  BY <1>1
<1>3. \A i \in 1 .. n : t[i] = IF i = n THEN f ELSE s[i]
  BY <1>2
<1> DEFINE T == S \cup {f, g}
<1>4. Len(t) = n /\ t \in Seq(T) /\ g \in T
  <2>1. S \subseteq T /\ f \in T /\ g \in T
    OBVIOUS
  <2> HIDE DEF T
  <2>2. s \in Seq(T)
    BY <1>1, <2>1
  <2>3. n \in 1 .. Len(s)
    BY <1>2
  <2>4. t \in Seq(T) /\ Len(t) = Len(s)
    BY <2>1, <2>2, <2>3, ExceptSeq
  <2> QED
    BY <2>1, <2>4
<1> HIDE DEF t, T
<1>5. /\ Len(r) = n + 1 /\ r[n + 1] = g
      /\ \A i \in 1 .. n : r[i] = t[i]
  BY <1>4, AppendProperties
<1> HIDE DEF r
<1>6. r[n] = f /\ \A i \in 1 .. n : i # n => r[i] = s[i]
  <2> HIDE DEF n, c
  <2>1. r[n] = t[n] /\ t[n] = f
    BY <1>2, <1>3, <1>5
  <2>2. ASSUME NEW i \in 1 .. n, i # n PROVE r[i] = s[i]
    BY <1>3, <1>5, <2>2
  <2> QED
    BY <2>1, <2>2
<1>7. c[n + 1] = p /\ \A i \in 1 .. n : c[i] = b[i]
  <2> HIDE DEF n
  <2>1. n + 1 \in 1 .. n + 1 /\ \A i \in 1 .. n : i \in 1 .. n + 1 /\ i # n + 1
    BY <1>2
  <2> QED
    BY <2>1
<1> HIDE DEF c, n
<1>8. CallersRight(m, r, c, n)
  <2>1. Len(s) \in Nat /\ n \in 1 .. Len(s) /\ Len(r) \in Nat /\ n <= Len(r)
    <3>1. Len(s) = n
      BY DEF n
    <3> QED
      BY <1>2, <1>5, <3>1
  <2>2. r[n].kind = s[n].kind /\ r[n].to = s[n].to /\ r[n].end = s[n].end
    BY <1>6, Zenon DEF n
  <2>3. \A i \in 1 .. n : c[i] = b[i] /\ (i # n => r[i] = s[i])
    BY <1>6, <1>7
  <2> QED
    BY <2>1, <2>2, <2>3, SameBelow, ZenonT(30) DEF SameCallers
<1>9. Midway(m, r[n], c[n], Owed(m, r, c, n))
  <2>1. Owed(m, r, c, n) = << [to |-> g.to, v |-> Decode[g.kind][Slice(m, p, g.end)]] >>
    BY <1>2, <1>5, <1>7, Zenon DEF Owed
  <2>2. r[n] = f /\ c[n] = b[Len(s)]
    BY <1>2, <1>6, <1>7 DEF n
  <2> QED
    BY <2>1, <2>2, Zenon
<1>10. Midway(m, r[n + 1], c[n + 1], Owed(m, r, c, n + 1))
  BY <1>5, <1>7, Zenon DEF Owed
<1>11. \A i \in 1 .. Len(r) : Midway(m, r[i], c[i], Owed(m, r, c, i))
  <2>1. \A i \in 1 .. Len(r) : i = n + 1 \/ i \in 1 .. n
    BY <1>2, <1>5
  <2> QED
    BY <1>8, <1>9, <1>10, <2>1, Zenon DEF CallersRight
<1>12. RightBy(m, r, c)
  BY <1>8, <1>11, Zenon DEF RightBy, CallersRight
<1> QED
  BY <1>12 DEF r, t

(* What a function was owed has been given to it. *)
LEMMA Delivered ==
    ASSUME NEW m, NEW f, FrameOK(m, f), NEW b, NEW x, Midway(m, f, b, << x >>)
    PROVE  Midway(m, [f EXCEPT !.val = Append(f.val, x)], b, <<>>)
<1> DEFINE v == Append(f.val, x)
           g == [f EXCEPT !.val = v]
<1>1. b \in Nat /\ b <= f.pos /\ IsSeq(f.val)
  BY DEF Midway
<1>2. IsSeq(v) /\ v \o <<>> = v /\ f.val \o << x >> = v
  <2>1. IsSeq(v) /\ f.val \o << x >> = v
    BY <1>1, Anything
  <2> HIDE DEF v
  <2> QED
    BY <2>1, Anything
<1> HIDE DEF v
<1>3. /\ g.kind = f.kind /\ g.pos = f.pos /\ g.end = f.end
      /\ g.tab = f.tab /\ g.at = f.at /\ g.val = v
  BY DEF FrameOK, IsFrame, FrameFields
<1> HIDE DEF g
<1>4. Whole(m, g, b) = Whole(m, f, b)
  BY <1>3, Zenon DEF Whole
<1>5. \A j : WalkIsAt(m, f, b, j) <=> WalkIsAt(m, g, b, j)
  BY <1>3, <1>4, Zenon DEF WalkIsAt
<1>6. ~InParse(m, f, b, << x >>)
  BY DEF InParse
<1>7. InFields(m, f, b, << x >>) => InFields(m, g, b, <<>>)
  BY <1>2, <1>3, <1>4, Zenon DEF InFields
<1>8. InList(m, f, b, << x >>) => InList(m, g, b, <<>>)
  BY <1>2, <1>3, <1>4, <1>5, Zenon DEF InList
<1>9. Midway(m, g, b, <<>>)
  BY <1>1, <1>2, <1>3, <1>6, <1>7, <1>8, Zenon DEF Midway
<1> QED
  BY <1>9 DEF g, v

(* The innermost function returns all that it should make. *)
LEMMA PopRight ==
    ASSUME NEW m, NEW s, StackOK(m, s), Len(s) > 1, NEW b, RightBy(m, s, b),
           NEW f, f = s[Len(s)],
           f.val = Decode[f.kind][Slice(m, b[Len(s)], f.end)]
    PROVE  RightBy(m, [SubSeq(s, 1, Len(s) - 1) EXCEPT
                          ![Len(s) - 1].val = Append(@, [to |-> f.to, v |-> f.val])], b)
<1> DEFINE n == Len(s) - 1
           t == SubSeq(s, 1, n)
           x == [to |-> f.to, v |-> f.val]
           g == [t[n] EXCEPT !.val = Append(t[n].val, x)]
           r == [t EXCEPT ![n] = g]
<1>1. PICK S : s \in Seq(S)
  BY DEF StackOK, IsSeq
<1>2. n \in Nat /\ n \in 1 .. n /\ n \in 1 .. Len(s) /\ n # Len(s) /\ n + 1 = Len(s) /\ Len(s) \in Nat
  BY <1>1
<1>3. t \in Seq(S) /\ Len(t) = n /\ DOMAIN t = 1 .. n /\ \A i \in 1 .. n : t[i] = s[i]
  <2> HIDE DEF n
  <2>1. \A i \in 1 .. n : i \in 1 .. Len(s) /\ s[i] \in S
    BY <1>1, <1>2
  <2>2. /\ t \in Seq(S)
        /\ Len(t) = IF 1 <= n THEN n - 1 + 1 ELSE 0
        /\ \A i \in 1 .. n - 1 + 1 : t[i] = s[1 + i - 1]
    BY <1>1, <1>2, <2>1, SubSeqProperties
  <2> HIDE DEF t
  <2>3. Len(t) = n /\ \A i \in 1 .. n : t[i] = s[i]
    BY <1>2, <2>2
  <2> QED
    BY <2>2, <2>3
<1> HIDE DEF t, n, x
<1>4. Len(r) = n
  <2> HIDE DEF g
  <2> QED
    BY <1>2, <1>3
<1>5. \A i \in 1 .. n : r[i] = IF i = n THEN g ELSE s[i]
  <2> HIDE DEF g
  <2> QED
    BY <1>3
<1>6. t[n] = s[n]
  BY <1>2, <1>3
<1>7. FrameOK(m, s[n])
  BY <1>2 DEF StackOK
<1>8. Midway(m, s[n], b[n], << x >>)
  <2>1. Owed(m, s, b, n) = << [to |-> s[n + 1].to,
                               v |-> Decode[s[n + 1].kind][Slice(m, b[n + 1], s[n + 1].end)]] >>
    BY <1>2, Zenon DEF Owed
  <2>2. Owed(m, s, b, n) = << x >>
    BY <1>2, <2>1, Zenon DEF x
  <2> QED
    BY <1>2, <2>2 DEF RightBy
<1>9. Midway(m, g, b[n], <<>>)
  BY <1>6, <1>7, <1>8, Delivered
<1>10. g.kind = s[n].kind /\ g.to = s[n].to /\ g.end = s[n].end
  <2> DEFINE y == Append(t[n].val, x)
  <2> HIDE DEF y
  <2> QED
    BY <1>6, <1>7 DEF FrameOK, IsFrame, FrameFields
<1>11. r = [SubSeq(s, 1, Len(s) - 1) EXCEPT
               ![Len(s) - 1].val = Append(@, [to |-> f.to, v |-> f.val])]
  BY DEF t, n, x
<1> HIDE DEF r, g
<1>12. r[n] = g /\ \A i \in 1 .. n : b[i] = b[i] /\ (i # n => r[i] = s[i])
  BY <1>2, <1>5
<1>13. CallersRight(m, r, b, n)
  <2>1. r[n].kind = s[n].kind /\ r[n].to = s[n].to /\ r[n].end = s[n].end
    BY <1>10, <1>12, Zenon
  <2>2. Len(r) \in Nat /\ n <= Len(r)
    BY <1>2, <1>4
  <2> QED
    BY <1>2, <1>12, <2>1, <2>2, SameBelow, Zenon DEF SameCallers
<1>14. Midway(m, r[n], b[n], Owed(m, r, b, n))
  BY <1>4, <1>9, <1>12, Zenon DEF Owed
<1>15. \A i \in 1 .. Len(r) : Midway(m, r[i], b[i], Owed(m, r, b, i))
  BY <1>4, <1>13, <1>14, Zenon DEF CallersRight
<1>16. RightBy(m, r, b)
  BY <1>13, <1>15, Zenon DEF RightBy, CallersRight
<1> QED
  BY <1>11, <1>16

-----------------------------------------------------------------------------
(* The actions once more, now for what they make                           *)

MidwayAll(m, s) == \E b : RightBy(m, s, b)

(* The innermost function, which nobody owes anything. *)
LEMMA TopMidway ==
    ASSUME IInv, stack # <<>>, NEW b, RightBy(msg, stack, b)
    PROVE  LET c == b[Len(stack)]
           IN  /\ Midway(msg, Top, c, <<>>)
               /\ c \in Nat /\ c <= Top.pos /\ IsSeq(Top.val) /\ Top.val \o <<>> = Top.val
               /\ Top.kind \in Kinds /\ FrameOK(msg, Top)
               /\ Whole(msg, Top, c) \in Seq(Parameters) /\ Len(Whole(msg, Top, c)) \in Nat
<1> DEFINE n == Len(stack)
           c == b[n]
<1>1. n \in Nat /\ n > 0 /\ FrameOK(msg, Top) /\ msg \in Seq(Byte)
  BY TopOK DEF IInv
<1>2. n \in 1 .. n
  BY <1>1
<1>3. Owed(msg, stack, b, n) = <<>>
  BY DEF Owed
<1>4. Midway(msg, Top, c, <<>>)
  <2> HIDE DEF n
  <2>1. Midway(msg, stack[n], b[n], Owed(msg, stack, b, n))
    BY <1>2 DEF RightBy, n
  <2> QED
    BY <1>3, <2>1, Zenon DEF Top, n
<1> HIDE DEF c
<1>5. c \in Nat /\ c <= Top.pos /\ IsSeq(Top.val)
  BY <1>4, Zenon DEF Midway
<1>6. Top.val \o <<>> = Top.val
  BY <1>5, Anything
<1>7. Whole(msg, Top, c) \in Seq(Parameters) /\ Len(Whole(msg, Top, c)) \in Nat
  BY <1>1, <1>5, BytesOf
<1>8. Top.kind \in Kinds
  BY <1>1 DEF FrameOK
<1> QED
  BY <1>1, <1>4, <1>5, <1>6, <1>7, <1>8 DEF c

(* Which of the three the innermost function is in. *)
LEMMA WhichMidway ==
    ASSUME IInv, NEW c, Midway(msg, Top, c, <<>>)
    PROVE  /\ Walking("table") => InParse(msg, Top, c, <<>>)
           /\ Walking("list") => InList(msg, Top, c, <<>>)
           /\ Taking => InFields(msg, Top, c, <<>>)
           /\ stack # <<>> /\ Kind.form = "table" /\ Top.at > Len(Kind.fields)
                => InFields(msg, Top, c, <<>>)
<1>1. ASSUME stack # <<>>
      PROVE  /\ Len(Kind.fields) \in Nat /\ DOMAIN Kind.fields = 1 .. Len(Kind.fields)
             /\ Top.kind \in Kinds
  <2>1. Top.kind \in Kinds
    BY <1>1, TopOK DEF FrameOK
  <2> QED
    BY <2>1, Lists DEF Kind
<1>2. InParse(msg, Top, c, <<>>) => Kind.form = "table" /\ Top.at = 0
  BY DEF InParse, Kind
<1>3. InFields(msg, Top, c, <<>>) => Kind.form = "table" /\ Top.at \in 1 .. Len(Kind.fields) + 1
  BY DEF InFields, Kind
<1>4. InList(msg, Top, c, <<>>) => Kind.form # "table" /\ Top.at = 0
  BY DEF InList, Kind
<1>5. InParse(msg, Top, c, <<>>) \/ InFields(msg, Top, c, <<>>) \/ InList(msg, Top, c, <<>>)
  BY Zenon DEF Midway
<1>6. Walking("table") => InParse(msg, Top, c, <<>>)
  BY <1>1, <1>3, <1>4, <1>5 DEF Walking
<1>7. Walking("list") => InList(msg, Top, c, <<>>)
  BY <1>2, <1>3, <1>5 DEF Walking
<1>8. Taking => InFields(msg, Top, c, <<>>)
  BY <1>1, <1>2, <1>4, <1>5 DEF Taking
<1>9. stack # <<>> /\ Kind.form = "table" /\ Top.at > Len(Kind.fields)
        => InFields(msg, Top, c, <<>>)
  BY <1>1, <1>2, <1>4, <1>5
<1> QED
  BY <1>6, <1>7, <1>8, <1>9

(* A step that only moves the innermost function on. *)
LEMMA SetTopRight ==
    ASSUME IInv, stack # <<>>, NEW b, RightBy(msg, stack, b),
           NEW f, Midway(msg, f, b[Len(stack)], <<>>),
           f.kind = Top.kind, f.to = Top.to, f.end = Top.end, SetTop(f)
    PROVE  MidwayAll(msg, stack')
<1>1. StackOK(msg, stack)
  BY DEF IInv
<1>2. RightBy(msg, [stack EXCEPT ![Len(stack)] = f], b)
  BY <1>1, ReplaceRight DEF Top
<1> QED
  BY <1>2, Zenon DEF MidwayAll, SetTop

(* A step that calls another function on a part of what it walks over. *)
LEMMA EnterRight ==
    ASSUME IInv, stack # <<>>, NEW b, RightBy(msg, stack, b),
           NEW f, NEW k \in Kinds, NEW to, NEW p \in Nat, NEW e \in Nat, p <= e, e <= Len(msg),
           Midway(msg, f, b[Len(stack)], << [to |-> to, v |-> Decode[k][Slice(msg, p, e)]] >>),
           f.kind = Top.kind, f.to = Top.to, f.end = Top.end,
           stack' = Append([stack EXCEPT ![Len(stack)] = f], Frame(k, to, p, e))
    PROVE  MidwayAll(msg, stack')
<1> DEFINE g == Frame(k, to, p, e)
<1>1. g.kind = k /\ g.to = to /\ g.end = e
  BY DEF Frame
<1>2. msg \in Seq(Byte) /\ StackOK(msg, stack)
  BY DEF IInv
<1>3. Midway(msg, g, p, <<>>)
  BY <1>2, NewMidway
<1>4. stack' = Append([stack EXCEPT ![Len(stack)] = f], g)
  OBVIOUS
<1> HIDE DEF g
<1>5. Midway(msg, f, b[Len(stack)], << [to |-> g.to, v |-> Decode[g.kind][Slice(msg, p, g.end)]] >>)
  BY <1>1, Zenon
<1>6. f.kind = stack[Len(stack)].kind /\ f.to = stack[Len(stack)].to /\ f.end = stack[Len(stack)].end
  BY Zenon DEF Top
<1>7. \E c : RightBy(msg, Append([stack EXCEPT ![Len(stack)] = f], g), c)
  BY <1>2, <1>3, <1>5, <1>6, PushRight
<1> QED
  BY <1>4, <1>7, Zenon DEF MidwayAll

(* A step that returns all that the innermost function should make. *)
LEMMA ReturnRight ==
    ASSUME IInv, Decoded, stack # <<>>, NEW b, RightBy(msg, stack, b),
           Top.val = Decode[Top.kind][Slice(msg, b[Len(stack)], Top.end)],
           Return, msg' = msg
    PROVE  MidwayAll(msg, stack') /\ Decoded'
<1>1. Len(stack) \in Nat /\ Len(stack) > 0
  BY TopOK
<1>2. CASE Len(stack) = 1
  <2>1. stack' = <<>> /\ out' = << "done", Top.kind, Top.val >>
    BY <1>2, Zenon DEF Return
  <2>2. b[Len(stack)] = 0 /\ Top.end = Len(msg)
    BY <1>2 DEF RightBy, Top
  <2>3. Slice(msg, 0, Len(msg)) = msg
    <3>1. msg \in Seq(Byte)
      BY DEF IInv
    <3>2. SubSeq(msg, 1, Len(msg)) = msg
      BY <3>1, SubSeqFull
    <3>3. 0 + 1 = 1
      OBVIOUS
    <3> QED
      BY <3>2, <3>3, Zenon DEF Slice
  <2>4. out'[2] = Top.kind /\ out'[3] = Top.val
    BY <2>1
  <2>5. Decoded'
    BY <2>2, <2>3, <2>4, Zenon DEF Decoded
  <2>6. RightBy(msg, <<>>, b)
    BY DEF RightBy
  <2> QED
    BY <2>1, <2>5, <2>6, Zenon DEF MidwayAll
<1>3. CASE Len(stack) # 1
  <2>1. Len(stack) > 1
    <3>1. \A n \in Nat : n > 0 /\ n # 1 => n > 1
      OBVIOUS
    <3> QED
      BY <1>1, <1>3, <3>1
  <2>2. /\ stack' = [SubSeq(stack, 1, Len(stack) - 1) EXCEPT
                        ![Len(stack) - 1].val = Append(@, [to |-> Top.to, v |-> Top.val])]
        /\ out' = out
    BY <1>3, Zenon DEF Return
  <2>3. StackOK(msg, stack) /\ Top = stack[Len(stack)]
    BY DEF IInv, Top
  <2>4. RightBy(msg, stack', b)
    BY <2>1, <2>2, <2>3, PopRight
  <2> QED
    BY <2>2, <2>4, Zenon DEF MidwayAll, Decoded
<1> QED
  BY <1>2, <1>3

(* What a rule for an item makes of the next parameter. *)
LEMMA ItemOfIs ==
    ASSUME IInv, stack # <<>>, NEW x, NEW v, x = [tag |-> pn, val |-> v], Len(v) = pl
    PROVE  ItemOf(Decode, Top.kind, x) = IF Matching = {} THEN <<>> ELSE Entry(Decode, Item, v)
<1>1. x.tag = pn /\ x.val = v
  OBVIOUS
<1>2. RulesFor(Top.kind, x) = Matching
  BY <1>1 DEF RulesFor, Matching, Kind
<1>3. Item = Schema[Top.kind].items[CHOOSE i \in Matching : TRUE]
  BY Zenon DEF Item, Kind
<1>4. ItemOf(Decode, Top.kind, x)
        = IF RulesFor(Top.kind, x) = {} THEN <<>>
          ELSE Entry(Decode, Schema[Top.kind].items[CHOOSE i \in RulesFor(Top.kind, x) : TRUE], x.val)
  BY Zenon DEF ItemOf
<1> QED
  BY <1>1, <1>2, <1>3, <1>4, Zenon

(* The frame behind the next parameter, or at the next field. *)
LEMMA BeyondIs ==
    ASSUME NEW f, FrameOK(msg, f)
    PROVE  LET g == Beyond(f)
           IN  /\ g.kind = f.kind /\ g.to = f.to /\ g.end = f.end /\ g.at = f.at
               /\ g.val = f.val /\ g.pos = f.pos + 4 + pl
<1>1. IsFrame(f)
  BY DEF FrameOK
<1> QED
  BY <1>1 DEF IsFrame, FrameFields, Beyond

LEMMA OneOnIs ==
    ASSUME NEW f, FrameOK(msg, f)
    PROVE  LET g == OneOn(f)
           IN  /\ g.kind = f.kind /\ g.to = f.to /\ g.end = f.end /\ g.at = f.at + 1
               /\ g.val = f.val /\ g.pos = f.pos /\ g.tab = f.tab
<1>1. IsFrame(f)
  BY DEF FrameOK
<1> QED
  BY <1>1 DEF IsFrame, FrameFields, OneOn

(* The frame with one more value, which is what the rule should make. *)
LEMMA KeepIs ==
    ASSUME IInv, stack # <<>>, IsSeq(Top.val), NEW r, r.n \in Nat, r.how \in Hows, r.how # "into",
           NEW p \in Nat, NEW l \in Nat, p + l <= Len(msg)
    PROVE  LET g == Keep(r, p, l)
           IN  /\ g.kind = Top.kind /\ g.to = Top.to /\ g.end = Top.end /\ g.at = Top.at
               /\ g.pos = Top.pos /\ g.tab = Top.tab /\ FrameOK(msg, g) /\ IsSeq(g.val)
               /\ g.val \o <<>> = Top.val \o Entry(Decode, r, Slice(msg, p, p + l))
<1> DEFINE v == Slice(msg, p, p + l)
           x == [to |-> r.to, v |-> Value(r, p, l)]
           u == Append(Top.val, x)
           g == [Top EXCEPT !.val = u]
<1>1. Value(r, p, l) = Made(r, v)
  BY ValueIs
<1>2. Keep(r, p, l) = g
  BY DEF Keep
<1>3. Entry(Decode, r, v) = << x >>
  <2>1. Entry(Decode, r, v) = << [to |-> r.to, v |-> Made(r, v)] >>
    BY Zenon DEF Entry
  <2> QED
    BY <1>1, <2>1, Zenon
<1> HIDE DEF v, x
<1>4. IsSeq(u) /\ u \o <<>> = u /\ u = Top.val \o << x >>
  <2>1. IsSeq(u) /\ u = Top.val \o << x >>
    BY Anything
  <2> HIDE DEF u
  <2> QED
    BY <2>1, Anything
<1> HIDE DEF u
<1>5. IsFrame(Top)
  BY TopOK DEF FrameOK
<1>6. /\ g.kind = Top.kind /\ g.to = Top.to /\ g.end = Top.end /\ g.at = Top.at
      /\ g.pos = Top.pos /\ g.tab = Top.tab /\ g.val = u
  BY <1>5 DEF IsFrame, FrameFields
<1> HIDE DEF g
<1>7. FrameOK(msg, g)
  BY <1>2, KeepOK
<1> QED
  BY <1>2, <1>3, <1>4, <1>6, <1>7 DEF v

(* A list function that has gone behind one more parameter. *)
LEMMA ListGoesOn ==
    ASSUME IInv, Walking("list"), Fits, NEW b, RightBy(msg, stack, b), NEW w,
           NEW f, f.kind = Top.kind, f.end = Top.end, f.at = Top.at, IsSeq(f.val),
           f.pos = Top.pos + 4 + pl,
           LET v == Slice(msg, Top.pos + 4, Top.pos + 4 + pl)
           IN  f.val \o w = Top.val \o (IF Matching = {} THEN <<>> ELSE Entry(Decode, Item, v))
    PROVE  Midway(msg, f, b[Len(stack)], w)
<1> DEFINE c == b[Len(stack)]
           v == Slice(msg, Top.pos + 4, Top.pos + 4 + pl)
           items == Whole(msg, Top, c)
           more == IF Matching = {} THEN <<>> ELSE Entry(Decode, Item, v)
           k == Top.kind
<1>1. stack # <<>>
  BY DEF Walking
<1>2. /\ Midway(msg, Top, c, <<>>)
      /\ c \in Nat /\ c <= Top.pos /\ Top.val \o <<>> = Top.val
      /\ k \in Kinds /\ items \in Seq(Parameters) /\ Len(items) \in Nat
  BY <1>1, TopMidway
<1>3. InList(msg, Top, c, <<>>)
  BY <1>2, WhichMidway
<1>4. PICK j : WalkIsAt(msg, Top, c, j) /\ Top.val \o <<>> = SoFar(k, items)[j]
  BY <1>3 DEF InList
<1> HIDE DEF c
<1>5. /\ j \in Nat /\ j + 1 \in 1 .. Len(items)
      /\ items[j + 1] = [tag |-> pn, val |-> v] /\ Len(v) = pl
      /\ WalkIsAt(msg, f, c, j + 1)
  BY <1>1, <1>2, <1>4, OneOnWalk
<1>6. Schema[k].form # "table"
  BY <1>3 DEF InList
<1> HIDE DEF items, k
<1>7. SoFar(k, items)[j + 1] = SoFar(k, items)[j] \o ItemOf(Decode, k, items[j + 1])
  <2>1. \A i \in 1 .. Len(items) :
           SoFar(k, items)[i] = SoFar(k, items)[i - 1] \o ItemOf(Decode, k, items[i])
    BY <1>2, <1>6, ItemByItem
  <2>2. (j + 1) - 1 = j
    BY <1>5
  <2> QED
    BY <1>5, <2>1, <2>2, Zenon
<1>8. ItemOf(Decode, k, items[j + 1]) = more
  BY <1>1, <1>5, ItemOfIs DEF k
<1> HIDE DEF v, more
<1>9. f.val \o w = SoFar(k, items)[j + 1]
  <2>1. f.val \o w = Top.val \o more
    BY DEF more, v
  <2> QED
    BY <1>2, <1>4, <1>7, <1>8, <2>1, Zenon
<1>10. Whole(msg, f, c) = items
  BY Zenon DEF Whole, items
<1>11. InList(msg, f, c, w)
  <2>1. Top.at = 0
    BY <1>3 DEF InList
  <2> QED
    BY <1>5, <1>6, <1>9, <1>10, <2>1, Zenon DEF InList, k
<1>12. c <= f.pos
  BY <1>1, <1>2, FitsFacts
<1> QED
  BY <1>2, <1>11, <1>12, Zenon DEF Midway, c

(* A table function that has gone behind one more field. *)
LEMMA FieldsGoOn ==
    ASSUME IInv, Taking, NEW b, RightBy(msg, stack, b), NEW w,
           NEW f, f.kind = Top.kind, f.end = Top.end, f.tab = Top.tab, IsSeq(f.val),
           f.pos = Top.pos, f.at = Top.at + 1,
           LET v == Slice(msg, PosOf(FieldNow.tag), PosOf(FieldNow.tag) + LenOf(FieldNow.tag))
           IN  f.val \o w = Top.val \o (IF Wanted THEN Entry(Decode, FieldNow, v) ELSE <<>>)
    PROVE  Midway(msg, f, b[Len(stack)], w)
<1> DEFINE c == b[Len(stack)]
           v == Slice(msg, PosOf(FieldNow.tag), PosOf(FieldNow.tag) + LenOf(FieldNow.tag))
           items == Whole(msg, Top, c)
           more == IF Wanted THEN Entry(Decode, FieldNow, v) ELSE <<>>
           k == Top.kind
           n == Len(Schema[k].fields)
<1>1. stack # <<>>
  BY DEF Taking
<1>2. /\ Midway(msg, Top, c, <<>>)
      /\ c \in Nat /\ c <= Top.pos /\ Top.val \o <<>> = Top.val
      /\ k \in Kinds /\ items \in Seq(Parameters) /\ Len(items) \in Nat
  BY <1>1, TopMidway
<1>3. InFields(msg, Top, c, <<>>)
  BY <1>2, WhichMidway
<1> HIDE DEF c
<1>4. /\ Schema[k].form = "table"
      /\ TabSays(msg, k, Top.tab, items, Len(items))
      /\ Top.val \o <<>> = SoFar(k, items)[Top.at - 1]
  BY <1>3, Zenon DEF InFields
<1>5. FieldOf(Decode, items, FieldNow) = more
  BY <1>2, <1>4, WantedIs
<1>6. n \in Nat /\ Top.at \in 1 .. n
  BY <1>2, Lists DEF Taking, Kind
<1>7. FieldNow = Schema[k].fields[Top.at]
  BY Zenon DEF FieldNow, Kind
<1> HIDE DEF items, v, more
<1>8. SoFar(k, items)[Top.at] = SoFar(k, items)[Top.at - 1] \o more
  <2>1. \A i \in 1 .. n : SoFar(k, items)[i] = SoFar(k, items)[i - 1]
                                      \o FieldOf(Decode, items, Schema[k].fields[i])
    BY <1>2, <1>4, FieldByField
  <2> HIDE DEF k, n
  <2> QED
    BY <1>5, <1>6, <1>7, <2>1, Zenon
<1> HIDE DEF n, k
<1>9. f.at - 1 = Top.at /\ f.at \in 1 .. n + 1
  BY <1>6
<1>10. f.val \o w = SoFar(k, items)[f.at - 1]
  <2>1. f.val \o w = Top.val \o more
    BY DEF more, v
  <2> QED
    BY <1>2, <1>4, <1>8, <1>9, <2>1, Zenon
<1>11. Whole(msg, f, c) = items
  BY Zenon DEF Whole, items
<1>12. InFields(msg, f, c, w)
  BY <1>4, <1>9, <1>10, <1>11, Zenon DEF InFields, k, n
<1> QED
  BY <1>2, <1>12, Zenon DEF Midway, c

(* ParseItem: one more parameter is noted. *)
LEMMA ParseItemRight ==
    ASSUME IInv, ParseItem, NEW b, RightBy(msg, stack, b)
    PROVE  MidwayAll(msg, stack')
<1> DEFINE new == Noted(Top.tab, pn, Top.pos + 4, pl)
           tab == IF pn < Schema[Top.kind].max THEN new ELSE Top.tab
           f == [Top EXCEPT !.pos = Top.pos + 4 + pl, !.tab = tab]
           c == b[Len(stack)]
           items == Whole(msg, Top, c)
           v == Slice(msg, Top.pos + 4, (Top.pos + 4) + pl)
<1>1. stack # <<>> /\ Fits /\ Walking("table")
  BY DEF ParseItem, Walking
<1>2. SetTop(f)
  BY DEF ParseItem, Kind
<1>3. /\ Midway(msg, Top, c, <<>>)
      /\ c \in Nat /\ c <= Top.pos /\ IsSeq(Top.val)
      /\ Top.kind \in Kinds /\ FrameOK(msg, Top)
  BY <1>1, TopMidway
<1>4. InParse(msg, Top, c, <<>>)
  BY <1>1, <1>3, WhichMidway
<1>5. PICK j : WalkIsAt(msg, Top, c, j) /\ TabSays(msg, Top.kind, Top.tab, items, j)
  BY <1>4 DEF InParse
<1> HIDE DEF c
<1>6. /\ j \in Nat /\ items[j + 1] = [tag |-> pn, val |-> v]
      /\ \A g : g.end = Top.end /\ g.pos = Top.pos + 4 + pl => WalkIsAt(msg, g, c, j + 1)
  BY <1>1, <1>3, <1>5, OneOnWalk
<1>7. pn \in Nat /\ pl \in Nat /\ Top.pos \in Nat
  BY <1>1, FitsFacts
<1>8. TabSays(msg, Top.kind, tab, items, j + 1)
  <2>1. Schema[Top.kind].max \in Nat
    BY <1>3, DecoderAssumption
  <2>2. items[j + 1].tag = pn /\ items[j + 1].val = v
    BY <1>6
  <2> DEFINE p == Top.pos + 4
  <2> HIDE DEF p, items
  <2>3. items[j + 1].val = Slice(msg, p, p + pl)
    BY <2>2 DEF p
  <2>4. TabSays(msg, Top.kind, IF pn < Schema[Top.kind].max THEN Noted(Top.tab, pn, p, pl) ELSE Top.tab,
                items, j + 1)
    BY <1>5, <1>6, <1>7, <2>1, <2>2, <2>3, NotedSays
  <2> QED
    BY <2>4 DEF p
<1> HIDE DEF tab
<1>9. /\ f.kind = Top.kind /\ f.to = Top.to /\ f.pos = Top.pos + 4 + pl /\ f.end = Top.end
      /\ f.tab = tab /\ f.at = Top.at /\ f.val = Top.val
  BY <1>3 DEF FrameOK, IsFrame, FrameFields
<1> HIDE DEF f
<1>10. WalkIsAt(msg, f, c, j + 1)
  BY <1>6, <1>9
<1>11. Whole(msg, f, c) = items
  BY <1>9, Zenon DEF Whole
<1> HIDE DEF items
<1>12. InParse(msg, f, c, <<>>)
  <2>1. /\ Schema[f.kind].form = "table" /\ f.at = 0 /\ f.val = Schema[f.kind].pre
    BY <1>4, <1>9, Zenon DEF InParse
  <2>2. TabSays(msg, f.kind, f.tab, Whole(msg, f, c), j + 1)
    BY <1>8, <1>9, <1>11, Zenon
  <2> QED
    BY <1>10, <2>1, <2>2, Zenon DEF InParse
<1>13. c <= f.pos
  BY <1>3, <1>7, <1>9
<1>14. Midway(msg, f, c, <<>>)
  BY <1>3, <1>9, <1>12, <1>13, Zenon DEF Midway
<1> QED
  BY <1>1, <1>2, <1>9, <1>14, SetTopRight DEF c

(* ParseEnd: the table says what the whole list does. *)
LEMMA ParseEndRight ==
    ASSUME IInv, ParseEnd, NEW b, RightBy(msg, stack, b)
    PROVE  MidwayAll(msg, stack')
<1> DEFINE f == [Top EXCEPT !.at = 1]
           c == b[Len(stack)]
           items == Whole(msg, Top, c)
           n == Len(Schema[Top.kind].fields)
<1>1. stack # <<>> /\ ~Fits /\ Walking("table") /\ SetTop(f)
  BY DEF ParseEnd, Walking
<1>2. /\ Midway(msg, Top, c, <<>>)
      /\ c \in Nat /\ c <= Top.pos /\ IsSeq(Top.val) /\ Top.val \o <<>> = Top.val
      /\ Top.kind \in Kinds /\ FrameOK(msg, Top)
  BY <1>1, TopMidway
<1>3. InParse(msg, Top, c, <<>>)
  BY <1>1, <1>2, WhichMidway
<1>4. PICK j : WalkIsAt(msg, Top, c, j) /\ TabSays(msg, Top.kind, Top.tab, items, j)
  BY <1>3 DEF InParse
<1> HIDE DEF c
<1>5. j = Len(items)
  BY <1>1, <1>2, <1>4, OneOnWalk
<1>6. /\ f.kind = Top.kind /\ f.to = Top.to /\ f.pos = Top.pos /\ f.end = Top.end
      /\ f.tab = Top.tab /\ f.at = 1 /\ f.val = Top.val
  BY <1>2 DEF FrameOK, IsFrame, FrameFields
<1> HIDE DEF f
<1>7. Whole(msg, f, c) = items
  BY <1>6, Zenon DEF Whole
<1> HIDE DEF items
<1>8. InFields(msg, f, c, <<>>)
  <2>1. Schema[f.kind].form = "table" /\ Top.val = Schema[f.kind].pre
    BY <1>3, <1>6, Zenon DEF InParse
  <2>2. n \in Nat /\ SoFar(Top.kind, items)[0] = Schema[Top.kind].pre
    BY <1>2, <1>6, <2>1, FieldByField
  <2> HIDE DEF n
  <2>3. f.at \in 1 .. n + 1 /\ f.at - 1 = 0
    BY <1>6, <2>2
  <2>4. f.val \o <<>> = SoFar(f.kind, items)[f.at - 1]
    BY <1>2, <1>6, <2>1, <2>2, <2>3, Zenon
  <2> QED
    BY <1>4, <1>5, <1>6, <1>7, <2>1, <2>3, <2>4, Zenon DEF InFields, n
<1>9. Midway(msg, f, c, <<>>)
  BY <1>2, <1>6, <1>8, Zenon DEF Midway
<1> QED
  BY <1>1, <1>6, <1>9, SetTopRight DEF c

(* SkipItem: no rule makes anything of the parameter. *)
LEMMA SkipItemRight ==
    ASSUME IInv, SkipItem, NEW b, RightBy(msg, stack, b)
    PROVE  MidwayAll(msg, stack')
<1> DEFINE f == Beyond(Top)
<1>1. stack # <<>> /\ Fits /\ Walking("list") /\ Matching = {} /\ SetTop(f)
  BY DEF SkipItem, Walking
<1>2. FrameOK(msg, Top) /\ IsSeq(Top.val) /\ Top.val \o <<>> = Top.val
  BY <1>1, TopMidway
<1>3. /\ f.kind = Top.kind /\ f.to = Top.to /\ f.end = Top.end /\ f.at = Top.at
      /\ f.val = Top.val /\ f.pos = Top.pos + 4 + pl
  BY <1>2, BeyondIs
<1> HIDE DEF f
<1>4. Midway(msg, f, b[Len(stack)], <<>>)
  BY <1>1, <1>2, <1>3, ListGoesOn
<1> QED
  BY <1>1, <1>3, <1>4, SetTopRight

(* KeepItem: the value is what the rule says. *)
LEMMA KeepItemRight ==
    ASSUME IInv, KeepItem, NEW b, RightBy(msg, stack, b)
    PROVE  MidwayAll(msg, stack')
<1> DEFINE p == Top.pos + 4
           g == Keep(Item, p, pl)
           f == Beyond(g)
           v == Slice(msg, p, p + pl)
<1>1. stack # <<>> /\ Fits /\ Walking("list") /\ Matching # {} /\ Item.how # "into" /\ SetTop(f)
  BY DEF KeepItem, Walking
<1>2. FrameOK(msg, Top) /\ IsSeq(Top.val)
  BY <1>1, TopMidway
<1>3. p \in Nat /\ pl \in Nat /\ p + pl <= Len(msg)
  <2>1. Len(msg) \in Nat
    BY DEF IInv
  <2> QED
    BY <1>1, <2>1, FitsFacts
<1>4. Item.n \in Nat /\ Item.how \in Hows
  BY <1>1, ItemFacts, DecoderAssumption, ReferenceAssumption
<1>5. /\ g.kind = Top.kind /\ g.to = Top.to /\ g.end = Top.end /\ g.at = Top.at
      /\ g.pos = Top.pos /\ FrameOK(msg, g) /\ IsSeq(g.val)
      /\ g.val \o <<>> = Top.val \o Entry(Decode, Item, v)
  <2> HIDE DEF p
  <2> QED
    BY <1>1, <1>2, <1>3, <1>4, KeepIs
<1> HIDE DEF g
<1>6. /\ f.kind = g.kind /\ f.to = g.to /\ f.end = g.end /\ f.at = g.at
      /\ f.val = g.val /\ f.pos = g.pos + 4 + pl
  BY <1>5, BeyondIs
<1> HIDE DEF f
<1>7. Midway(msg, f, b[Len(stack)], <<>>)
  <2>1. f.val \o <<>> = Top.val \o (IF Matching = {} THEN <<>> ELSE Entry(Decode, Item, v))
    BY <1>1, <1>5, <1>6, Zenon
  <2>2. /\ f.kind = Top.kind /\ f.end = Top.end /\ f.at = Top.at /\ IsSeq(f.val)
        /\ f.pos = Top.pos + 4 + pl
    BY <1>5, <1>6, Zenon
  <2> QED
    BY <1>1, <2>1, <2>2, ListGoesOn
<1> QED
  BY <1>1, <1>5, <1>6, <1>7, SetTopRight

(* EnterItem: the item is owed. *)
LEMMA EnterItemRight ==
    ASSUME IInv, EnterItem, NEW b, RightBy(msg, stack, b)
    PROVE  MidwayAll(msg, stack')
<1> DEFINE p == Top.pos + 4
           e == p + pl
           f == Beyond(Top)
           v == Slice(msg, p, e)
           w == << [to |-> Item.to, v |-> Decode[Item.kind][v]] >>
<1>1. /\ stack # <<>> /\ Fits /\ Walking("list") /\ Matching # {} /\ Item.how = "into"
      /\ stack' = Append([stack EXCEPT ![Len(stack)] = f], Frame(Item.kind, Item.to, p, e))
  BY DEF EnterItem, Walking
<1>2. FrameOK(msg, Top) /\ IsSeq(Top.val)
  BY <1>1, TopMidway
<1>3. p \in Nat /\ e \in Nat /\ p <= e /\ e <= Len(msg)
  <2>1. Len(msg) \in Nat
    BY DEF IInv
  <2> QED
    BY <1>1, <2>1, FitsFacts
<1>4. Item.kind \in Kinds
  BY <1>1, ItemFacts, DecoderAssumption
<1>5. Entry(Decode, Item, v) = w
  BY <1>1, Zenon DEF Entry
<1>6. /\ f.kind = Top.kind /\ f.to = Top.to /\ f.end = Top.end /\ f.at = Top.at
      /\ f.val = Top.val /\ f.pos = Top.pos + 4 + pl
  BY <1>2, BeyondIs
<1> HIDE DEF f
<1>7. Midway(msg, f, b[Len(stack)], w)
  <2>1. f.val \o w = Top.val \o (IF Matching = {} THEN <<>> ELSE Entry(Decode, Item, v))
    BY <1>1, <1>5, <1>6, Zenon
  <2> HIDE DEF w
  <2> QED
    BY <1>1, <1>2, <1>6, <2>1, ListGoesOn
<1> HIDE DEF p, e
<1> QED
  BY <1>1, <1>3, <1>4, <1>6, <1>7, EnterRight

(* ListEnd: nothing is left of the list. *)
LEMMA ListEndRight ==
    ASSUME IInv, Decoded, ListEnd, NEW b, RightBy(msg, stack, b)
    PROVE  MidwayAll(msg, stack') /\ Decoded'
<1> DEFINE c == b[Len(stack)]
           items == Whole(msg, Top, c)
<1>1. stack # <<>> /\ ~Fits /\ Walking("list") /\ Return /\ msg' = msg
  BY DEF ListEnd, Walking
<1>2. /\ Midway(msg, Top, c, <<>>)
      /\ c \in Nat /\ c <= Top.pos /\ IsSeq(Top.val) /\ FrameOK(msg, Top)
  BY <1>1, TopMidway
<1>3. InList(msg, Top, c, <<>>)
  BY <1>1, <1>2, WhichMidway
<1>4. PICK j : WalkIsAt(msg, Top, c, j) /\ Top.val \o <<>> = SoFar(Top.kind, items)[j]
  BY <1>3 DEF InList
<1> HIDE DEF c
<1>5. j = Len(items)
  BY <1>1, <1>2, <1>4, OneOnWalk
<1>6. Schema[Top.kind].form # "table"
  BY <1>3 DEF InList
<1>7. msg \in Seq(Byte)
  BY DEF IInv
<1>8. Top.val = Decode[Top.kind][Slice(msg, c, Top.end)]
  BY <1>2, <1>4, <1>5, <1>6, <1>7, AllMade
<1> QED
  BY <1>1, <1>8, ReturnRight DEF c

(* FieldsEnd: no field is left. *)
LEMMA FieldsEndRight ==
    ASSUME IInv, Decoded, FieldsEnd, NEW b, RightBy(msg, stack, b)
    PROVE  MidwayAll(msg, stack') /\ Decoded'
<1> DEFINE c == b[Len(stack)]
<1>1. /\ stack # <<>> /\ Return /\ msg' = msg
      /\ Kind.form = "table" /\ Top.at > Len(Kind.fields)
  BY DEF FieldsEnd
<1>2. /\ Midway(msg, Top, c, <<>>)
      /\ c \in Nat /\ c <= Top.pos /\ IsSeq(Top.val) /\ FrameOK(msg, Top)
  BY <1>1, TopMidway
<1>3. InFields(msg, Top, c, <<>>)
  BY <1>1, <1>2, WhichMidway
<1> HIDE DEF c
<1>4. msg \in Seq(Byte)
  BY DEF IInv
<1>5. Top.val = Decode[Top.kind][Slice(msg, c, Top.end)]
  BY <1>1, <1>2, <1>3, <1>4, AllMade DEF Kind
<1> QED
  BY <1>1, <1>5, ReturnRight DEF c

(* SkipField: the list of parameters does not meet the field's conditions. *)
LEMMA SkipFieldRight ==
    ASSUME IInv, SkipField, NEW b, RightBy(msg, stack, b)
    PROVE  MidwayAll(msg, stack')
<1> DEFINE f == OneOn(Top)
<1>1. stack # <<>> /\ Taking /\ ~Wanted /\ SetTop(f)
  BY DEF SkipField, Taking
<1>2. FrameOK(msg, Top) /\ IsSeq(Top.val) /\ Top.val \o <<>> = Top.val
  BY <1>1, TopMidway
<1>3. /\ f.kind = Top.kind /\ f.to = Top.to /\ f.end = Top.end /\ f.at = Top.at + 1
      /\ f.val = Top.val /\ f.pos = Top.pos /\ f.tab = Top.tab
  BY <1>2, OneOnIs
<1> HIDE DEF f
<1>4. Midway(msg, f, b[Len(stack)], <<>>)
  BY <1>1, <1>2, <1>3, FieldsGoOn
<1> QED
  BY <1>1, <1>3, <1>4, SetTopRight

(* TakeField: the value is what the last parameter with its tag says. *)
LEMMA TakeFieldRight ==
    ASSUME IInv, TakeField, NEW b, RightBy(msg, stack, b)
    PROVE  MidwayAll(msg, stack')
<1> DEFINE p == PosOf(FieldNow.tag)
           l == LenOf(FieldNow.tag)
           g == Keep(FieldNow, p, l)
           f == OneOn(g)
           v == Slice(msg, p, p + l)
<1>1. stack # <<>> /\ Taking /\ Wanted /\ FieldNow.how # "into" /\ SetTop(f)
  BY DEF TakeField, Taking
<1>2. FrameOK(msg, Top) /\ IsSeq(Top.val)
  BY <1>1, TopMidway
<1>3. p \in Nat /\ l \in Nat /\ p + l <= Len(msg)
  <2>1. Len(msg) \in Nat
    BY DEF IInv
  <2>2. p \in Nat /\ l \in Nat /\ p + l <= Top.end /\ Top.end \in Nat /\ Top.end <= Len(msg)
    BY <1>1, EntryInside
  <2> HIDE DEF p, l
  <2> QED
    BY <2>1, <2>2
<1>4. FieldNow.n \in Nat /\ FieldNow.how \in Hows
  BY <1>1, FieldFacts, ReferenceAssumption
<1>5. /\ g.kind = Top.kind /\ g.to = Top.to /\ g.end = Top.end /\ g.at = Top.at
      /\ g.pos = Top.pos /\ g.tab = Top.tab /\ FrameOK(msg, g) /\ IsSeq(g.val)
      /\ g.val \o <<>> = Top.val \o Entry(Decode, FieldNow, v)
  <2> HIDE DEF p, l
  <2> QED
    BY <1>1, <1>2, <1>3, <1>4, KeepIs
<1> HIDE DEF g
<1>6. /\ f.kind = g.kind /\ f.to = g.to /\ f.end = g.end /\ f.at = g.at + 1
      /\ f.val = g.val /\ f.pos = g.pos /\ f.tab = g.tab
  BY <1>5, OneOnIs
<1> HIDE DEF f
<1>7. Midway(msg, f, b[Len(stack)], <<>>)
  <2>1. f.val \o <<>> = Top.val \o (IF Wanted THEN Entry(Decode, FieldNow, v) ELSE <<>>)
    BY <1>1, <1>5, <1>6, Zenon
  <2>2. /\ f.kind = Top.kind /\ f.end = Top.end /\ f.at = Top.at + 1 /\ IsSeq(f.val)
        /\ f.pos = Top.pos /\ f.tab = Top.tab
    BY <1>5, <1>6, Zenon
  <2> QED
    BY <1>1, <2>1, <2>2, FieldsGoOn
<1> QED
  BY <1>1, <1>5, <1>6, <1>7, SetTopRight

(* EnterField: the field is owed. *)
LEMMA EnterFieldRight ==
    ASSUME IInv, EnterField, NEW b, RightBy(msg, stack, b)
    PROVE  MidwayAll(msg, stack')
<1> DEFINE p == PosOf(FieldNow.tag)
           l == LenOf(FieldNow.tag)
           e == p + l
           f == OneOn(Top)
           v == Slice(msg, p, e)
           w == << [to |-> FieldNow.to, v |-> Decode[FieldNow.kind][v]] >>
<1>1. /\ stack # <<>> /\ Taking /\ Wanted /\ FieldNow.how = "into"
      /\ stack' = Append([stack EXCEPT ![Len(stack)] = f],
                         Frame(FieldNow.kind, FieldNow.to, p, e))
  BY DEF EnterField, Taking
<1>2. FrameOK(msg, Top) /\ IsSeq(Top.val)
  BY <1>1, TopMidway
<1>3. p \in Nat /\ e \in Nat /\ p <= e /\ e <= Len(msg)
  <2>1. Len(msg) \in Nat
    BY DEF IInv
  <2>2. p \in Nat /\ l \in Nat /\ p + l <= Top.end /\ Top.end \in Nat /\ Top.end <= Len(msg)
    BY <1>1, EntryInside
  <2> HIDE DEF p, l
  <2> QED
    BY <2>1, <2>2
<1>4. FieldNow.kind \in Kinds
  BY <1>1, FieldFacts, DecoderAssumption
<1>5. Entry(Decode, FieldNow, v) = w
  BY <1>1, Zenon DEF Entry
<1>6. /\ f.kind = Top.kind /\ f.to = Top.to /\ f.end = Top.end /\ f.at = Top.at + 1
      /\ f.val = Top.val /\ f.pos = Top.pos /\ f.tab = Top.tab
  BY <1>2, OneOnIs
<1> HIDE DEF f
<1>7. Midway(msg, f, b[Len(stack)], w)
  <2>1. f.val \o w = Top.val \o (IF Wanted THEN Entry(Decode, FieldNow, v) ELSE <<>>)
    BY <1>1, <1>5, <1>6, Zenon
  <2> HIDE DEF w
  <2> QED
    BY <1>1, <1>2, <1>6, <2>1, FieldsGoOn
<1> HIDE DEF p, e
<1> QED
  BY <1>1, <1>3, <1>4, <1>6, <1>7, EnterRight

(* A handler that begins. *)
LEMMA InitRight ==
    ASSUME Init
    PROVE  Decoded /\ MidwayAll(msg, stack)
<1>1. PICK k \in Roots : /\ msg \in Messages[k]
                         /\ stack = << Frame(k, "answer", 0, Len(msg)) >>
  BY DEF Init
<1> DEFINE f == Frame(k, "answer", 0, Len(msg))
           b == [i \in {1} |-> 0]
<1>2. msg \in Seq(Byte) /\ k \in Kinds
  BY <1>1, DecoderAssumption
<1>3. Midway(msg, f, 0, <<>>)
  <2>1. Len(msg) \in Nat /\ 0 <= Len(msg)
    BY <1>2
  <2> QED
    BY <1>2, <2>1, NewMidway
<1>4. f.end = Len(msg)
  BY DEF Frame
<1> HIDE DEF f
<1>5. stack = << f >>
  BY <1>1 DEF f
<1>6. Len(stack) = 1 /\ stack[1] = f /\ b[1] = 0
  BY <1>5
<1>7. Owed(msg, stack, b, 1) = <<>>
  BY <1>6, Zenon DEF Owed
<1> HIDE DEF b
<1>8. \A i \in 1 .. Len(stack) : Midway(msg, stack[i], b[i], Owed(msg, stack, b, i))
  <2>1. \A i \in 1 .. Len(stack) : i = 1
    BY <1>6
  <2> QED
    BY <1>3, <1>6, <1>7, <2>1, Zenon
<1>9. RightBy(msg, stack, b)
  BY <1>4, <1>6, <1>8 DEF RightBy
<1>10. out[1] = "pending"
  BY DEF Init
<1> QED
  BY <1>9, <1>10 DEF Decoded, MidwayAll

(* Whatever the message and the rules, the object that a handler of        *)
(* BinStream gives to the application is what the list of the message's    *)
(* parameters says, down to every list inside it: no parameter is lost,    *)
(* taken twice or from another list by Parse, by a loop over a list, or by *)
(* the calls of one inside the other.                                      *)
THEOREM DecodesRight == Spec => []Decoded
<1> DEFINE DInv == Decoded /\ MidwayAll(msg, stack)
<1>1. Init => DInv
  BY InitRight
<1>2. IInv /\ DInv /\ [Next]_vars => DInv'
  <2> SUFFICES ASSUME IInv, DInv, [Next]_vars PROVE DInv'
    OBVIOUS
  <2>1. PICK b : RightBy(msg, stack, b)
    BY DEF MidwayAll
  <2>2. ASSUME UNCHANGED <<msg, out>>, MidwayAll(msg, stack') PROVE DInv'
    BY <2>2 DEF Decoded
  <2>3. ASSUME msg' = msg, MidwayAll(msg, stack') /\ Decoded' PROVE DInv'
    BY <2>3
  <2>4. CASE ParseItem
    BY <2>1, <2>2, <2>4, ParseItemRight DEF ParseItem
  <2>5. CASE ParseEnd
    BY <2>1, <2>2, <2>5, ParseEndRight DEF ParseEnd
  <2>6. CASE SkipItem
    BY <2>1, <2>2, <2>6, SkipItemRight DEF SkipItem
  <2>7. CASE KeepItem
    BY <2>1, <2>2, <2>7, KeepItemRight DEF KeepItem
  <2>8. CASE EnterItem
    BY <2>1, <2>2, <2>8, EnterItemRight DEF EnterItem
  <2>9. CASE ListEnd
    BY <2>1, <2>3, <2>9, ListEndRight DEF ListEnd
  <2>10. CASE SkipField
    BY <2>1, <2>2, <2>10, SkipFieldRight DEF SkipField
  <2>11. CASE TakeField
    BY <2>1, <2>2, <2>11, TakeFieldRight DEF TakeField
  <2>12. CASE ReadNull
    <3>1. msg' = msg /\ stack' = <<>> /\ out' = << "crashed", FieldNow.to >>
      BY <2>12 DEF ReadNull
    <3>2. out'[1] = "crashed"
      BY <3>1
    <3>3. RightBy(msg, stack', b)
      BY <3>1 DEF RightBy
    <3> QED
      BY <3>1, <3>2, <3>3 DEF Decoded, MidwayAll
  <2>13. CASE EnterField
    BY <2>1, <2>2, <2>13, EnterFieldRight DEF EnterField
  <2>14. CASE FieldsEnd
    BY <2>1, <2>3, <2>14, FieldsEndRight DEF FieldsEnd
  <2>15. CASE UNCHANGED vars
    BY <2>2, <2>15 DEF vars
  <2> QED
    BY <2>4, <2>5, <2>6, <2>7, <2>8, <2>9, <2>10, <2>11, <2>12, <2>13, <2>14, <2>15 DEF Next
<1> QED
  BY <1>1, <1>2, Invariance, PTL DEF Spec

=============================================================================
