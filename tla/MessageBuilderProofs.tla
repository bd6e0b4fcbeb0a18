------------------------ MODULE MessageBuilderProofs ------------------------
(***************************************************************************)
(* Theorems about MessageBuilder, for every array size, header, byte width *)
(* and nesting depth.                                                      *)
(***************************************************************************)
EXTENDS MessageBuilder, SequenceTheorems, NaturalsInduction,
        WellFoundedInduction, TLAPS

(* Both bytes of a word are bytes. *)
LEMMA WordBytes ==
    ASSUME NEW n \in 0 .. WordMax - 1
    PROVE  Word(n) \in Seq(Byte) /\ Len(Word(n)) = 2
<1>1. n % Base \in Byte
  BY BaseAssumption DEF Byte, WordMax
<1>2. n \div Base \in Byte
  BY BaseAssumption DEF Byte, WordMax
<1> QED
  BY <1>1, <1>2 DEF Word

(* What Seek, and so every Add, makes of a builder. *)
LEMMA SeekKeeps ==
    ASSUME NEW b \in Builder, NEW n \in Nat, b.l <= b.size
    PROVE  /\ Seek(b, n) \in Builder
           /\ Seek(b, n).p = b.p
           /\ Seek(b, n).size = b.size
           /\ Seek(b, n).l = IF Fits(b, n) THEN b.l + n ELSE b.l
           /\ Seek(b, n).l <= Seek(b, n).size
<1>1. b.l + n \in Nat /\ "ok" \in State /\ "error" \in State
  BY DEF Builder, State
<1>2. CASE Fits(b, n)
  <2>1. Seek(b, n) = [b EXCEPT !.l = b.l + n, !.state = "ok"]
    BY <1>2 DEF Seek
  <2>2. Seek(b, n) \in Builder
    BY <1>1, <2>1, Zenon DEF Builder
  <2>3. /\ Seek(b, n).p = b.p /\ Seek(b, n).size = b.size
        /\ Seek(b, n).l = b.l + n
    BY <2>1 DEF Builder
  <2> QED
    BY <1>2, <2>2, <2>3 DEF Fits
<1>3. CASE ~Fits(b, n)
  <2>1. Seek(b, n) = [b EXCEPT !.state = "error", !.error = TRUE]
    BY <1>3 DEF Seek
  <2>2. Seek(b, n) \in Builder
    BY <1>1, <2>1, Zenon DEF Builder
  <2>3. /\ Seek(b, n).p = b.p /\ Seek(b, n).size = b.size
        /\ Seek(b, n).l = b.l
    BY <2>1, Zenon DEF Builder
  <2> QED
    BY <1>3, <2>2, <2>3
<1> QED
  BY <1>2, <1>3

Memory == [Address -> Byte \cup {Unset}]

(* Every parameter is at least a tag and a length, in bytes. *)
LEMMA ParamBytes ==
    ASSUME NEW t \in Tags, NEW v \in Values
    PROVE  /\ wTwLV(t, v) \in Seq(Byte)
           /\ SubSeq(v, 1, Len(v) % WordMax) \in Seq(Byte)
<1>1. WordMax \in Nat /\ WordMax > 0
  BY BaseAssumption DEF WordMax
<1>2. v \in Seq(Byte) /\ t \in 0 .. WordMax - 1
  BY BuilderAssumption
<1> DEFINE len == Len(v) % WordMax
<1>3. len \in 0 .. WordMax - 1 /\ len <= Len(v)
  BY <1>1, <1>2
<1>4. SubSeq(v, 1, len) \in Seq(Byte)
  <2>1. \A i \in 1 .. len : v[i] \in Byte
    BY <1>2, <1>3
  <2> QED
    BY <1>2, <1>3, <2>1
<1>5. Word(t) \in Seq(Byte) /\ Word(len) \in Seq(Byte)
  BY <1>2, <1>3, WordBytes
<1> QED
  BY <1>4, <1>5 DEF wTwLV

(* A Store writes inside the builder's own bytes, writes all that is       *)
(* asked, and no byte of the memory goes back to being unset.              *)
LEMMA StoreWrites ==
    ASSUME NEW m \in Memory, NEW b \in Builder, NEW s \in Seq(Byte),
           b.p + b.size <= Size
    PROVE  /\ Store(m, b, s) \in Memory
           /\ \A a \in Address : m[a] \in Byte => Store(m, b, s)[a] \in Byte
           /\ Fits(b, Len(s)) =>
                  \A a \in GetPS(b) .. GetPS(b) + Len(s) - 1 :
                      a \in Address /\ Store(m, b, s)[a] \in Byte
           /\ \A a \in Address : a < GetPS(b) => Store(m, b, s)[a] = m[a]
<1> USE BuilderAssumption
<1>1. b.p \in Nat /\ b.l \in Nat /\ b.size \in Nat /\ Len(s) \in Nat
  BY DEF Builder
<1>2. CASE ~Fits(b, Len(s))
  BY <1>1, <1>2 DEF Store, GetPS
<1>3. CASE Fits(b, Len(s))
  <2>1. GetPS(b) \in Nat /\ GetPS(b) + Len(s) <= Size
    BY <1>1, <1>3 DEF Fits, GetPS
  <2> DEFINE W == Write(m, GetPS(b), s)
  <2>2. Store(m, b, s) = W
    BY <1>3 DEF Store
  <2>3. ASSUME NEW a \in Address
        PROVE  /\ a \in GetPS(b) .. GetPS(b) + Len(s) - 1 => W[a] \in Byte
               /\ a \notin GetPS(b) .. GetPS(b) + Len(s) - 1 => W[a] = m[a]
    <3>1. a \in DOMAIN m
      BY DEF Memory
    <3>2. a \in GetPS(b) .. GetPS(b) + Len(s) - 1
              => s[a - GetPS(b) + 1] \in Byte
      BY <1>1, <2>1 DEF Address
    <3> QED
      BY <3>1, <3>2 DEF Write
  <2>4. W \in [Address -> Byte \cup {Unset}]
    <3>1. DOMAIN W = Address
      BY DEF Write, Memory
    <3>2. \A a \in Address : W[a] \in Byte \cup {Unset}
      BY <2>3 DEF Memory
    <3>3. W = [x \in Address |-> W[x]]
      BY <3>1 DEF Write
    <3> QED
      BY <3>2, <3>3
  <2>5. \A a \in GetPS(b) .. GetPS(b) + Len(s) - 1 : a \in Address
    BY <1>1, <2>1 DEF Address
  <2>6. \A a \in Address : a < GetPS(b)
            => a \notin GetPS(b) .. GetPS(b) + Len(s) - 1
    BY <2>1 DEF Address
  <2> HIDE DEF W
  <2> QED
    BY <2>2, <2>3, <2>4, <2>5, <2>6 DEF Memory
<1> QED
  BY <1>2, <1>3

-----------------------------------------------------------------------------
(* The invariant that the three properties need together. *)
IInv == TypeOK /\ InBounds /\ NothingUnset

(* The message starts with its header, all of which is written. *)
LEMMA InitHolds == Init => IInv
<1> SUFFICES ASSUME Init PROVE IInv
  OBVIOUS
<1> USE BuilderAssumption
<1> DEFINE b == Over(0, Size)
           h == SetHeader(b, HeaderLen)
<1>1. b \in Builder /\ b.p = 0 /\ b.size = Size /\ b.l = 0
  <2>1. 0 \in Nat /\ Size \in Nat /\ "empty" \in State
    BY DEF State
  <2>2. b = [p |-> 0, size |-> Size, l |-> 0,
             state |-> "empty", error |-> FALSE]
    <3>1. Size # 0
      OBVIOUS
    <3> QED
      BY <3>1, Zenon DEF Over
  <2> HIDE DEF b
  <2>3. b \in Builder
    BY <2>1, <2>2, Zenon DEF Builder
  <2>4. b.p = 0 /\ b.size = Size /\ b.l = 0
    BY <2>2, Zenon
  <2> QED
    BY <2>3, <2>4
<1>2. Fits(b, HeaderLen)
  BY <1>1 DEF Fits
<1>3. h.p = 0 /\ h.size = Size /\ h.l = HeaderLen /\ h \in Builder
  <2> DEFINE k == Seek(b, HeaderLen)
  <2>1. k \in Builder /\ k.p = 0 /\ k.size = Size /\ k.l = HeaderLen
    <3>1. b.l <= b.size /\ b.l + HeaderLen = HeaderLen
      BY <1>1
    <3>2. /\ k \in Builder /\ k.p = b.p /\ k.size = b.size
          /\ k.l = IF Fits(b, HeaderLen) THEN b.l + HeaderLen ELSE b.l
      <4> HIDE DEF b
      <4> QED
        BY <1>1, <3>1, SeekKeeps
    <3> HIDE DEF b, k
    <3> QED
      BY <1>1, <1>2, <3>1, <3>2
  <2>2. h = [k EXCEPT !.state = b.state]
    BY <1>2, Zenon DEF SetHeader
  <2>3. b.state \in State
    BY <1>1, Zenon DEF Builder
  <2> HIDE DEF k, h, b
  <2> QED
    BY <2>1, <2>2, <2>3, Zenon DEF Builder
<1> HIDE DEF h, b
<1>4. stk = << h >> /\ kept = << <<>> >>
  BY DEF Init, h, b
<1>5. h \in Builder
  BY <1>3
<1>6. 0 \in Byte
  BY BaseAssumption DEF Byte
<1>7. mem = [a \in Address |-> IF a < HeaderLen THEN 0 ELSE Unset]
  BY DEF Init
<1>8. TypeOK
  <2>1. mem \in [Address -> Byte \cup {Unset}]
    BY <1>6, <1>7
  <2>2. kept \in Seq(Seq(Param)) /\ Len(kept) = 1
    <3>1. <<>> \in Seq(Param)
      OBVIOUS
    <3> QED
      BY <1>4, <3>1
  <2>3. stk \in Seq(Builder) /\ stk # <<>> /\ Len(stk) = 1
    BY <1>4, <1>5
  <2>4. sent \in BOOLEAN
    BY Zenon DEF Init
  <2>5. calls \in 0 .. MaxCalls
    BY DEF Init
  <2> QED
    BY <2>1, <2>2, <2>3, <2>4, <2>5 DEF TypeOK
<1>9. DOMAIN stk = {1} /\ Len(stk) = 1 /\ stk[1] = h
  BY <1>4
<1>10. InBounds
  BY <1>3, <1>9 DEF InBounds
<1>11. NothingUnset
  <2>1. \A a \in 0 .. HeaderLen - 1 : mem[a] = 0
    BY <1>7 DEF Address
  <2> QED
    BY <1>3, <1>6, <1>9, <2>1 DEF NothingUnset, GetPS
<1> QED
  BY <1>8, <1>10, <1>11 DEF IInv

(* Every call counts itself and leaves sent alone. *)
LEMMA CallCounts ==
    ASSUME TypeOK, Call
    PROVE  sent' \in BOOLEAN /\ calls' \in 0 .. MaxCalls
<1>1. sent' \in BOOLEAN
  BY Zenon DEF TypeOK, Call
<1>2. calls' \in 0 .. MaxCalls
  BY BuilderAssumption DEF TypeOK, Call
<1> QED
  BY <1>1, <1>2

(* AddwTwLV changes the innermost builder and writes inside it. *)
LEMMA AddHolds ==
    ASSUME IInv, NEW t \in Tags, NEW v \in Values, AddwTwLV(t, v)
    PROVE  IInv'
<1> USE BuilderAssumption
<1> DEFINE s == wTwLV(t, v)
           N == Len(stk)
           b == stk[N]
           c == Seek(b, Len(s))
           cut == SubSeq(v, 1, Len(v) % WordMax)
<1>1. s \in Seq(Byte) /\ cut \in Seq(Byte)
  BY ParamBytes
<1>2. /\ stk \in Seq(Builder) /\ N \in Nat /\ N > 0 /\ N \in DOMAIN stk
      /\ DOMAIN stk = 1 .. N
  BY DEF IInv, TypeOK
<1>3. b \in Builder /\ b.l <= b.size /\ b.p + b.size <= Size
  BY <1>2 DEF IInv, InBounds
<1>4. mem \in Memory
  BY DEF IInv, TypeOK, Memory
<1> HIDE DEF s, cut
<1> HIDE DEF b
<1>5. /\ c \in Builder /\ c.p = b.p /\ c.size = b.size
      /\ c.l = (IF Fits(b, Len(s)) THEN b.l + Len(s) ELSE b.l)
      /\ c.l <= c.size
  BY <1>1, <1>3, SeekKeeps
<1>6. mem' = Store(mem, b, s)
  BY DEF AddwTwLV, s, b, Top
<1>7. stk' = [stk EXCEPT ![N] = c]
  BY DEF AddwTwLV, s, b, Top
<1> HIDE DEF c
<1>8. /\ stk' \in Seq(Builder) /\ Len(stk') = Len(stk) /\ DOMAIN stk' = 1 .. N
      /\ stk'[N] = c
      /\ \A i \in 1 .. N : i # N => stk'[i] = stk[i]
  <2>1. N \in 1 .. Len(stk)
    BY <1>2
  <2>2. /\ stk' \in Seq(Builder) /\ Len(stk') = Len(stk)
        /\ \A j \in 1 .. Len(stk) : stk'[j] = IF j = N THEN c ELSE stk[j]
    BY <1>2, <1>5, <1>7, <2>1, ExceptSeq, Zenon
  <2>3. DOMAIN stk' = 1 .. Len(stk')
    BY <2>2
  <2> QED
    BY <2>1, <2>2, <2>3
<1>9. /\ mem' \in Memory
      /\ \A a \in Address : mem[a] \in Byte => mem'[a] \in Byte
      /\ Fits(b, Len(s)) => \A a \in GetPS(b) .. GetPS(b) + Len(s) - 1 :
                                 mem'[a] \in Byte
  BY <1>1, <1>3, <1>4, <1>6, StoreWrites
<1>10. \A i \in 1 .. N : stk'[i].p = stk[i].p /\ stk'[i].size = stk[i].size
  BY <1>5, <1>8, Zenon DEF b
<1>11. TypeOK'
  <2>1. kept' \in Seq(Seq(Param)) /\ Len(kept') = Len(kept)
    <3>1. [tag |-> t, val |-> cut] \in Param
      BY <1>1 DEF Param
    <3>2. kept \in Seq(Seq(Param)) /\ N \in 1 .. Len(kept)
      BY <1>2 DEF IInv, TypeOK
    <3>3. Append(kept[N], [tag |-> t, val |-> cut]) \in Seq(Param)
      BY <3>1, <3>2
    <3>4. \/ kept' = kept
          \/ kept' = [kept EXCEPT ![N] =
                          Append(@, [tag |-> t, val |-> cut])]
      BY DEF AddwTwLV, cut, Top
    <3> QED
      <4> DEFINE more == Append(kept[N], [tag |-> t, val |-> cut])
      <4>1. kept' = kept \/ kept' = [kept EXCEPT ![N] = more]
        BY <3>4
      <4>2. more \in Seq(Param)
        BY <3>3
      <4> HIDE DEF more
      <4>3. /\ [kept EXCEPT ![N] = more] \in Seq(Seq(Param))
            /\ Len([kept EXCEPT ![N] = more]) = Len(kept)
        BY <3>2, <4>2, ExceptSeq
      <4> QED
        BY <3>2, <4>1, <4>3, Zenon
  <2>2. sent' \in BOOLEAN /\ calls' \in 0 .. MaxCalls
    BY CallCounts DEF IInv, AddwTwLV
  <2>3. stk' # <<>>
    <3>1. stk' \in Seq(Builder) /\ Len(stk') > 0
      BY <1>2, <1>8, Zenon
    <3> QED
      BY <3>1
  <2> QED
    BY <1>8, <1>9, <2>1, <2>2, <2>3 DEF TypeOK, IInv, Memory
<1>12. InBounds'
  <2>1. ASSUME NEW i \in DOMAIN stk'
        PROVE  stk'[i].l <= stk'[i].size /\ stk'[i].p + stk'[i].size <= Size
    BY <1>2, <1>3, <1>5, <1>8 DEF IInv, InBounds
  <2>2. ASSUME NEW i \in 1 .. Len(stk') - 1
        PROVE  \/ stk'[i + 1].size = 0 /\ EmptySize(stk'[i]) <= 4
               \/ /\ stk'[i + 1].p = GetPS(stk'[i]) + 4
                  /\ stk'[i + 1].p + stk'[i + 1].size
                        = stk'[i].p + stk'[i].size
    <3>1. /\ i \in 1 .. Len(stk) - 1 /\ i \in 1 .. N /\ i + 1 \in 1 .. N
          /\ i # N
      <4>1. Len(stk') = N
        BY <1>8, Zenon
      <4>2. N \in Nat
        BY <1>2
      <4> QED
        BY <4>1, <4>2
    <3>2. stk'[i] = stk[i]
      BY <1>8, <3>1
    <3>3. stk'[i + 1].p = stk[i + 1].p /\ stk'[i + 1].size = stk[i + 1].size
      BY <1>10, <3>1
    <3> QED
      BY <3>1, <3>2, <3>3 DEF IInv, InBounds
  <2> QED
    BY <2>1, <2>2 DEF InBounds
<1>13. NothingUnset'
  <2>1. ASSUME NEW i \in DOMAIN stk', NEW a \in stk'[i].p .. GetPS(stk'[i]) - 1
        PROVE  mem'[a] \in Byte
    <3>0. i \in 1 .. N
      BY <1>8
    <3>1. CASE a \in stk[i].p .. GetPS(stk[i]) - 1
      <4>1. mem[a] \in Byte
        BY <1>2, <3>0, <3>1 DEF IInv, NothingUnset
      <4>2. a \in Address
        <5>1. /\ stk[i] \in Builder /\ stk[i].l <= stk[i].size
              /\ stk[i].p + stk[i].size <= Size
          BY <1>2, <3>0 DEF IInv, InBounds
        <5> QED
          BY <3>1, <5>1 DEF Builder, GetPS, Address
      <4> QED
        BY <1>9, <4>1, <4>2
    <3>2. CASE a \notin stk[i].p .. GetPS(stk[i]) - 1
      <4>1. i = N
        BY <1>8, <3>0, <3>2
      <4>2. a \in c.p .. GetPS(c) - 1 /\ a \notin b.p .. GetPS(b) - 1
        BY <1>8, <3>2, <4>1 DEF b
      <4>3. Fits(b, Len(s)) /\ a \in GetPS(b) .. GetPS(b) + Len(s) - 1
        BY <1>1, <1>3, <1>5, <4>2, SMTT(30) DEF Builder, GetPS
      <4> QED
        BY <1>9, <4>3
    <3> QED
      BY <3>1, <3>2
  <2> QED
    BY <2>1 DEF NothingUnset
<1> QED
  BY <1>11, <1>12, <1>13 DEF IInv

(* Pushing an unused builder that is null or fills the room left. *)
LEMMA NestedPushes ==
    ASSUME IInv, InitNested, NEW c \in Builder, c.l = 0,
           c = Init3(Null, GetPS(stk[Len(stk)]), EmptySize(stk[Len(stk)]), 4),
           \/ c.size = 0 /\ c.p = 0 /\ EmptySize(stk[Len(stk)]) <= 4
           \/ /\ c.p = GetPS(stk[Len(stk)]) + 4
              /\ c.p + c.size = stk[Len(stk)].p + stk[Len(stk)].size
    PROVE  IInv'
<1> USE BuilderAssumption
<1> DEFINE N == Len(stk)
<1>1. stk \in Seq(Builder) /\ N \in Nat /\ N > 0 /\ DOMAIN stk = 1 .. N
  BY DEF IInv, TypeOK
<1>2. stk' = Append(stk, c) /\ mem' = mem /\ kept' = Append(kept, <<>>)
  BY DEF InitNested, Top
<1>3. /\ stk' \in Seq(Builder) /\ Len(stk') = N + 1 /\ stk' # <<>>
      /\ stk'[N + 1] = c /\ \A i \in 1 .. N : stk'[i] = stk[i]
  BY <1>1, <1>2, AppendProperties
<1>4. DOMAIN stk' = 1 .. N + 1
  BY <1>3
<1>5. TypeOK'
  <2>1. kept' \in Seq(Seq(Param)) /\ Len(kept') = N + 1
    <3>1. <<>> \in Seq(Param) /\ kept \in Seq(Seq(Param)) /\ Len(kept) = N
      BY DEF IInv, TypeOK
    <3> QED
      BY <1>2, <3>1, AppendProperties
  <2>2. sent' \in BOOLEAN /\ calls' \in 0 .. MaxCalls
    BY CallCounts DEF IInv, InitNested
  <2>3. mem' \in [Address -> Byte \cup {Unset}]
    BY <1>2 DEF IInv, TypeOK
  <2> QED
    BY <1>3, <2>1, <2>2, <2>3, Zenon DEF TypeOK
<1>6. InBounds'
  <2>1. ASSUME NEW i \in 1 .. N + 1
        PROVE  stk'[i].l <= stk'[i].size /\ stk'[i].p + stk'[i].size <= Size
    <3>1. CASE i \in 1 .. N
      BY <1>1, <1>3, <3>1 DEF IInv, InBounds
    <3>2. CASE i = N + 1
      <4>1. stk[N] \in Builder /\ stk[N].p + stk[N].size <= Size
        BY <1>1 DEF IInv, InBounds
      <4>2. stk'[i] = c
        BY <1>3, <3>2
      <4>3. c.l <= c.size /\ c.p + c.size <= Size
        BY <4>1 DEF Builder
      <4> QED
        BY <4>2, <4>3, Zenon
    <3> QED
      BY <1>1, <3>1, <3>2
  <2>2. ASSUME NEW i \in 1 .. N
        PROVE  \/ stk'[i + 1].size = 0 /\ EmptySize(stk'[i]) <= 4
               \/ /\ stk'[i + 1].p = GetPS(stk'[i]) + 4
                  /\ stk'[i + 1].p + stk'[i + 1].size
                        = stk'[i].p + stk'[i].size
    <3>0. stk'[i] = stk[i]
      BY <1>3
    <3>1. CASE i = N
      BY <1>3, <3>0, <3>1
    <3>2. CASE i # N
      <4>0. N \in Nat
        BY <1>1
      <4>1. i \in 1 .. Len(stk) - 1 /\ i + 1 \in 1 .. N
        BY <4>0, <3>2
      <4>2. stk'[i + 1] = stk[i + 1]
        BY <1>3, <4>1
      <4> QED
        BY <3>0, <4>1, <4>2 DEF IInv, InBounds
    <3> QED
      BY <3>1, <3>2
  <2>3. Len(stk') - 1 = N
    BY <1>1, <1>3
  <2> QED
    BY <1>4, <2>1, <2>2, <2>3 DEF InBounds
<1>7. NothingUnset'
  <2>1. ASSUME NEW i \in 1 .. N + 1, NEW a \in stk'[i].p .. GetPS(stk'[i]) - 1
        PROVE  mem'[a] \in Byte
    <3>1. i # N + 1
      <4>1. ASSUME i = N + 1 PROVE FALSE
        <5>1. a \in c.p .. GetPS(c) - 1
          BY <1>3, <4>1
        <5> QED
          BY <5>1 DEF GetPS, Builder
      <4> QED
        BY <4>1
    <3>2. i \in 1 .. N /\ stk'[i] = stk[i]
      BY <1>1, <1>3, <3>1
    <3> QED
      BY <1>1, <1>2, <3>2 DEF IInv, NothingUnset
  <2> QED
    BY <1>4, <2>1 DEF NothingUnset
<1> QED
  BY <1>5, <1>6, <1>7 DEF IInv

(* What a nested builder begins as. *)
LEMMA NewNested ==
    ASSUME IInv
    PROVE  LET b == stk[Len(stk)]
               c == Init3(Null, GetPS(b), EmptySize(b), 4)
           IN  /\ c \in Builder /\ c.l = 0
               /\ \/ c.size = 0 /\ c.p = 0 /\ EmptySize(b) <= 4
                  \/ /\ c.p = GetPS(b) + 4 /\ c.p + c.size = b.p + b.size
                     /\ EmptySize(b) > 4
<1> USE BuilderAssumption
<1> DEFINE N == Len(stk)
           b == stk[N]
           c == Init3(Null, GetPS(b), EmptySize(b), 4)
<1>1. stk \in Seq(Builder) /\ N \in Nat /\ N > 0 /\ DOMAIN stk = 1 .. N
  BY DEF IInv, TypeOK
<1>2. b \in Builder /\ b.l <= b.size /\ b.p + b.size <= Size
  BY <1>1 DEF IInv, InBounds
<1> HIDE DEF b
<1>3. EmptySize(b) \in Nat /\ GetPS(b) \in Nat
  BY <1>2 DEF EmptySize, GetPS, Builder
<1>4. Null \in Builder /\ Null.p = 0 /\ Null.size = 0 /\ Null.l = 0
  <2>1. Null \in Builder
    <3>1. 0 \in Nat /\ "unset" \in State
      BY DEF State
    <3> QED
      BY <3>1, Zenon DEF Null, Builder
  <2> QED
    BY <2>1, Zenon DEF Null
<1>5. CASE 4 >= EmptySize(b)
  <2>1. c = Null
    BY <1>5 DEF Init3
  <2>2. EmptySize(b) <= 4
    BY <1>3, <1>5
  <2> QED
    BY <1>4, <2>1, <2>2, Zenon DEF b
<1>6. CASE ~(4 >= EmptySize(b))
  <2> DEFINE q == GetPS(b) + 4
             z == EmptySize(b) - 4
  <2>1. q \in Nat /\ z \in Nat /\ EmptySize(b) > 4
    BY <1>3, <1>6
  <2>2. c = [Null EXCEPT !.p = q, !.size = z, !.l = 0, !.state = "empty"]
    BY <1>6 DEF Init3
  <2> HIDE DEF q, z, c
  <2>3. "empty" \in State /\ 0 \in Nat
    BY DEF State
  <2>4. c \in Builder
    BY <1>4, <2>1, <2>2, <2>3, Zenon DEF Builder
  <2>5. c.p = q /\ c.size = z /\ c.l = 0
    BY <1>4, <2>2, Zenon DEF Builder
  <2>6. q + z = b.p + b.size
    BY <1>2 DEF q, z, Builder, GetPS, EmptySize
  <2> QED
    BY <2>1, <2>4, <2>5, <2>6 DEF b, c, q
<1> QED
  BY <1>5, <1>6

(* A new builder lies inside the room left by the one around it. *)
LEMMA InitNestedHolds ==
    ASSUME IInv, InitNested
    PROVE  IInv'
  BY NewNested, NestedPushes

(* The two builders that meet at the end of a nested value. *)
LEMMA InnerAndOuter ==
    ASSUME IInv, Top > 1
    PROVE  /\ Top \in Nat /\ Top - 1 \in DOMAIN stk /\ Top \in DOMAIN stk
           /\ Outer \in Builder /\ Outer.l <= Outer.size
           /\ Outer.p + Outer.size <= Size
           /\ Inner \in Builder /\ Inner.l <= Inner.size
           /\ \/ Inner.size = 0 /\ EmptySize(Outer) <= 4
              \/ /\ Inner.p = GetPS(Outer) + 4
                 /\ Inner.p + Inner.size = Outer.p + Outer.size
<1>1. stk \in Seq(Builder) /\ Top = Len(stk) /\ Top \in Nat
  BY DEF IInv, TypeOK, Top
<1>2. Top \in 1 .. Len(stk) /\ Top - 1 \in 1 .. Len(stk) - 1
      /\ Top - 1 \in 1 .. Len(stk) /\ Top - 1 + 1 = Top
  BY <1>1
<1>3. DOMAIN stk = 1 .. Len(stk)
  BY <1>1
<1>4. Outer \in Builder /\ Inner \in Builder
  BY <1>1, <1>2 DEF Outer, Inner
<1>5. /\ Outer.l <= Outer.size /\ Outer.p + Outer.size <= Size
      /\ Inner.l <= Inner.size
  BY <1>2, <1>3, Zenon DEF IInv, InBounds, Outer, Inner
<1>6. \/ Inner.size = 0 /\ EmptySize(Outer) <= 4
      \/ /\ Inner.p = GetPS(Outer) + 4
         /\ Inner.p + Inner.size = Outer.p + Outer.size
  <2>1. \/ stk[Top - 1 + 1].size = 0 /\ EmptySize(stk[Top - 1]) <= 4
        \/ /\ stk[Top - 1 + 1].p = GetPS(stk[Top - 1]) + 4
           /\ stk[Top - 1 + 1].p + stk[Top - 1 + 1].size
                 = stk[Top - 1].p + stk[Top - 1].size
    BY <1>2, Zenon DEF IInv, InBounds
  <2> QED
    BY <1>2, <2>1, Zenon DEF Outer, Inner
<1> QED
  BY <1>1, <1>2, <1>3, <1>4, <1>5, <1>6, Zenon

(* What closing makes of the outer builder's cursor. *)
LEMMA ClosedCursor ==
    ASSUME IInv, Top > 1
    PROVE  /\ Closed \in Builder /\ Closed.p = Outer.p
           /\ Closed.size = Outer.size /\ Closed.l <= Closed.size
           /\ WithTag \in Builder /\ WithTag.p = Outer.p
           /\ WithTag.size = Outer.size
           /\ WithTag.l = IF Fits(Outer, 2) THEN Outer.l + 2 ELSE Outer.l
           /\ Inner.size > 0 => Whole
           /\ \/ Closed.l = Outer.l
              \/ Fits(Outer, 2) /\ Closed.l = Outer.l + 2
              \/ /\ Fits(Outer, 2) /\ Fits(WithTag, 2)
                 /\ Closed.l = Outer.l + 4 + Inner.l
                 /\ Inner.l > 0 => Inner.p = GetPS(Outer) + 4
<1> DEFINE o == Outer
           d == Inner
           w == WithTag
           x == WithLen
           c == Closed
<1>1. /\ o \in Builder /\ o.l <= o.size
      /\ d \in Builder /\ d.l <= d.size
      /\ \/ d.size = 0 /\ EmptySize(o) <= 4
         \/ d.p = GetPS(o) + 4 /\ d.p + d.size = o.p + o.size
  BY InnerAndOuter
<1>2. w = Seek(o, 2) /\ x = Seek(w, 2) /\ c = Seek(x, d.l)
  BY DEF WithTag, WithLen, Closed
<1>3. Whole <=> Fits(o, 2) /\ Fits(w, 2) /\ Fits(x, d.l)
  BY DEF Whole
<1>4. 2 \in Nat /\ d.l \in Nat /\ d.size \in Nat /\ d.p \in Nat
  BY <1>1 DEF Builder
<1>5. o.l \in Nat /\ o.size \in Nat /\ o.p \in Nat
  BY <1>1 DEF Builder
<1> HIDE DEF o, d, w, x, c
<1>6. /\ w \in Builder /\ w.p = o.p /\ w.size = o.size /\ w.l <= w.size
      /\ w.l = IF Fits(o, 2) THEN o.l + 2 ELSE o.l
  BY <1>1, <1>2, <1>4, SeekKeeps
<1>7. /\ x \in Builder /\ x.p = o.p /\ x.size = o.size /\ x.l <= x.size
      /\ x.l = IF Fits(w, 2) THEN w.l + 2 ELSE w.l
  BY <1>2, <1>4, <1>6, SeekKeeps
<1>8. /\ c \in Builder /\ c.p = o.p /\ c.size = o.size /\ c.l <= c.size
      /\ c.l = IF Fits(x, d.l) THEN x.l + d.l ELSE x.l
  BY <1>2, <1>4, <1>7, SeekKeeps
<1>9. d.size > 0 => /\ o.l + 4 + d.size = o.size
                    /\ d.p = GetPS(o) + 4
  BY <1>1, <1>4, <1>5 DEF GetPS
<1>10. d.size > 0 => Fits(o, 2) /\ Fits(w, 2) /\ Fits(x, d.l)
  BY <1>1, <1>4, <1>5, <1>6, <1>7, <1>9 DEF Fits
<1>11. d.size = 0 => d.l = 0
  BY <1>1, <1>4
<1>12. \/ c.l = o.l
       \/ Fits(o, 2) /\ c.l = o.l + 2
       \/ /\ Fits(o, 2) /\ Fits(w, 2)
          /\ c.l = o.l + 4 + d.l
          /\ d.l > 0 => d.p = GetPS(o) + 4
  <2>1. CASE d.size > 0
    <3>1. Fits(o, 2) /\ Fits(w, 2) /\ Fits(x, d.l)
      BY <1>10, <2>1
    <3>2. c.l = o.l + 4 + d.l
      BY <1>4, <1>5, <1>6, <1>7, <1>8, <3>1
    <3> QED
      BY <1>9, <2>1, <3>1, <3>2
  <2>2. CASE d.size = 0
    <3>1. d.l = 0 /\ c.l = x.l
      BY <1>4, <1>5, <1>6, <1>7, <1>8, <1>11, <2>2 DEF Builder
    <3>2. CASE Fits(o, 2) /\ Fits(w, 2)
      BY <1>4, <1>5, <1>6, <1>7, <3>1, <3>2
    <3>3. CASE Fits(o, 2) /\ ~Fits(w, 2)
      BY <1>5, <1>6, <1>7, <3>1, <3>3
    <3>4. CASE ~Fits(o, 2)
      <4>1. w.l = o.l
        BY <1>6, <3>4
      <4>2. ~Fits(w, 2)
        BY <1>5, <1>6, <3>4, <4>1 DEF Fits
      <4> QED
        BY <1>7, <3>1, <4>1, <4>2
    <3> QED
      BY <3>2, <3>3, <3>4
  <2> QED
    BY <1>4, <2>1, <2>2
<1> QED
  BY <1>3, <1>6, <1>8, <1>10, <1>12 DEF o, d, w, c

(* Where a byte lies that closing a nested parameter adds to the outer    *)
(* builder: in the tag, in the length or in the value.                     *)
LEMMA ByteOfNested ==
  ASSUME NEW op \in Nat, NEW ol \in Nat, NEW cl \in Nat,
         NEW dp \in Nat, NEW dl \in Nat, NEW a,
         a \in op .. (op + cl) - 1, a \notin op .. (op + ol) - 1
  PROVE  /\ cl = ol + 2 => a \in op + ol .. op + ol + 2 - 1
         /\ cl = ol + 4 + dl /\ (dl > 0 => dp = op + ol + 4) =>
               \/ a \in op + ol .. op + ol + 2 - 1
               \/ a \in op + ol + 2 .. op + ol + 3
               \/ dl > 0 /\ a \in dp .. (dp + dl) - 1
OBVIOUS

(* Closing a nested value: tag and length land in the gap before it. *)
LEMMA AddNestedHolds ==
    ASSUME IInv, NEW t \in Tags, AddNested(t)
    PROVE  IInv'
<1> USE BuilderAssumption
<1> DEFINE K == Top - 1
           o == Outer
           d == Inner
           w == WithTag
           c == Closed
           W1 == Word(t)
           W2 == Word(d.l % WordMax)
           m1 == Store(mem, o, W1)
<1>0. Top > 1 /\ mem' = Store(m1, w, W2)
      /\ stk' = [SubSeq(stk, 1, K) EXCEPT ![K] = c]
  BY DEF AddNested
<1>1. /\ Top \in Nat /\ K \in DOMAIN stk /\ Top \in DOMAIN stk
      /\ o \in Builder /\ o.l <= o.size /\ o.p + o.size <= Size
      /\ d \in Builder
  BY <1>0, InnerAndOuter
<1>2. /\ c \in Builder /\ c.p = o.p /\ c.size = o.size /\ c.l <= c.size
      /\ w \in Builder /\ w.p = o.p /\ w.size = o.size
      /\ w.l = IF Fits(o, 2) THEN o.l + 2 ELSE o.l
      /\ \/ c.l = o.l
         \/ Fits(o, 2) /\ c.l = o.l + 2
         \/ /\ Fits(o, 2) /\ Fits(w, 2)
            /\ c.l = o.l + 4 + d.l
            /\ d.l > 0 => d.p = GetPS(o) + 4
  BY <1>0, ClosedCursor
<1>3. o = stk[K] /\ d = stk[Top] /\ Top = Len(stk)
  BY DEF Outer, Inner, Top
<1>4. /\ o.p \in Nat /\ o.l \in Nat /\ o.size \in Nat
      /\ d.p \in Nat /\ d.l \in Nat
  BY <1>1 DEF Builder
<1>5. /\ W1 \in Seq(Byte) /\ Len(W1) = 2 /\ W2 \in Seq(Byte) /\ Len(W2) = 2
  <2>1. WordMax \in Nat /\ WordMax > 0
    BY BaseAssumption DEF WordMax
  <2>2. d.l % WordMax \in 0 .. WordMax - 1
    BY <1>4, <2>1
  <2>3. t \in 0 .. WordMax - 1
    OBVIOUS
  <2> QED
    BY <2>2, <2>3, WordBytes
<1> HIDE DEF o, d, w, c, W1, W2
<1>6. mem \in Memory
  BY DEF IInv, TypeOK, Memory
<1>7. /\ m1 \in Memory
      /\ \A a \in Address : mem[a] \in Byte => m1[a] \in Byte
      /\ Fits(o, 2) => \A a \in GetPS(o) .. GetPS(o) + 2 - 1 :
                           a \in Address /\ m1[a] \in Byte
  BY <1>1, <1>5, <1>6, StoreWrites
<1> HIDE DEF m1
<1>8. /\ mem' \in Memory
      /\ \A a \in Address : m1[a] \in Byte => mem'[a] \in Byte
      /\ Fits(w, 2) => \A a \in GetPS(w) .. GetPS(w) + 2 - 1 :
                           a \in Address /\ mem'[a] \in Byte
  <2>1. w.p + w.size <= Size
    BY <1>1, <1>2
  <2> DEFINE m2 == Store(m1, w, W2)
  <2>2. /\ m2 \in Memory
        /\ \A a \in Address : m1[a] \in Byte => m2[a] \in Byte
        /\ Fits(w, Len(W2)) => \A a \in GetPS(w) .. GetPS(w) + Len(W2) - 1 :
                                  a \in Address /\ m2[a] \in Byte
    BY <1>2, <1>5, <1>7, <2>1, StoreWrites, Zenon
  <2>3. mem' = m2
    BY <1>0
  <2> HIDE DEF m2
  <2> QED
    BY <1>5, <2>2, <2>3
<1> DEFINE front == SubSeq(stk, 1, K)
<1>9. /\ stk \in Seq(Builder)
      /\ K \in Nat /\ K \in 1 .. Len(stk) - 1 /\ K = Len(stk) - 1
  BY <1>0, <1>1, <1>3 DEF IInv, TypeOK
<1>10. /\ front \in Seq(Builder) /\ Len(front) = K
       /\ \A i \in 1 .. K : front[i] = stk[i]
  <2>1. \A i \in 1 .. K : stk[i] \in Builder
    BY <1>9
  <2> HIDE DEF K
  <2>2. /\ front \in Seq(Builder)
        /\ Len(front) = IF 1 <= K THEN K - 1 + 1 ELSE 0
        /\ \A i \in 1 .. K - 1 + 1 : front[i] = stk[1 + i - 1]
    BY <1>9, <2>1, SubSeqProperties
  <2> QED
    BY <1>9, <2>2
<1> HIDE DEF front
<1>11. /\ stk' \in Seq(Builder) /\ Len(stk') = K
       /\ \A i \in 1 .. K : stk'[i] = IF i = K THEN c ELSE stk[i]
  <2>1. stk' = [front EXCEPT ![K] = c]
    BY <1>0 DEF front
  <2>2. K \in 1 .. Len(front)
    BY <1>9, <1>10
  <2> HIDE DEF K
  <2>3. /\ stk' \in Seq(Builder) /\ Len(stk') = Len(front)
        /\ \A i \in 1 .. Len(front) : stk'[i] = IF i = K THEN c ELSE front[i]
    BY <1>2, <1>10, <2>1, <2>2, ExceptSeq
  <2> QED
    BY <1>10, <2>3
<1>12. DOMAIN stk' = 1 .. K
  BY <1>11
<1> HIDE DEF K
<1>13. TypeOK'
  <2>1. [tag |-> t, val |-> Used(mem, d)] \in Param
    <3>1. ASSUME NEW i \in 1 .. d.l PROVE mem[d.p + i - 1] \in Byte
      <4>1. d.p + i - 1 \in d.p .. GetPS(d) - 1
        BY <1>4 DEF GetPS
      <4> QED
        BY <1>1, <1>3, <4>1 DEF IInv, NothingUnset
    <3>2. Used(mem, d) \in Seq(Byte)
      BY <1>4, <3>1 DEF Used
    <3> QED
      BY <3>2 DEF Param
  <2>2. kept' \in Seq(Seq(Param)) /\ Len(kept') = K
    <3> DEFINE some == SubSeq(kept, 1, K)
               p == [tag |-> t, val |-> Used(mem, d)]
    <3>1. kept \in Seq(Seq(Param)) /\ Len(kept) = Len(stk)
      BY DEF IInv, TypeOK
    <3>2. \A i \in 1 .. K : kept[i] \in Seq(Param)
      BY <1>9, <3>1
    <3>3. /\ some \in Seq(Seq(Param)) /\ Len(some) = K
      <4>1. /\ some \in Seq(Seq(Param))
            /\ Len(some) = IF 1 <= K THEN K - 1 + 1 ELSE 0
        BY <1>9, <3>2, SubSeqProperties
      <4> QED
        BY <1>9, <4>1
    <3>4. kept' = [some EXCEPT ![K] = IF Whole THEN Append(@, p) ELSE @]
      BY DEF AddNested, K, d
    <3>5. K \in 1 .. Len(some)
      BY <1>9, <3>3
    <3> HIDE DEF some, p
    <3> DEFINE item == IF Whole THEN Append(some[K], p) ELSE some[K]
    <3>6. item \in Seq(Param)
      <4>1. some[K] \in Seq(Param)
        BY <3>3, <3>5
      <4>2. Append(some[K], p) \in Seq(Param)
        BY <2>1, <4>1, AppendProperties DEF p
      <4> QED
        BY <4>1, <4>2
    <3>7. kept' = [some EXCEPT ![K] = item]
      BY <3>4
    <3> HIDE DEF item
    <3> QED
      BY <3>3, <3>5, <3>6, <3>7, ExceptSeq
  <2>3. sent' \in BOOLEAN /\ calls' \in 0 .. MaxCalls
    BY CallCounts DEF IInv, AddNested
  <2>4. stk' # <<>>
    <3>1. stk' \in Seq(Builder) /\ Len(stk') > 0
      BY <1>9, <1>11
    <3> QED
      BY <3>1
  <2> QED
    BY <1>8, <1>11, <2>2, <2>3, <2>4, Zenon DEF TypeOK, Memory
<1>14. InBounds'
  <2>1. ASSUME NEW i \in 1 .. K
        PROVE  stk'[i].l <= stk'[i].size /\ stk'[i].p + stk'[i].size <= Size
    <3>1. CASE i = K
      <4>1. stk'[i] = c
        BY <1>11, <3>1
      <4> QED
        BY <1>1, <1>2, <4>1
    <3>2. CASE i # K
      <4>1. stk'[i] = stk[i]
        BY <1>11, <3>2
      <4>2. i \in DOMAIN stk
        BY <1>9
      <4> QED
        BY <4>1, <4>2, Zenon DEF IInv, InBounds
    <3> QED
      BY <3>1, <3>2
  <2>2. ASSUME NEW i \in 1 .. K - 1
        PROVE  \/ stk'[i + 1].size = 0 /\ EmptySize(stk'[i]) <= 4
               \/ /\ stk'[i + 1].p = GetPS(stk'[i]) + 4
                  /\ stk'[i + 1].p + stk'[i + 1].size
                        = stk'[i].p + stk'[i].size
    <3>1. /\ i \in 1 .. Len(stk) - 1 /\ i \in 1 .. K /\ i + 1 \in 1 .. K
          /\ i # K
      BY <1>9
    <3>2. stk'[i] = stk[i]
      BY <1>11, <3>1
    <3>3. stk'[i + 1].p = stk[i + 1].p /\ stk'[i + 1].size = stk[i + 1].size
      BY <1>2, <1>3, <1>11, <3>1, Zenon DEF K
    <3> QED
      BY <3>1, <3>2, <3>3 DEF IInv, InBounds
  <2> QED
    BY <1>11, <1>12, <2>1, <2>2, Zenon DEF InBounds
<1>15. NothingUnset'
  <2>1. ASSUME NEW i \in 1 .. K, NEW a \in stk'[i].p .. GetPS(stk'[i]) - 1
        PROVE  mem'[a] \in Byte
    <3>1. i \in DOMAIN stk /\ stk[i] \in Builder
      BY <1>9
    <3>2. CASE a \in stk[i].p .. GetPS(stk[i]) - 1
      <4>1. mem[a] \in Byte
        BY <3>1, <3>2 DEF IInv, NothingUnset
      <4>2. a \in Address
        <5>1. stk[i].l <= stk[i].size /\ stk[i].p + stk[i].size <= Size
          BY <3>1 DEF IInv, InBounds
        <5> QED
          BY <3>1, <3>2, <5>1 DEF Builder, GetPS, Address
      <4> QED
        BY <1>7, <1>8, <4>1, <4>2
    <3>3. CASE a \notin stk[i].p .. GetPS(stk[i]) - 1
      <4>1. i = K
        BY <1>11, <3>3
      <4>2. a \in c.p .. GetPS(c) - 1
        BY <1>11, <4>1
      <4>3. a \notin o.p .. GetPS(o) - 1
        BY <1>3, <3>3, <4>1 DEF K
      <4>4. CASE Fits(o, 2) /\ a \in GetPS(o) .. GetPS(o) + 2 - 1
        BY <1>7, <1>8, <4>4
      <4>5. CASE /\ Fits(o, 2) /\ Fits(w, 2)
                 /\ a \in GetPS(o) + 2 .. GetPS(o) + 3
        <5>1. a \in GetPS(w) .. GetPS(w) + 2 - 1
          BY <1>2, <1>4, <4>5, SMTT(30) DEF GetPS
        <5> QED
          BY <1>8, <4>5, <5>1
      <4>6. CASE d.l > 0 /\ a \in d.p .. GetPS(d) - 1
        <5>1. mem[a] \in Byte
          BY <1>1, <1>3, <4>6 DEF IInv, NothingUnset
        <5>2. a \in Address
          <6>1. d.l <= d.size /\ d.p + d.size <= Size /\ d.size \in Nat
            BY <1>1, <1>3 DEF IInv, InBounds, Builder
          <6> QED
            BY <1>4, <4>6, <6>1 DEF GetPS, Address
        <5> QED
          BY <1>7, <1>8, <5>1, <5>2
      <4>7. \/ Fits(o, 2) /\ a \in GetPS(o) .. GetPS(o) + 2 - 1
            \/ /\ Fits(o, 2) /\ Fits(w, 2)
               /\ a \in GetPS(o) + 2 .. GetPS(o) + 3
            \/ d.l > 0 /\ a \in d.p .. GetPS(d) - 1
        <5>1. c.l \in Nat
          BY <1>2, Zenon DEF Builder
        <5>2. /\ GetPS(o) = o.p + o.l
              /\ GetPS(d) = d.p + d.l
              /\ GetPS(c) = o.p + c.l
          BY <1>2, Zenon DEF GetPS
        <5>3. a \in o.p .. (o.p + c.l) - 1 /\ a \notin o.p .. (o.p + o.l) - 1
          <6>1. c.p = o.p
            BY <1>2, Zenon
          <6>2. a \in o.p .. (o.p + c.l) - 1
            BY <4>2, <5>2, <6>1, Zenon
          <6>3. a \notin o.p .. (o.p + o.l) - 1
            BY <4>3, <5>2, Zenon
          <6> QED
            BY <6>2, <6>3, Zenon
        <5>4. CASE c.l = o.l
          BY <5>3, <5>4, Zenon
        <5>5. CASE Fits(o, 2) /\ c.l = o.l + 2
          <6>1. a \in o.p + o.l .. o.p + o.l + 2 - 1
            BY <1>4, <5>1, <5>3, <5>5, ByteOfNested, Zenon
          <6> QED
            BY <5>2, <5>5, <6>1, Zenon
        <5>6. CASE /\ Fits(o, 2) /\ Fits(w, 2)
                   /\ c.l = o.l + 4 + d.l
                   /\ d.l > 0 => d.p = GetPS(o) + 4
          <6>1. \/ a \in o.p + o.l .. o.p + o.l + 2 - 1
                \/ a \in o.p + o.l + 2 .. o.p + o.l + 3
                \/ d.l > 0 /\ a \in d.p .. (d.p + d.l) - 1
            BY <1>4, <5>1, <5>2, <5>3, <5>6, ByteOfNested, Zenon
          <6>2. CASE a \in o.p + o.l .. o.p + o.l + 2 - 1
            BY <5>2, <5>6, <6>2, Zenon
          <6>3. CASE a \in o.p + o.l + 2 .. o.p + o.l + 3
            BY <5>2, <5>6, <6>3, Zenon
          <6>4. CASE d.l > 0 /\ a \in d.p .. (d.p + d.l) - 1
            BY <5>2, <6>4, Zenon
          <6> QED
            BY <6>1, <6>2, <6>3, <6>4, Zenon
        <5> QED
          BY <1>2, <5>4, <5>5, <5>6, Zenon
      <4> QED
        BY <4>4, <4>5, <4>6, <4>7
    <3> QED
      BY <3>2, <3>3
  <2> QED
    BY <1>12, <2>1 DEF NothingUnset
<1> QED
  BY <1>13, <1>14, <1>15 DEF IInv

(* The invariant is inductive. *)
THEOREM Invariance == Spec => []IInv
<1>1. Init => IInv
  BY InitHolds
<1>2. IInv /\ [Next]_vars => IInv'
  <2> SUFFICES ASSUME IInv, [Next]_vars PROVE IInv'
    OBVIOUS
  <2>1. CASE \E t \in Tags, v \in Values : AddwTwLV(t, v)
    BY <2>1, AddHolds
  <2>2. CASE InitNested
    BY <2>2, InitNestedHolds
  <2>3. CASE \E t \in Tags : AddNested(t)
    BY <2>3, AddNestedHolds
  <2>4. CASE Send
    <3>1. sent' \in BOOLEAN
      BY <2>4, Zenon DEF Send
    <3>2. UNCHANGED <<mem, stk, kept, calls>>
      BY <2>4 DEF Send
    <3> QED
      BY <3>1, <3>2 DEF IInv, TypeOK, InBounds, NothingUnset
  <2>5. CASE UNCHANGED vars
    BY <2>5 DEF IInv, TypeOK, InBounds, NothingUnset, vars
  <2> QED
    BY <2>1, <2>2, <2>3, <2>4, <2>5 DEF Next
<1> QED
  BY <1>1, <1>2, PTL DEF Spec

(* For every array, byte width and depth of nesting: the memory and the    *)
(* builders stay what they are declared to be.                             *)
THEOREM TypeCorrect == Spec => []TypeOK
<1>1. IInv => TypeOK
  BY DEF IInv
<1> QED
  BY <1>1, Invariance, PTL

(* No builder ever leaves the array or outgrows the one around it. *)
THEOREM StaysInBounds == Spec => []InBounds
<1>1. IInv => InBounds
  BY DEF IInv
<1> QED
  BY <1>1, Invariance, PTL

(* No byte of a message is one that nobody wrote. *)
THEOREM AllIsWritten == Spec => []NothingUnset
<1>1. IInv => NothingUnset
  BY DEF IInv
<1> QED
  BY <1>1, Invariance, PTL

(* A nested value that had room is always taken over whole. *)
THEOREM NestedAlwaysWhole == Spec => []NestedIsWhole
<1>1. IInv => NestedIsWhole
  BY ClosedCursor DEF NestedIsWhole
<1> QED
  BY <1>1, Invariance, PTL

-----------------------------------------------------------------------------
(* Reading: what the recursive walk of the parser returns.                 *)

(* A set of numbers that is not empty has a least one, from which follows  *)
(* what is said below of sequences of any length.                          *)
LEMMA LeastOf ==
    ASSUME NEW T, T \subseteq Nat, T # {}
    PROVE  \E n \in T : \A m \in T : n <= m
<1>1. IsWellFoundedOn(OpToRel(<, Nat), Nat)
  BY NatLessThanWellFounded
<1>2. PICK n \in T : \A m \in T : ~(<<m, n>> \in OpToRel(<, Nat))
  BY <1>1, WFMin
<1>3. \A m \in T : ~(m < n)
  BY <1>2 DEF OpToRel
<1> QED
  BY <1>3

(* The walk always moves on, and never beyond the end. *)
LEMMA NextIsFurther ==
    ASSUME NEW s \in Seq(Nat), NEW k \in 0 .. Len(s), Parsed!ItemFits(s, k)
    PROVE  Parsed!NextAfter(s, k) \in k + 1 .. Len(s)
<1>1. Len(s) \in Nat /\ k + 4 <= Len(s) /\ Base \in Nat
  BY BaseAssumption DEF Parsed!ItemFits
<1>2. s[k + 3] \in Nat /\ s[k + 4] \in Nat
  BY <1>1
<1>3. Base * s[k + 4] \in Nat
  BY <1>1, <1>2
<1>4. Parsed!WordAt(s, k + 3) \in Nat
  BY <1>2, <1>3 DEF Parsed!WordAt
<1> QED
  BY <1>1, <1>4 DEF Parsed!ItemFits, Parsed!NextAfter

(* The body of the walk, and a walk of what follows the first n bytes. *)
Walked(s, g, k) ==
    IF Parsed!ItemFits(s, k)
    THEN << Parsed!ItemAt(s, k) >> \o g[Parsed!NextAfter(s, k)]
    ELSE <<>>

IsWalk(s, n, g) == g = [k \in n .. Len(s) |-> Walked(s, g, k)]

(* A walk exists: from a walk of the rest one makes a longer one. *)
LEMMA WalkExists ==
    ASSUME NEW s \in Seq(Nat)
    PROVE  \E g : IsWalk(s, 0, g)
<1> DEFINE T == {i \in 0 .. Len(s) + 1 : \E g : IsWalk(s, i, g)}
<1>0. Len(s) \in Nat
  OBVIOUS
<1>1. T \subseteq Nat
  BY <1>0
<1>2. Len(s) + 1 \in T
  <2> DEFINE g == [k \in {} |-> <<>>]
  <2>1. Len(s) + 1 .. Len(s) = {}
    BY <1>0
  <2>2. g = [k \in Len(s) + 1 .. Len(s) |-> Walked(s, g, k)]
    BY <2>1
  <2>3. IsWalk(s, Len(s) + 1, g)
    BY <2>2 DEF IsWalk
  <2> HIDE DEF g
  <2>4. Len(s) + 1 \in 0 .. Len(s) + 1
    BY <1>0
  <2> QED
    BY <2>3, <2>4
<1>3. PICK n \in T : \A m \in T : n <= m
  BY <1>1, <1>2, LeastOf
<1>4. PICK g : IsWalk(s, n, g)
  OBVIOUS
<1>5. n = 0
  <2> SUFFICES ASSUME n # 0 PROVE FALSE
    OBVIOUS
  <2>1. n \in 1 .. Len(s) + 1 /\ n - 1 \in 0 .. Len(s) /\ ~(n <= n - 1)
    BY <1>0
  <2> DEFINE h == [k \in n - 1 .. Len(s) |->
                     IF k = n - 1 THEN Walked(s, g, k) ELSE g[k]]
  <2>2. ASSUME NEW k \in n - 1 .. Len(s) PROVE h[k] = Walked(s, h, k)
    <3>1. k \in 0 .. Len(s)
      BY <1>0, <2>1
    <3> DEFINE next == Parsed!NextAfter(s, k)
    <3>2. Parsed!ItemFits(s, k) => next \in n - 1 .. Len(s) /\ next # n - 1
      <4>1. Parsed!ItemFits(s, k) => next \in k + 1 .. Len(s)
        BY <3>1, NextIsFurther
      <4> HIDE DEF next
      <4> QED
        BY <1>0, <2>1, <4>1
    <3>3. Parsed!ItemFits(s, k) => h[next] = g[next]
      BY <3>2
    <3>4. Walked(s, h, k) = Walked(s, g, k)
      <4> HIDE DEF h
      <4> QED
        BY <3>3, Zenon DEF Walked
    <3>5. CASE k = n - 1
      BY <3>4, <3>5
    <3>6. CASE k # n - 1
      <4>1. k \in n .. Len(s)
        BY <1>0, <2>1, <3>6
      <4>2. g[k] = Walked(s, g, k)
        BY <1>4, <4>1 DEF IsWalk
      <4> QED
        BY <3>4, <3>6, <4>2
    <3> QED
      BY <3>5, <3>6
  <2>3. h = [k \in n - 1 .. Len(s) |-> h[k]]
    OBVIOUS
  <2> HIDE DEF h
  <2>4. h = [k \in n - 1 .. Len(s) |-> Walked(s, h, k)]
    BY <2>2, <2>3
  <2>5. n - 1 \in T
    BY <2>1, <2>4 DEF IsWalk
  <2> QED
    BY <1>3, <2>1, <2>5
<1> QED
  BY <1>4, <1>5

(* So the walk is what its definition says. *)
LEMMA WalkUnfolds ==
    ASSUME NEW s \in Seq(Nat), NEW k \in 0 .. Len(s)
    PROVE  Parsed!ItemsFrom(s, k) =
             IF Parsed!ItemFits(s, k)
             THEN << Parsed!ItemAt(s, k) >>
                  \o Parsed!ItemsFrom(s, Parsed!NextAfter(s, k))
             ELSE <<>>
<1>1. Parsed!Walk(s) = CHOOSE g : IsWalk(s, 0, g)
  BY Zenon DEF Parsed!Walk, IsWalk, Walked
<1>2. IsWalk(s, 0, Parsed!Walk(s))
  BY <1>1, WalkExists
<1>3. Parsed!Walk(s)[k] = Walked(s, Parsed!Walk(s), k)
  BY <1>2, Zenon DEF IsWalk
<1> QED
  BY <1>3 DEF Walked, Parsed!ItemsFrom

-----------------------------------------------------------------------------
(* Parameter x stands in s behind its first a bytes. *)
Stands(s, a, x) ==
    /\ a + 4 + Len(x.val) <= Len(s)
    /\ Parsed!WordAt(s, a + 1) = x.tag
    /\ Parsed!WordAt(s, a + 3) = Len(x.val)
    /\ \A j \in 1 .. Len(x.val) : s[a + 4 + j] = x.val[j]

(* A part of a sequence. *)
LEMMA PartOf ==
    ASSUME NEW S, NEW s \in Seq(S), NEW m \in Nat, NEW n \in Nat,
           m + n <= Len(s)
    PROVE  LET r == SubSeq(s, m + 1, m + n)
           IN  r \in Seq(S) /\ Len(r) = n /\ \A j \in 1 .. n : r[j] = s[m + j]
<1> DEFINE r == SubSeq(s, m + 1, m + n)
<1>1. \A k \in m + 1 .. m + n : s[k] \in S
  OBVIOUS
<1>2. /\ r \in Seq(S)
      /\ Len(r) = IF m + 1 <= m + n THEN m + n - (m + 1) + 1 ELSE 0
      /\ \A j \in 1 .. m + n - (m + 1) + 1 : r[j] = s[m + 1 + j - 1]
  BY <1>1, SubSeqProperties
<1> HIDE DEF r
<1>3. Len(r) = n
  BY <1>2
<1>4. ASSUME NEW j \in 1 .. n PROVE r[j] = s[m + j]
  BY <1>2
<1> QED
  BY <1>2, <1>3, <1>4 DEF r

(* The parser takes it from there. *)
LEMMA StandsIsRead ==
    ASSUME NEW s \in Seq(Nat), NEW a \in Nat, NEW x, x.val \in Seq(Byte),
           Stands(s, a, x)
    PROVE  /\ Parsed!ItemFits(s, a) /\ a \in 0 .. Len(s)
           /\ Parsed!NextAfter(s, a) = a + 4 + Len(x.val)
           /\ Parsed!ItemAt(s, a) = [tag |-> x.tag, val |-> x.val]
<1> DEFINE n == Len(x.val)
           v == SubSeq(s, a + 5, a + 4 + n)
<1>1. n \in Nat /\ Len(s) \in Nat
  OBVIOUS
<1>2. /\ a + 4 + n <= Len(s)
      /\ Parsed!WordAt(s, a + 1) = x.tag /\ Parsed!WordAt(s, a + 3) = n
      /\ \A j \in 1 .. n : s[a + 4 + j] = x.val[j]
  BY Zenon DEF Stands
<1> HIDE DEF n
<1>3. a + 4 <= Len(s) /\ a \in 0 .. Len(s)
  BY <1>1, <1>2
<1>4. Parsed!ItemFits(s, a)
  BY <1>2, <1>3, Zenon DEF Parsed!ItemFits
<1>5. Parsed!NextAfter(s, a) = a + 4 + n
  BY <1>2, Zenon DEF Parsed!NextAfter
<1>6. v \in Seq(Nat) /\ Len(v) = n /\ \A j \in 1 .. n : v[j] = s[a + 4 + j]
  <2> DEFINE m == a + 4
  <2>1. m \in Nat /\ m + n <= Len(s)
    BY <1>2
  <2>2. m + 1 = a + 5 /\ m + n = a + 4 + n
    OBVIOUS
  <2>3. \A j \in 1 .. n : m + j = a + 4 + j
    OBVIOUS
  <2> HIDE DEF m
  <2>4. LET r == SubSeq(s, m + 1, m + n)
        IN  r \in Seq(Nat) /\ Len(r) = n /\ \A j \in 1 .. n : r[j] = s[m + j]
    BY <1>1, <2>1, PartOf
  <2>5. v = SubSeq(s, m + 1, m + n)
    BY <2>2, Zenon
  <2> QED
    BY <2>3, <2>4, <2>5
<1> HIDE DEF v
<1>7. v = x.val
  <2>1. x.val \in Seq(Nat)
    BY BaseAssumption DEF Byte
  <2>2. Len(v) = Len(x.val) /\ \A j \in 1 .. Len(v) : v[j] = x.val[j]
    BY <1>2, <1>6 DEF n
  <2> QED
    BY <1>6, <2>1, <2>2, SeqEqual
<1>8. Parsed!ItemAt(s, a) = [tag |-> x.tag, val |-> v]
  BY <1>2, Zenon DEF Parsed!ItemAt, v
<1> QED
  BY <1>3, <1>4, <1>5, <1>7, <1>8 DEF n

(* A suffix is its first element and the rest. *)
LEMMA SuffixSplits ==
    ASSUME NEW S, NEW s \in Seq(S), NEW i \in 1 .. Len(s)
    PROVE  << s[i] >> \o SubSeq(s, i + 1, Len(s)) = SubSeq(s, i, Len(s))
<1> DEFINE n == Len(s)
           h == << s[i] >>
           rest == SubSeq(s, i + 1, n)
           l == h \o rest
           r == SubSeq(s, i, n)
<1>1. /\ rest \in Seq(S)
      /\ Len(rest) = n - i
      /\ \A j \in 1 .. n - i : rest[j] = s[i + j]
  OBVIOUS
<1>2. /\ r \in Seq(S)
      /\ Len(r) = n - i + 1
      /\ \A j \in 1 .. n - i + 1 : r[j] = s[i - 1 + j]
  OBVIOUS
<1>3. h \in Seq(S) /\ Len(h) = 1 /\ h[1] = s[i]
  OBVIOUS
<1>4. n \in Nat /\ i \in 1 .. n
  OBVIOUS
<1> HIDE DEF h, rest, r, n
<1>5. /\ l \in Seq(S)
      /\ Len(l) = 1 + (n - i)
      /\ \A j \in 1 .. 1 + (n - i) : l[j] = IF j = 1 THEN h[1] ELSE rest[j - 1]
  <2>1. l \in Seq(S) /\ Len(l) = 1 + (n - i)
    <3>1. h \in Seq(S) /\ rest \in Seq(S)
      BY <1>1, <1>3
    <3>2. l \in Seq(S) /\ Len(l) = Len(h) + Len(rest)
      BY <3>1, ConcatProperties, Zenon
    <3> QED
      BY <1>1, <1>3, <3>2, Zenon
  <2>2. ASSUME NEW j \in 1 .. 1 + (n - i)
        PROVE  l[j] = IF j = 1 THEN h[1] ELSE rest[j - 1]
    <3>1. h \in Seq(S) /\ rest \in Seq(S) /\ j \in 1 .. Len(h) + Len(rest)
      BY <1>1, <1>3, <1>4
    <3>2. l[j] = IF j <= Len(h) THEN h[j] ELSE rest[j - Len(h)]
      BY <3>1
    <3>3. j <= 1 <=> j = 1
      BY <1>4
    <3> QED
      BY <1>3, <3>2, <3>3
  <2> QED
    BY <2>1, <2>2
<1> HIDE DEF l
<1>6. ASSUME NEW j \in 1 .. Len(l) PROVE l[j] = r[j]
  <2>1. CASE j = 1
    <3>1. 1 \in 1 .. n - i + 1 /\ i - 1 + 1 = i
      BY <1>4
    <3>2. r[1] = s[i]
      BY <1>2, <3>1
    <3> QED
      BY <1>3, <1>5, <2>1, <3>2
  <2>2. CASE j # 1
    <3>1. /\ j - 1 \in 1 .. n - i
          /\ i + (j - 1) = i - 1 + j
          /\ j \in 1 .. n - i + 1
      BY <1>4, <1>5, <2>2
    <3> QED
      BY <1>1, <1>2, <1>5, <2>2, <3>1
  <2> QED
    BY <2>1, <2>2
<1>7. Len(l) = Len(r)
  BY <1>2, <1>4, <1>5
<1>8. l = r
  BY <1>2, <1>5, <1>6, <1>7, SeqEqual
<1> QED
  BY <1>8 DEF l, h, rest, r, n

(* The parameters stand one after the other, where c says, from skip on. *)
Chain(s, skip, items, c) ==
    /\ c \in [1 .. Len(items) + 1 -> Nat]
    /\ c[1] = skip
    /\ \A k \in 1 .. Len(items) :
           Stands(s, c[k], items[k]) /\ c[k + 1] = c[k] + 4 + Len(items[k].val)

(* The parser reads a chain as what it is a chain of, if no more than      *)
(* three bytes follow.                                                     *)
LEMMA ChainReads ==
    ASSUME NEW s \in Seq(Nat), NEW skip \in Nat, NEW items \in Seq(Param),
           NEW c,
           Chain(s, skip, items, c),
           c[Len(items) + 1] <= Len(s), Len(s) < c[Len(items) + 1] + 4
    PROVE  Parsed!ItemsFrom(s, skip) = items
<1> DEFINE n == Len(items)
           T == {i \in 0 .. n :
                    Parsed!ItemsFrom(s, c[i + 1]) = SubSeq(items, i + 1, n)}
<1>0. n \in Nat /\ Len(s) \in Nat /\ T \subseteq Nat
  OBVIOUS
<1>1. \A k \in 1 .. n + 1 : c[k] \in Nat
  BY <1>0 DEF Chain
<1>2. n \in T
  <2>1. n + 1 \in 1 .. n + 1 /\ n \in 0 .. n
    BY <1>0
  <2>2. c[n + 1] \in 0 .. Len(s) /\ ~(c[n + 1] + 4 <= Len(s))
    BY <1>0, <1>1, <2>1
  <2>3. ~Parsed!ItemFits(s, c[n + 1])
    BY <2>2 DEF Parsed!ItemFits
  <2>4. Parsed!ItemsFrom(s, c[n + 1]) = <<>>
    BY <2>2, <2>3, WalkUnfolds
  <2>5. SubSeq(items, n + 1, n) = <<>>
    BY <1>0
  <2> QED
    BY <2>1, <2>4, <2>5
<1>3. PICK i \in T : \A j \in T : i <= j
  BY <1>0, <1>2, LeastOf
<1>4. i = 0
  <2> SUFFICES ASSUME i # 0 PROVE FALSE
    OBVIOUS
  <2>1. /\ i \in 1 .. n
        /\ i \in 1 .. n + 1
        /\ i - 1 \in 0 .. n
        /\ ~(i <= i - 1)
        /\ i - 1 + 1 = i
    BY <1>0
  <2> DEFINE x == items[i]
             a == c[i]
  <2>2. /\ Stands(s, a, x) /\ c[i + 1] = a + 4 + Len(x.val)
        /\ a \in Nat /\ x \in Param
    BY <1>1, <2>1 DEF Chain
  <2>3. /\ Len(x.val) \in Nat
        /\ x.val \in Seq(Byte)
        /\ x = [tag |-> x.tag, val |-> x.val]
    BY <2>2 DEF Param
  <2> HIDE DEF x, a
  <2>4. /\ Parsed!ItemFits(s, a) /\ a \in 0 .. Len(s)
        /\ Parsed!NextAfter(s, a) = c[i + 1]
        /\ Parsed!ItemAt(s, a) = [tag |-> x.tag, val |-> x.val]
    BY <2>2, <2>3, StandsIsRead
  <2>5. Parsed!ItemAt(s, a) = x
    BY <2>3, <2>4, Zenon
  <2>6. Parsed!ItemsFrom(s, a) = << x >> \o SubSeq(items, i + 1, n)
    BY <2>4, <2>5, WalkUnfolds
  <2>7. << items[i] >> \o SubSeq(items, i + 1, n) = SubSeq(items, i, n)
    BY <2>1, SuffixSplits
  <2>8. i - 1 \in T
    BY <2>1, <2>6, <2>7 DEF x, a
  <2> QED
    BY <1>3, <2>1, <2>8
<1>5. Parsed!ItemsFrom(s, c[1]) = SubSeq(items, 1, n)
  BY <1>4
<1>6. SubSeq(items, 1, n) = items
  BY <1>0
<1> QED
  BY <1>5, <1>6 DEF Chain

(* More bytes after those that are there. *)
Extends(s2, s) == Len(s) <= Len(s2) /\ \A j \in 1 .. Len(s) : s2[j] = s[j]

(* A chain outlives the bytes that are added behind it. *)
LEMMA ChainGrows ==
    ASSUME NEW s \in Seq(Nat), NEW s2 \in Seq(Nat), Extends(s2, s),
           NEW skip, NEW items \in Seq(Param), NEW c, Chain(s, skip, items, c)
    PROVE  Chain(s2, skip, items, c)
<1> SUFFICES ASSUME NEW k \in 1 .. Len(items)
             PROVE  Stands(s2, c[k], items[k])
  BY DEF Chain
<1> DEFINE a == c[k]
           x == items[k]
           n == Len(x.val)
<1>1. Stands(s, a, x)
  BY DEF Chain
<1>2. a \in Nat /\ n \in Nat /\ Len(s) \in Nat /\ Len(s2) \in Nat
  <2>1. Len(items) \in Nat /\ k \in 1 .. Len(items) + 1 /\ x \in Param
    OBVIOUS
  <2>2. c \in [1 .. Len(items) + 1 -> Nat]
    BY Zenon DEF Chain
  <2>3. a \in Nat
    BY <2>1, <2>2
  <2>4. n \in Nat
    BY <2>1 DEF Param
  <2> QED
    BY <2>3, <2>4
<1>3. /\ a + 4 + n <= Len(s)
      /\ Parsed!WordAt(s, a + 1) = x.tag /\ Parsed!WordAt(s, a + 3) = n
      /\ \A j \in 1 .. n : s[a + 4 + j] = x.val[j]
  BY <1>1, Zenon DEF Stands
<1> HIDE DEF a, x, n
<1>4. ASSUME NEW j \in 1 .. 4 + n
      PROVE  s2[a + j] = s[a + j]
  <2>1. a + j \in 1 .. Len(s)
    BY <1>2, <1>3
  <2> QED
    BY <2>1, Zenon DEF Extends
<1>5. a + 4 + n <= Len(s2)
  BY <1>2, <1>3 DEF Extends
<1>6. Parsed!WordAt(s2, a + 1) = Parsed!WordAt(s, a + 1)
  <2>1. s2[a + 1] = s[a + 1] /\ s2[a + 2] = s[a + 2] /\ a + 1 + 1 = a + 2
    BY <1>2, <1>4
  <2> QED
    BY <2>1, Zenon DEF Parsed!WordAt
<1>7. Parsed!WordAt(s2, a + 3) = Parsed!WordAt(s, a + 3)
  <2>1. s2[a + 3] = s[a + 3] /\ s2[a + 4] = s[a + 4] /\ a + 3 + 1 = a + 4
    BY <1>2, <1>4
  <2> QED
    BY <2>1, Zenon DEF Parsed!WordAt
<1>8. ASSUME NEW j \in 1 .. n PROVE s2[a + 4 + j] = x.val[j]
  <2>1. 4 + j \in 1 .. 4 + n /\ a + (4 + j) = a + 4 + j
    BY <1>2
  <2> QED
    BY <1>3, <1>4, <2>1
<1>9. Stands(s2, a, x)
  BY <1>3, <1>5, <1>6, <1>7, <1>8, Zenon DEF Stands, n
<1> QED
  BY <1>9 DEF a, x

(* One more at the end. *)
LEMMA ChainMore ==
    ASSUME NEW s \in Seq(Nat), NEW skip, NEW items \in Seq(Param), NEW c,
           Chain(s, skip, items, c), NEW x \in Param,
           Stands(s, c[Len(items) + 1], x)
    PROVE  \E d : /\ Chain(s, skip, Append(items, x), d)
                  /\ d[Len(Append(items, x)) + 1]
                       = c[Len(items) + 1] + 4 + Len(x.val)
<1> DEFINE n == Len(items)
           more == Append(items, x)
           last == c[n + 1] + 4 + Len(x.val)
           d == [k \in 1 .. n + 2 |-> IF k = n + 2 THEN last ELSE c[k]]
<1>1. n \in Nat /\ Len(x.val) \in Nat /\ c \in [1 .. n + 1 -> Nat]
  BY DEF Chain, Param
<1>2. /\ more \in Seq(Param) /\ Len(more) = n + 1 /\ more[n + 1] = x
      /\ \A k \in 1 .. n : more[k] = items[k]
  BY <1>1, AppendProperties
<1>3. last \in Nat
  BY <1>1
<1> HIDE DEF more, last
<1>4. d \in [1 .. Len(more) + 1 -> Nat]
  <2>1. \A k \in 1 .. n + 2 : k # n + 2 => k \in 1 .. n + 1
    BY <1>1
  <2>2. Len(more) + 1 = n + 2
    BY <1>1, <1>2
  <2> QED
    BY <1>1, <1>3, <2>1, <2>2
<1>5. d[n + 2] = last /\ \A k \in 1 .. n + 1 : d[k] = c[k]
  BY <1>1
<1> HIDE DEF d
<1>6. d[1] = skip
  BY <1>1, <1>5 DEF Chain
<1>7. ASSUME NEW k \in 1 .. Len(more)
      PROVE  Stands(s, d[k], more[k]) /\ d[k + 1] = d[k] + 4 + Len(more[k].val)
  <2>1. CASE k = n + 1
    <3>1. d[k] = c[n + 1] /\ d[k + 1] = last /\ more[k] = x
      BY <1>1, <1>2, <1>5, <2>1
    <3> QED
      BY <3>1 DEF last
  <2>2. CASE k # n + 1
    <3>1. k \in 1 .. n /\ k \in 1 .. n + 1 /\ k + 1 \in 1 .. n + 1
      BY <1>1, <1>2, <2>2
    <3>2. d[k] = c[k] /\ d[k + 1] = c[k + 1] /\ more[k] = items[k]
      BY <1>2, <1>5, <3>1
    <3>3. Stands(s, c[k], items[k]) /\ c[k + 1] = c[k] + 4 + Len(items[k].val)
      BY <3>1, Zenon DEF Chain
    <3> QED
      BY <3>2, <3>3, Zenon
  <2> QED
    BY <2>1, <2>2
<1>8. Chain(s, skip, more, d)
  BY <1>4, <1>6, <1>7, Zenon DEF Chain
<1>9. d[Len(more) + 1] = last
  BY <1>1, <1>2, <1>5
<1> QED
  BY <1>8, <1>9, Zenon DEF more, last

(* Quotient and remainder make up the number. *)
LEMMA DivMod ==
    ASSUME NEW n \in Nat, NEW b \in Nat, b > 0
    PROVE  (n % b) + b * (n \div b) = n
OBVIOUS

(* A word that is written low byte first reads back. *)
LEMMA WordReads ==
    ASSUME NEW s, NEW a \in Nat, NEW n \in Nat,
           s[a + 1] = Word(n)[1], s[a + 2] = Word(n)[2]
    PROVE  Parsed!WordAt(s, a + 1) = n
<1>1. s[a + 1] = n % Base /\ s[a + 2] = n \div Base
  BY DEF Word
<1>2. (n % Base) + Base * (n \div Base) = n
  <2>1. Base \in Nat /\ Base > 0
    BY BaseAssumption
  <2> QED
    BY <2>1, DivMod
<1>3. a + 1 + 1 = a + 2
  OBVIOUS
<1> QED
  BY <1>1, <1>2, <1>3, Zenon DEF Parsed!WordAt

-----------------------------------------------------------------------------
(* What stands in the bytes of builder b after the first skip: items, and  *)
(* then nothing or, when there is no room for more, the tag of a nested    *)
(* parameter that had no room.                                             *)
Tells(s, b, skip, items) ==
    \E c : /\ Chain(s, skip, items, c)
           /\ \/ Len(s) = c[Len(items) + 1]
              \/ Len(s) = c[Len(items) + 1] + 2 /\ EmptySize(b) < 2

Skip(i) == IF i = 1 THEN HeaderLen ELSE 0

(* Every builder tells what went into it. *)
Told == \A i \in DOMAIN stk : Tells(Used(mem, stk[i]), stk[i], Skip(i), kept[i])

(* A builder that has bytes has them behind all that the outer ones use. *)
Apart == \A i, j \in DOMAIN stk :
             i < j => stk[j].size = 0 \/ GetPS(stk[i]) <= stk[j].p

RInv == IInv /\ Apart /\ Told

(* The bytes a builder has used, as a sequence. *)
LEMMA UsedBytes ==
    ASSUME NEW m, NEW b \in Builder,
           \A a \in b.p .. GetPS(b) - 1 : m[a] \in Byte
    PROVE  /\ Used(m, b) \in Seq(Byte) /\ Used(m, b) \in Seq(Nat)
           /\ Len(Used(m, b)) = b.l /\ b.l \in Nat /\ b.p \in Nat
           /\ \A k \in 1 .. b.l : Used(m, b)[k] = m[b.p + k - 1]
<1>2. b.l \in Nat /\ b.p \in Nat
  BY DEF Builder
<1>3. ASSUME NEW k \in 1 .. b.l PROVE m[b.p + k - 1] \in Byte
  <2>1. b.p + k - 1 \in b.p .. GetPS(b) - 1
    BY <1>2 DEF GetPS
  <2> QED
    BY <2>1
<1>4. Used(m, b) \in Seq(Byte) /\ Len(Used(m, b)) = b.l
  BY <1>2, <1>3 DEF Used
<1>5. Seq(Byte) \subseteq Seq(Nat)
  BY BaseAssumption DEF Byte
<1>6. \A k \in 1 .. b.l : Used(m, b)[k] = m[b.p + k - 1]
  BY DEF Used
<1> QED
  BY <1>2, <1>4, <1>5, <1>6

(* What a builder tells is what the parser reads. *)
LEMMA ToldIsRead == RInv => RoundTrip
<1> SUFFICES ASSUME RInv, NEW i \in DOMAIN stk
             PROVE  Parsed!ItemsFrom(Used(mem, stk[i]), Skip(i)) = kept[i]
  BY DEF RoundTrip, Skip
<1> DEFINE s == Used(mem, stk[i])
<1>1. s \in Seq(Nat) /\ kept[i] \in Seq(Param) /\ Skip(i) \in Nat
  <2>1. \A a \in stk[i].p .. GetPS(stk[i]) - 1 : mem[a] \in Byte
    BY DEF RInv, IInv, NothingUnset
  <2>2. stk[i] \in Builder /\ kept[i] \in Seq(Param)
    BY DEF RInv, IInv, TypeOK
  <2>3. Skip(i) \in Nat
    BY BuilderAssumption DEF Skip
  <2> QED
    BY <2>1, <2>2, <2>3, UsedBytes
<1>2. Tells(s, stk[i], Skip(i), kept[i])
  BY DEF RInv, Told
<1> HIDE DEF s
<1>3. PICK c : /\ Chain(s, Skip(i), kept[i], c)
               /\ \/ Len(s) = c[Len(kept[i]) + 1]
                  \/ Len(s) = c[Len(kept[i]) + 1] + 2
  BY <1>2 DEF Tells
<1>4. Len(kept[i]) + 1 \in 1 .. Len(kept[i]) + 1 /\ c[Len(kept[i]) + 1] \in Nat
  BY <1>1, <1>3 DEF Chain
<1>5. c[Len(kept[i]) + 1] <= Len(s) /\ Len(s) < c[Len(kept[i]) + 1] + 4
  BY <1>1, <1>3, <1>4
<1> QED
  BY <1>1, <1>3, <1>5, ChainReads DEF s

-----------------------------------------------------------------------------
(* A builder that had room gets one more parameter. *)
LEMMA TellsMore ==
    ASSUME NEW s \in Seq(Nat), NEW s2 \in Seq(Nat), Extends(s2, s),
           NEW b, NEW b2, ~(EmptySize(b) < 2),
           NEW skip \in Nat, NEW items \in Seq(Param), Tells(s, b, skip, items),
           NEW x \in Param, Stands(s2, Len(s), x),
           Len(s2) = Len(s) + 4 + Len(x.val)
    PROVE  Tells(s2, b2, skip, Append(items, x))
<1>1. PICK c : Chain(s, skip, items, c) /\ Len(s) = c[Len(items) + 1]
  BY Zenon DEF Tells
<1>2. Chain(s2, skip, items, c)
  BY <1>1, ChainGrows
<1>3. Stands(s2, c[Len(items) + 1], x)
  BY <1>1
<1>4. PICK d : /\ Chain(s2, skip, Append(items, x), d)
               /\ d[Len(Append(items, x)) + 1]
                     = c[Len(items) + 1] + 4 + Len(x.val)
  BY <1>2, <1>3, ChainMore
<1>5. Len(s2) = d[Len(Append(items, x)) + 1]
  BY <1>1, <1>4
<1> QED
  BY <1>4, <1>5, Zenon DEF Tells

(* One that has room for a tag only may be left with it. *)
LEMMA TellsTag ==
    ASSUME NEW s \in Seq(Nat), NEW s2 \in Seq(Nat), Extends(s2, s),
           NEW b, NEW b2, ~(EmptySize(b) < 2), EmptySize(b2) < 2,
           NEW skip \in Nat, NEW items \in Seq(Param), Tells(s, b, skip, items),
           Len(s2) = Len(s) + 2
    PROVE  Tells(s2, b2, skip, items)
<1>1. PICK c : Chain(s, skip, items, c) /\ Len(s) = c[Len(items) + 1]
  BY Zenon DEF Tells
<1>2. Chain(s2, skip, items, c)
  BY <1>1, ChainGrows
<1> QED
  BY <1>1, <1>2, Zenon DEF Tells

(* And one whose bytes and room stay as they are tells the same. *)
LEMMA TellsSame ==
    ASSUME NEW m, NEW m2, NEW b \in Builder, NEW b2 \in Builder,
           b2.p = b.p, b2.l = b.l, b2.size = b.size,
           \A a \in b.p .. GetPS(b) - 1 : m2[a] = m[a],
           NEW skip, NEW items, Tells(Used(m, b), b, skip, items)
    PROVE  Tells(Used(m2, b2), b2, skip, items)
<1>1. b.p \in Nat /\ b.l \in Nat
  BY DEF Builder
<1>2. \A k \in 1 .. b.l : m2[b.p + k - 1] = m[b.p + k - 1]
  BY <1>1 DEF GetPS
<1>3. Used(m2, b2) = Used(m, b)
  BY <1>2 DEF Used
<1>4. EmptySize(b2) = EmptySize(b)
  BY DEF EmptySize
<1> QED
  BY <1>3, <1>4, Zenon DEF Tells

(* A Store changes the bytes from the cursor on, and only those. *)
LEMMA StoreAt ==
    ASSUME NEW m \in Memory, NEW b \in Builder, NEW s \in Seq(Byte),
           NEW a \in Address
    PROVE  Store(m, b, s)[a] =
               IF Fits(b, Len(s)) /\ a \in GetPS(b) .. GetPS(b) + Len(s) - 1
               THEN s[a - GetPS(b) + 1] ELSE m[a]
  BY DEF Store, Write, Memory

(* The bytes of a parameter. *)
LEMMA BytesOfParam ==
    ASSUME NEW t \in Tags, NEW v \in Values
    PROVE  LET cut == SubSeq(v, 1, Len(v) % WordMax)
               s == wTwLV(t, v)
           IN  /\ Len(cut) \in 0 .. WordMax - 1 /\ Len(s) = 4 + Len(cut)
               /\ s[1] = Word(t)[1] /\ s[2] = Word(t)[2]
               /\ s[3] = Word(Len(cut))[1] /\ s[4] = Word(Len(cut))[2]
               /\ \A j \in 1 .. Len(cut) : s[4 + j] = cut[j]
<1>1. WordMax \in Nat /\ WordMax > 0
  BY BaseAssumption DEF WordMax
<1>2. v \in Seq(Byte) /\ t \in 0 .. WordMax - 1
  BY BuilderAssumption
<1> DEFINE len == Len(v) % WordMax
           cut == SubSeq(v, 1, len)
<1>3. len \in 0 .. WordMax - 1 /\ len <= Len(v)
  BY <1>1, <1>2
<1>4. Len(cut) = len /\ cut \in Seq(Byte)
  BY <1>2, <1>3, ParamBytes
<1>5. /\ Word(t) \in Seq(Byte) /\ Len(Word(t)) = 2
      /\ Word(len) \in Seq(Byte) /\ Len(Word(len)) = 2
  BY <1>2, <1>3, WordBytes
<1>6. wTwLV(t, v) = Word(t) \o Word(len) \o cut
  BY DEF wTwLV
<1> HIDE DEF cut, len
<1>7. ASSUME NEW p \in Seq(Byte), NEW q \in Seq(Byte), NEW r \in Seq(Byte),
             Len(p) = 2, Len(q) = 2
      PROVE  LET s == p \o q \o r
             IN  /\ Len(s) = 4 + Len(r)
                 /\ s[1] = p[1] /\ s[2] = p[2] /\ s[3] = q[1] /\ s[4] = q[2]
                 /\ \A j \in 1 .. Len(r) : s[4 + j] = r[j]
  <2>0. Len(p) = 2 /\ Len(q) = 2 /\ Len(r) \in Nat
    BY <1>7
  <2> DEFINE w == p \o q
             z == w \o r
  <2>1. /\ w \in Seq(Byte) /\ Len(w) = Len(p) + Len(q)
        /\ \A i \in 1 .. Len(p) + Len(q) :
               w[i] = IF i <= Len(p) THEN p[i] ELSE q[i - Len(p)]
    BY ConcatProperties
  <2> HIDE DEF w
  <2>2. w[1] = p[1] /\ w[2] = p[2] /\ w[3] = q[1] /\ w[4] = q[2] /\ Len(w) = 4
    BY <2>0, <2>1
  <2>3. /\ Len(z) = Len(w) + Len(r)
        /\ \A i \in 1 .. Len(w) + Len(r) :
               z[i] = IF i <= Len(w) THEN w[i] ELSE r[i - Len(w)]
    <3>1. w \in Seq(Byte) /\ r \in Seq(Byte)
      BY <2>1
    <3> QED
      BY <3>1, ConcatProperties, Zenon
  <2> HIDE DEF z
  <2>4. /\ z[1] = w[1]
        /\ z[2] = w[2]
        /\ z[3] = w[3]
        /\ z[4] = w[4]
        /\ Len(z) = 4 + Len(r)
    <3>1. \A i \in {1, 2, 3, 4} : i \in 1 .. Len(w) + Len(r) /\ i <= Len(w)
      BY <2>0, <2>2
    <3>2. \A i \in {1, 2, 3, 4} : z[i] = w[i]
      BY <2>3, <3>1
    <3> QED
      BY <2>2, <2>3, <3>2
  <2>5. ASSUME NEW j \in 1 .. Len(r) PROVE z[4 + j] = r[j]
    <3>1. /\ 4 + j \in 1 .. Len(w) + Len(r)
          /\ ~(4 + j <= Len(w))
          /\ 4 + j - Len(w) = j
      BY <2>0, <2>2
    <3> QED
      BY <2>3, <3>1
  <2> QED
    BY <2>2, <2>4, <2>5 DEF w, z
<1>8. LET s == Word(t) \o Word(len) \o cut
      IN  /\ Len(s) = 4 + Len(cut)
          /\ s[1] = Word(t)[1] /\ s[2] = Word(t)[2]
          /\ s[3] = Word(len)[1] /\ s[4] = Word(len)[2]
          /\ \A j \in 1 .. Len(cut) : s[4 + j] = cut[j]
  BY <1>4, <1>5, <1>7, SMTT(30)
<1> QED
  BY <1>3, <1>4, <1>6, <1>8 DEF cut, len

(* Four bytes that are the words of tag and length, and then the value. *)
LEMMA BytesStand ==
    ASSUME NEW s \in Seq(Nat), NEW a \in Nat, NEW x, x.tag \in Nat,
           Len(x.val) \in Nat,
           a + 4 + Len(x.val) <= Len(s),
           s[a + 1] = Word(x.tag)[1], s[a + 2] = Word(x.tag)[2],
           s[a + 3] = Word(Len(x.val))[1], s[a + 4] = Word(Len(x.val))[2],
           \A j \in 1 .. Len(x.val) : s[a + 4 + j] = x.val[j]
    PROVE  Stands(s, a, x)
<1>1. Parsed!WordAt(s, a + 1) = x.tag
  BY WordReads
<1>2. Parsed!WordAt(s, a + 3) = Len(x.val)
  <2> DEFINE e == a + 2
             n == Len(x.val)
  <2>1. e + 1 = a + 3 /\ e + 2 = a + 4 /\ e \in Nat /\ n \in Nat
    OBVIOUS
  <2>2. s[e + 1] = Word(n)[1] /\ s[e + 2] = Word(n)[2]
    BY <2>1
  <2> HIDE DEF e, n
  <2>3. Parsed!WordAt(s, e + 1) = n
    BY <2>1, <2>2, WordReads, SMTT(30)
  <2> QED
    BY <2>1, <2>3 DEF n
<1> QED
  BY <1>1, <1>2, Zenon DEF Stands

-----------------------------------------------------------------------------
(* The bytes of a builder below the innermost one are left alone by what   *)
(* is written through that one.                                            *)
LEMMA LowerUntouched ==
    ASSUME IInv, Apart, NEW i \in DOMAIN stk, NEW n \in DOMAIN stk, i < n,
           NEW s \in Seq(Byte), NEW m \in Memory, NEW b \in Builder,
           b.p = stk[n].p, b.size = stk[n].size, b.l >= stk[n].l
    PROVE  \A a \in stk[i].p .. GetPS(stk[i]) - 1 :
               a \in Address /\ Store(m, b, s)[a] = m[a]
<1> DEFINE x == stk[i]
           y == stk[n]
<1>1. /\ x \in Builder /\ x.l <= x.size /\ x.p + x.size <= Size
      /\ y \in Builder
  BY DEF IInv, TypeOK, InBounds
<1>2. y.size = 0 \/ GetPS(x) <= y.p
  BY DEF Apart
<1> HIDE DEF x, y
<1>3. /\ x.p \in Nat /\ x.l \in Nat /\ x.size \in Nat
      /\ y.p \in Nat /\ y.l \in Nat /\ b.p \in Nat /\ b.l \in Nat
  BY <1>1 DEF Builder
<1> SUFFICES ASSUME NEW a \in x.p .. GetPS(x) - 1
             PROVE  a \in Address /\ Store(m, b, s)[a] = m[a]
  BY DEF x
<1>4. a \in Address
  BY <1>1, <1>3, BuilderAssumption DEF GetPS, Address
<1>5. ~(Fits(b, Len(s)) /\ a \in GetPS(b) .. GetPS(b) + Len(s) - 1)
  <2>1. CASE y.size = 0
    BY <2>1 DEF Fits, y
  <2>2. CASE GetPS(x) <= y.p
    <3>1. GetPS(b) \in Nat /\ GetPS(b) >= y.p /\ GetPS(x) \in Nat
      BY <1>3 DEF GetPS, y
    <3>2. a < GetPS(b)
      BY <1>3, <2>2, <3>1
    <3> QED
      BY <1>3, <3>1, <3>2
  <2> QED
    BY <1>2, <2>1, <2>2
<1>6. Store(m, b, s)[a] = m[a]
  BY <1>4, <1>5, StoreAt, Zenon
<1> QED
  BY <1>4, <1>6

(* AddwTwLV: what the innermost builder tells is longer by one parameter,  *)
(* or the same.                                                            *)
LEMMA AddTells ==
    ASSUME RInv, NEW t \in Tags, NEW v \in Values, AddwTwLV(t, v)
    PROVE  RInv'
<1> USE BuilderAssumption
<1> DEFINE s == wTwLV(t, v)
           N == Len(stk)
           b == stk[N]
           c == Seek(b, Len(s))
           cut == SubSeq(v, 1, Len(v) % WordMax)
           x == [tag |-> t, val |-> cut]
<1>0. IInv /\ Apart /\ Told
  BY DEF RInv
<1>a. IInv'
  BY <1>0, AddHolds
<1>1. s \in Seq(Byte) /\ cut \in Seq(Byte)
  BY ParamBytes
<1>2. /\ stk \in Seq(Builder) /\ N \in Nat /\ N > 0 /\ N \in DOMAIN stk
      /\ DOMAIN stk = 1 .. N
  BY <1>0 DEF IInv, TypeOK
<1>3. b \in Builder /\ b.l <= b.size /\ b.p + b.size <= Size
  BY <1>0, <1>2 DEF IInv, InBounds
<1>4. mem \in Memory
  BY <1>0 DEF IInv, TypeOK, Memory
<1>e. /\ Len(cut) \in 0 .. WordMax - 1 /\ Len(s) = 4 + Len(cut)
      /\ s[1] = Word(t)[1] /\ s[2] = Word(t)[2]
      /\ s[3] = Word(Len(cut))[1] /\ s[4] = Word(Len(cut))[2]
      /\ \A j \in 1 .. Len(cut) : s[4 + j] = cut[j]
  BY BytesOfParam
<1>x. x \in Param /\ x.tag = t /\ x.val = cut
  BY <1>1 DEF Param
<1>k. kept \in Seq(Seq(Param)) /\ Len(kept) = N
  BY <1>0 DEF IInv, TypeOK
<1>m. kept' =
          IF Fits(b, Len(s)) THEN [kept EXCEPT ![N] = Append(@, x)] ELSE kept
  BY DEF AddwTwLV, Top
<1> HIDE DEF s, cut, x
<1>b. \A a \in b.p .. GetPS(b) - 1 : mem[a] \in Byte
  BY <1>0, <1>2 DEF IInv, NothingUnset
<1>t. Tells(Used(mem, b), b, Skip(N), kept[N])
  BY <1>0, <1>2 DEF Told
<1> HIDE DEF b
<1>n. Len(s) \in Nat
  BY <1>1
<1>5. /\ c \in Builder /\ c.p = b.p /\ c.size = b.size
      /\ c.l = (IF Fits(b, Len(s)) THEN b.l + Len(s) ELSE b.l)
  BY <1>1, <1>3, SeekKeeps
<1>6. mem' = Store(mem, b, s) /\ stk' = [stk EXCEPT ![N] = c]
  BY DEF AddwTwLV, s, b, Top
<1>N. N = Len(stk) /\ b = stk[N]
  BY DEF b
<1> HIDE DEF c, N
<1>8. /\ DOMAIN stk' = 1 .. N /\ stk'[N] = c
      /\ \A i \in 1 .. N : i # N => stk'[i] = stk[i]
  BY <1>2, <1>6
<1>9. \A i \in 1 .. N : stk'[i].p = stk[i].p /\ stk'[i].size = stk[i].size
  BY <1>5, <1>8, <1>N, Zenon
<1>10. Apart'
  <2> SUFFICES ASSUME NEW i \in 1 .. N, NEW j \in 1 .. N, i < j
               PROVE  stk'[j].size = 0 \/ GetPS(stk'[i]) <= stk'[j].p
    BY <1>8 DEF Apart
  <2>1. i # N /\ stk'[i] = stk[i]
    BY <1>2, <1>8
  <2>2. stk[j].size = 0 \/ GetPS(stk[i]) <= stk[j].p
    BY <1>0, <1>2 DEF Apart
  <2> QED
    BY <1>9, <2>1, <2>2
<1>11. ASSUME NEW i \in 1 .. N, i # N
       PROVE  Tells(Used(mem', stk'[i]), stk'[i], Skip(i), kept'[i])
  <2>1. stk'[i] = stk[i] /\ stk[i] \in Builder /\ i < N
    BY <1>2, <1>8, <1>11
  <2>2. kept'[i] = kept[i]
    BY <1>k, <1>m, <1>11
  <2>3. \A a \in stk[i].p .. GetPS(stk[i]) - 1 : mem'[a] = mem[a]
    <3>1. b.p = stk[N].p /\ b.size = stk[N].size /\ b.l >= stk[N].l
      BY <1>3, <1>N DEF Builder
    <3>2. i \in DOMAIN stk /\ N \in DOMAIN stk
      BY <1>2
    <3>3. \A a \in stk[i].p .. GetPS(stk[i]) - 1 :
              a \in Address /\ Store(mem, b, s)[a] = mem[a]
      BY <1>0, <1>1, <1>3, <1>4, <2>1, <3>1, <3>2, LowerUntouched
    <3> QED
      BY <1>6, <3>3, Zenon
  <2>4. Tells(Used(mem, stk[i]), stk[i], Skip(i), kept[i])
    BY <1>0, <1>2 DEF Told
  <2> QED
    BY <2>1, <2>2, <2>3, <2>4, TellsSame
<1>12. Tells(Used(mem', c), c, Skip(N), kept'[N])
  <2>1. CASE ~Fits(b, Len(s))
    <3>1. mem' = mem /\ kept' = kept /\ c.l = b.l
      BY <1>5, <1>6, <1>m, <2>1 DEF Store
    <3> QED
      BY <1>3, <1>5, <1>t, <3>1, TellsSame
  <2>2. CASE Fits(b, Len(s))
    <3> DEFINE old == Used(mem, b)
               new == Used(mem', c)
    <3>1. /\ old \in Seq(Nat) /\ Len(old) = b.l /\ b.l \in Nat /\ b.p \in Nat
          /\ \A k \in 1 .. b.l : old[k] = mem[b.p + k - 1]
      BY <1>3, <1>b, UsedBytes
    <3>2. /\ new \in Seq(Nat) /\ Len(new) = c.l
          /\ \A k \in 1 .. c.l : new[k] = mem'[c.p + k - 1]
      <4>1. \A a \in c.p .. GetPS(c) - 1 : mem'[a] \in Byte
        BY <1>a, <1>2, <1>8 DEF IInv, NothingUnset
      <4> QED
        BY <1>5, <4>1, UsedBytes
    <3>3. c.l = b.l + Len(s) /\ b.size \in Nat /\ b.l + Len(s) <= b.size
      BY <1>3, <1>5, <2>2 DEF Fits, Builder
    <3>4. ASSUME NEW k \in 1 .. c.l
          PROVE  new[k] = IF k <= b.l THEN old[k] ELSE s[k - b.l]
      <4> DEFINE a == b.p + k - 1
      <4>1. a \in Address /\ GetPS(b) = b.p + b.l
        BY <1>3, <1>n, <3>1, <3>3, SMTT(30) DEF Address, GetPS
      <4>2. new[k] = Store(mem, b, s)[a]
        BY <1>5, <1>6, <3>2
      <4>3. Store(mem, b, s)[a] =
               IF a \in GetPS(b) .. GetPS(b) + Len(s) - 1
               THEN s[a - GetPS(b) + 1] ELSE mem[a]
        BY <1>1, <1>3, <1>4, <2>2, <4>1, StoreAt
      <4>4. CASE k <= b.l
        <5>1. a \notin GetPS(b) .. GetPS(b) + Len(s) - 1 /\ k \in 1 .. b.l
          BY <1>n, <3>1, <4>1, <4>4
        <5> QED
          BY <3>1, <4>2, <4>3, <4>4, <5>1
      <4>5. CASE ~(k <= b.l)
        <5>1. /\ a \in GetPS(b) .. GetPS(b) + Len(s) - 1
              /\ a - GetPS(b) + 1 = k - b.l
          BY <1>n, <3>1, <3>3, <4>1, <4>5, SMTT(30)
        <5> QED
          BY <4>2, <4>3, <4>5, <5>1
      <4> QED
        BY <4>4, <4>5
    <3> HIDE DEF old, new
    <3>5. Extends(new, old)
      <4>1. Len(old) <= Len(new)
        BY <1>n, <3>1, <3>2, <3>3
      <4>2. \A k \in 1 .. Len(old) : k \in 1 .. c.l /\ k <= b.l
        BY <1>n, <3>1, <3>3
      <4> QED
        BY <3>4, <4>1, <4>2 DEF Extends
    <3>6. Stands(new, b.l, x)
      <4>1. ASSUME NEW k \in 1 .. Len(s) PROVE new[b.l + k] = s[k]
        <5> DEFINE q == b.l + k
        <5>1. q \in 1 .. c.l /\ ~(q <= b.l) /\ q - b.l = k
          BY <1>n, <3>1, <3>3
        <5> HIDE DEF q
        <5>2. new[q] = s[k]
          BY <3>4, <5>1, Zenon
        <5> QED
          BY <5>2 DEF q
      <4>2. Len(cut) \in Nat /\ t \in Nat
        BY <1>1
      <4>3. /\ new[b.l + 1] = Word(t)[1] /\ new[b.l + 2] = Word(t)[2]
            /\ new[b.l + 3] = Word(Len(cut))[1]
            /\ new[b.l + 4] = Word(Len(cut))[2]
        <5>1. {1, 2, 3, 4} \subseteq 1 .. Len(s)
          BY <1>e, <4>2
        <5> QED
          BY <1>e, <4>1, <5>1
      <4>4. ASSUME NEW j \in 1 .. Len(cut) PROVE new[b.l + 4 + j] = cut[j]
        <5>1. 4 + j \in 1 .. Len(s) /\ b.l + (4 + j) = b.l + 4 + j
          <6>1. Len(s) = 4 + Len(cut) /\ b.l \in Nat /\ j \in Nat
            BY <1>e, <3>1, <4>2
          <6> QED
            BY <4>2, <6>1
        <5> QED
          BY <1>e, <4>1, <5>1
      <4>5. b.l + 4 + Len(cut) <= Len(new)
        BY <1>e, <3>1, <3>2, <3>3, <4>2
      <4> QED
        BY <1>x, <3>1, <3>2, <4>2, <4>3, <4>4, <4>5, BytesStand
    <3>7. ~(EmptySize(b) < 2)
      BY <1>e, <3>1, <3>3 DEF EmptySize
    <3>8. Len(new) = Len(old) + 4 + Len(x.val)
      <4>1. Len(new) = b.l + Len(s) /\ Len(old) = b.l /\ b.l \in Nat
        BY <3>1, <3>2, <3>3
      <4>2. Len(s) = 4 + Len(cut) /\ x.val = cut /\ Len(cut) \in Nat
        BY <1>1, <1>e, <1>x
      <4>3. \A p, q \in Nat : p + (4 + q) = p + 4 + q
        OBVIOUS
      <4>4. Len(new) = Len(old) + (4 + Len(x.val))
        BY <4>1, <4>2, Zenon
      <4> QED
        BY <4>1, <4>2, <4>3, <4>4, Zenon
    <3>9. /\ kept[N] \in Seq(Param)
          /\ kept'[N] = Append(kept[N], x)
          /\ Skip(N) \in Nat
      BY <1>2, <1>k, <1>m, <2>2 DEF Skip
    <3>10. Tells(new, c, Skip(N), Append(kept[N], x))
      BY <1>t, <1>x, <3>1, <3>2, <3>5, <3>6, <3>7, <3>8, <3>9, TellsMore DEF old
    <3> QED
      BY <3>9, <3>10 DEF new
  <2> QED
    BY <2>1, <2>2
<1>13. Told'
  <2>1. ASSUME NEW i \in DOMAIN stk'
        PROVE  Tells(Used(mem', stk'[i]), stk'[i], Skip(i), kept'[i])
    <3>1. CASE i = N
      BY <1>8, <1>12, <3>1
    <3>2. CASE i # N
      BY <1>8, <1>11, <3>2
    <3> QED
      BY <3>1, <3>2
  <2> QED
    BY <2>1 DEF Told, Skip
<1> QED
  BY <1>a, <1>10, <1>13 DEF RInv

(* The empty list is told where nothing follows the first bytes. *)
LEMMA TellsNothing ==
    ASSUME NEW s \in Seq(Nat), NEW b
    PROVE  Tells(s, b, Len(s), <<>>)
<1> DEFINE c == [k \in 1 .. 1 |-> Len(s)]
<1>1. c \in [1 .. Len(<<>>) + 1 -> Nat] /\ c[1] = Len(s)
  OBVIOUS
<1>2. \A k \in 1 .. Len(<<>>) : FALSE
  OBVIOUS
<1> HIDE DEF c
<1>3. Chain(s, Len(s), <<>>, c)
  BY <1>1, <1>2, Zenon DEF Chain
<1>4. Len(s) = c[Len(<<>>) + 1]
  BY <1>1
<1> QED
  BY <1>3, <1>4, Zenon DEF Tells

(* At the start the outermost builder holds its header and no parameter. *)
LEMMA InitTells == Init => RInv
<1> SUFFICES ASSUME Init PROVE RInv
  OBVIOUS
<1>1. IInv
  BY InitHolds
<1>2. Len(stk) = 1 /\ DOMAIN stk = {1} /\ kept[1] = <<>>
  BY DEF Init
<1>3. stk[1] = SetHeader(Over(0, Size), HeaderLen)
  BY DEF Init
<1>4. stk[1].l = HeaderLen
  <2> DEFINE o == Over(0, Size)
             k == Seek(o, HeaderLen)
  <2>1. o = [p |-> 0, size |-> Size, l |-> 0, state |-> "empty",
             error |-> FALSE]
    <3>1. Size # 0
      BY BuilderAssumption
    <3> QED
      BY <3>1, Zenon DEF Over
  <2>2. stk[1] = SetHeader(o, HeaderLen)
    BY <1>3
  <2> HIDE DEF o
  <2>3. o.l = 0 /\ o.size = Size
    BY <2>1, Zenon
  <2>4. Fits(o, HeaderLen) /\ o.l + HeaderLen = HeaderLen
    BY <2>3, BuilderAssumption DEF Fits
  <2>5. k = [o EXCEPT !.l = HeaderLen, !.state = "ok"]
    BY <2>4, Zenon DEF Seek
  <2>6. stk[1] = [k EXCEPT !.state = o.state]
    BY <2>2, <2>4, Zenon DEF SetHeader
  <2> HIDE DEF k
  <2>7. k.l = HeaderLen /\ DOMAIN k = {"p", "size", "l", "state", "error"}
    BY <2>1, <2>5
  <2> QED
    BY <2>6, <2>7
<1>5. /\ Used(mem, stk[1]) \in Seq(Nat) /\ Len(Used(mem, stk[1])) = HeaderLen
  <2>1. /\ stk[1] \in Builder
        /\ \A a \in stk[1].p .. GetPS(stk[1]) - 1 : mem[a] \in Byte
    BY <1>1, <1>2 DEF IInv, TypeOK, NothingUnset
  <2> QED
    BY <1>4, <2>1, UsedBytes
<1>6. Tells(Used(mem, stk[1]), stk[1], HeaderLen, <<>>)
  BY <1>5, TellsNothing
<1>7. Told
  BY <1>2, <1>6 DEF Told, Skip
<1>8. Apart
  BY <1>2 DEF Apart
<1> QED
  BY <1>1, <1>7, <1>8 DEF RInv

(* A nested builder has nothing to tell yet. *)
LEMMA InitNestedTells ==
    ASSUME RInv, InitNested
    PROVE  RInv'
<1> DEFINE N == Len(stk)
           b == stk[N]
           c == Init3(Null, GetPS(b), EmptySize(b), 4)
<1>0. IInv /\ Apart /\ Told
  BY DEF RInv
<1>1. IInv'
  BY <1>0, InitNestedHolds
<1>2. /\ stk \in Seq(Builder) /\ N \in Nat /\ N > 0 /\ DOMAIN stk = 1 .. N
      /\ kept \in Seq(Seq(Param)) /\ Len(kept) = N
  BY <1>0 DEF IInv, TypeOK
<1>3. /\ c \in Builder /\ c.l = 0
      /\ \/ c.size = 0
         \/ c.p = GetPS(b) + 4 /\ EmptySize(b) > 4
  BY <1>0, NewNested
<1>b. b \in Builder /\ b.l <= b.size
  BY <1>0, <1>2 DEF IInv, InBounds
<1> HIDE DEF c
<1>4. stk' = Append(stk, c) /\ mem' = mem /\ kept' = Append(kept, <<>>)
  BY DEF InitNested, Top, c
<1>5. /\ DOMAIN stk' = 1 .. N + 1 /\ stk'[N + 1] = c
      /\ \A i \in 1 .. N : stk'[i] = stk[i]
  BY <1>2, <1>3, <1>4, AppendProperties
<1>6. kept'[N + 1] = <<>> /\ \A i \in 1 .. N : kept'[i] = kept[i]
  BY <1>2, <1>4, AppendProperties
<1>7. Apart'
  <2> SUFFICES ASSUME NEW i \in 1 .. N + 1, NEW j \in 1 .. N + 1, i < j
               PROVE  stk'[j].size = 0 \/ GetPS(stk'[i]) <= stk'[j].p
    BY <1>5 DEF Apart
  <2>1. i \in 1 .. N /\ stk'[i] = stk[i]
    <3>1. i \in 1 .. N
      BY <1>2
    <3> QED
      BY <1>5, <3>1
  <2>2. CASE j # N + 1
    <3>1. j \in 1 .. N
      BY <1>2, <2>2
    <3>2. stk[j].size = 0 \/ GetPS(stk[i]) <= stk[j].p
      BY <1>0, <1>2, <2>1, <3>1 DEF Apart
    <3> QED
      BY <1>5, <2>1, <3>1, <3>2
  <2>3. CASE j = N + 1 /\ c.size # 0
    <3>1. c.p = GetPS(b) + 4 /\ EmptySize(b) > 4
      BY <1>3, <2>3
    <3>2. b.p \in Nat /\ b.l \in Nat /\ b.size # 0 /\ GetPS(b) = b.p + b.l
      BY <1>b, <3>1 DEF Builder, EmptySize, GetPS
    <3>3. stk[i] \in Builder
      BY <1>2, <2>1
    <3>4. GetPS(stk[i]) \in Nat
      BY <3>3 DEF Builder, GetPS
    <3>5. CASE i = N
      <4>1. GetPS(stk[i]) = GetPS(b)
        BY <3>5
      <4> HIDE DEF b
      <4> QED
        BY <1>5, <2>1, <2>3, <3>1, <3>4, <4>1
    <3>6. CASE i # N
      <4>1. i < N /\ N \in 1 .. N
        BY <1>2, <2>1, <3>6
      <4>2. GetPS(stk[i]) <= b.p
        BY <1>0, <1>2, <2>1, <3>2, <4>1 DEF Apart
      <4> HIDE DEF b
      <4>3. GetPS(stk[i]) <= c.p
        BY <3>1, <3>2, <3>4, <4>2
      <4> QED
        BY <1>5, <2>1, <2>3, <4>3
    <3> QED
      BY <3>5, <3>6
  <2>4. CASE j = N + 1 /\ c.size = 0
    BY <1>5, <2>4
  <2> QED
    BY <2>2, <2>3, <2>4
<1>8. ASSUME NEW i \in 1 .. N + 1
      PROVE  Tells(Used(mem', stk'[i]), stk'[i], Skip(i), kept'[i])
  <2>1. CASE i = N + 1
    <3>1. Used(mem', c) = <<>>
      BY <1>3 DEF Used
    <3>2. Skip(i) = 0 /\ Len(<<>>) = 0 /\ <<>> \in Seq(Nat)
      BY <1>2, <2>1 DEF Skip
    <3>3. Tells(<<>>, c, 0, <<>>)
      BY <3>2, TellsNothing
    <3> QED
      BY <1>5, <1>6, <2>1, <3>1, <3>2, <3>3
  <2>2. CASE i # N + 1
    <3>1. i \in 1 .. N
      BY <1>2, <2>2
    <3>2. Tells(Used(mem, stk[i]), stk[i], Skip(i), kept[i])
      BY <1>0, <1>2, <3>1 DEF Told
    <3> QED
      BY <1>4, <1>5, <1>6, <3>1, <3>2
  <2> QED
    BY <2>1, <2>2
<1>9. Told'
  BY <1>5, <1>8 DEF Told, Skip
<1> QED
  BY <1>1, <1>7, <1>9 DEF RInv

(* What closing comes to, in the four cases of the room that is left: the  *)
(* whole parameter, its tag, or nothing.                                   *)
LEMMA ClosedCases ==
    ASSUME IInv, Top > 1
    PROVE  \/ /\ Whole /\ Closed.l = Outer.l + 4 + Inner.l
              /\ Fits(Outer, 2) /\ Fits(WithTag, 2)
              /\ WithTag.l = Outer.l + 2 /\ WithTag.p = Outer.p
              /\ Outer.l + 4 + Inner.l <= Outer.size
              /\ Inner.l > 0 => Inner.p = GetPS(Outer) + 4
           \/ /\ ~Whole /\ Fits(Outer, 2) /\ ~Fits(WithTag, 2)
              /\ Closed.l = Outer.l + 2
              /\ ~(EmptySize(Outer) < 2) /\ EmptySize(Closed) < 2
           \/ /\ ~Whole /\ ~Fits(Outer, 2) /\ ~Fits(WithTag, 2)
              /\ Closed.l = Outer.l
<1> DEFINE o == Outer
           d == Inner
           w == WithTag
           x == WithLen
           c == Closed
<1>1. /\ o \in Builder /\ o.l <= o.size
      /\ d \in Builder /\ d.l <= d.size
      /\ \/ d.size = 0 /\ EmptySize(o) <= 4
         \/ d.p = GetPS(o) + 4 /\ d.p + d.size = o.p + o.size
  BY InnerAndOuter
<1>2. w = Seek(o, 2) /\ x = Seek(w, 2) /\ c = Seek(x, d.l)
  BY DEF WithTag, WithLen, Closed
<1>3. Whole <=> Fits(o, 2) /\ Fits(w, 2) /\ Fits(x, d.l)
  BY DEF Whole
<1>4. /\ o.p \in Nat /\ o.l \in Nat /\ o.size \in Nat
      /\ d.p \in Nat /\ d.l \in Nat /\ d.size \in Nat
  BY <1>1 DEF Builder
<1> HIDE DEF o, d, w, x, c
<1>6. /\ w \in Builder /\ w.p = o.p /\ w.size = o.size /\ w.l <= w.size
      /\ w.l = IF Fits(o, 2) THEN o.l + 2 ELSE o.l
  BY <1>1, <1>2, <1>4, SeekKeeps
<1>7. /\ x \in Builder /\ x.p = o.p /\ x.size = o.size /\ x.l <= x.size
      /\ x.l = IF Fits(w, 2) THEN w.l + 2 ELSE w.l
  BY <1>2, <1>4, <1>6, SeekKeeps
<1>8. /\ c \in Builder /\ c.p = o.p /\ c.size = o.size
      /\ c.l = IF Fits(x, d.l) THEN x.l + d.l ELSE x.l
  BY <1>2, <1>4, <1>7, SeekKeeps
<1>9. CASE Fits(o, 2) /\ Fits(w, 2)
  <2>1. x.l = o.l + 4 /\ w.l = o.l + 2
    BY <1>4, <1>6, <1>7, <1>9
  <2>2. Fits(x, d.l)
    <3>1. o.size # 0
      BY <1>9 DEF Fits
    <3>2. CASE d.size = 0
      <4>1. d.l = 0
        BY <1>1, <1>4, <3>2
      <4> QED
        BY <1>4, <1>7, <2>1, <3>1, <4>1 DEF Fits
    <3>3. CASE d.p = GetPS(o) + 4 /\ d.p + d.size = o.p + o.size
      BY <1>1, <1>4, <1>7, <2>1, <3>1, <3>3 DEF Fits, GetPS
    <3> QED
      BY <1>1, <3>2, <3>3
  <2>3. c.l = o.l + 4 + d.l
    BY <1>8, <2>1, <2>2
  <2>4. o.l + 4 + d.l <= o.size
    BY <1>7, <2>1, <2>2 DEF Fits
  <2>5. d.l > 0 => d.p = GetPS(o) + 4
    BY <1>1, <1>4
  <2> QED
    BY <1>3, <1>6, <1>9, <2>1, <2>2, <2>3, <2>4, <2>5 DEF o, d, w, x, c
<1>10. CASE ~(Fits(o, 2) /\ Fits(w, 2))
  <2>1. CASE d.size > 0
    <3>1. d.p = GetPS(o) + 4 /\ d.p + d.size = o.p + o.size
      BY <1>1, <1>4, <2>1
    <3>2. o.l + 4 <= o.size
      BY <1>4, <2>1, <3>1 DEF GetPS
    <3>3. Fits(o, 2) /\ o.l + 2 \in Nat
      BY <1>4, <3>2 DEF Fits
    <3>4. Fits(w, 2)
      BY <1>4, <1>6, <3>2, <3>3 DEF Fits
    <3> QED
      BY <1>10, <3>3, <3>4
  <2>2. CASE d.size = 0
    <3>1. d.l = 0
      BY <1>1, <1>4, <2>2
    <3>2. CASE ~Fits(o, 2)
      <4>1. w.l = o.l
        BY <1>6, <3>2
      <4>2. ~Fits(w, 2)
        BY <1>6, <3>2, <4>1 DEF Fits
      <4>3. c.l = o.l
        BY <1>4, <1>7, <1>8, <3>1, <4>1, <4>2
      <4> QED
        BY <1>3, <3>2, <4>2, <4>3 DEF o, d, w, x, c
    <3>3. CASE Fits(o, 2)
      <4>1. ~Fits(w, 2) /\ w.l = o.l + 2 /\ x.l = o.l + 2
        BY <1>6, <1>7, <1>10, <3>3
      <4>2. c.l = o.l + 2
        BY <1>4, <1>8, <3>1, <4>1
      <4>3. ~(EmptySize(o) < 2) /\ EmptySize(c) < 2
        <5>1. o.l + 2 <= o.size /\ o.size # 0
          BY <3>3 DEF Fits
        <5>2. ~(o.l + 2 + 2 <= o.size)
          BY <1>6, <4>1, <5>1 DEF Fits
        <5> QED
          BY <1>4, <1>8, <4>2, <5>1, <5>2 DEF EmptySize
      <4> QED
        BY <1>3, <3>3, <4>1, <4>2, <4>3 DEF o, d, w, x, c
    <3> QED
      BY <3>2, <3>3
  <2> QED
    BY <1>4, <2>1, <2>2
<1> QED
  BY <1>9, <1>10

(* The bytes behind the cursor of the outer builder, once a nested         *)
(* parameter is closed: its tag, its length, and the value that was there. *)
LEMMA ClosedBytes ==
    ASSUME NEW m \in Memory, NEW o \in Builder, NEW w \in Builder,
           o.p + o.size <= Size, w.p = o.p, w.l = o.l + 2,
           Fits(o, 2), Fits(w, 2),
           NEW t \in 0 .. WordMax - 1, NEW n \in 0 .. WordMax - 1,
           NEW k \in Nat, k > 0, o.p + k - 1 \in Address
    PROVE  Store(Store(m, o, Word(t)), w, Word(n))[o.p + k - 1] =
               IF k = o.l + 1 THEN Word(t)[1]
               ELSE IF k = o.l + 2 THEN Word(t)[2]
               ELSE IF k = o.l + 3 THEN Word(n)[1]
               ELSE IF k = o.l + 4 THEN Word(n)[2]
               ELSE m[o.p + k - 1]
<1> DEFINE W1 == Word(t)
           W2 == Word(n)
           m1 == Store(m, o, W1)
           m2 == Store(m1, w, W2)
           a == o.p + k - 1
<1>1. /\ W1 \in Seq(Byte) /\ Len(W1) = 2 /\ W2 \in Seq(Byte) /\ Len(W2) = 2
  BY WordBytes
<1>2. o.p \in Nat /\ o.l \in Nat
  BY DEF Builder
<1>3. GetPS(o) = o.p + o.l /\ GetPS(w) = o.p + o.l + 2
  BY <1>2 DEF GetPS
<1> HIDE DEF W1, W2
<1>m. m1 \in Memory
  BY <1>1, StoreWrites
<1>4. m1[a] =
          IF a \in GetPS(o) .. GetPS(o) + 1 THEN W1[a - GetPS(o) + 1] ELSE m[a]
  <2>1. m1[a] = IF Fits(o, Len(W1)) /\ a \in GetPS(o) .. GetPS(o) + Len(W1) - 1
                THEN W1[a - GetPS(o) + 1] ELSE m[a]
    BY <1>1, StoreAt, ZenonT(30)
  <2>2. GetPS(o) + 2 - 1 = GetPS(o) + 1
    BY <1>2, <1>3
  <2> QED
    BY <1>1, <2>1, <2>2
<1> HIDE DEF m1
<1>5. m2[a] =
          IF a \in GetPS(w) .. GetPS(w) + 1 THEN W2[a - GetPS(w) + 1] ELSE m1[a]
  <2>1. m2[a] = IF Fits(w, Len(W2)) /\ a \in GetPS(w) .. GetPS(w) + Len(W2) - 1
                THEN W2[a - GetPS(w) + 1] ELSE m1[a]
    <3>1. a \in Address
      OBVIOUS
    <3> HIDE DEF a
    <3>2. ASSUME NEW mm \in Memory, NEW s \in Seq(Byte)
          PROVE  Store(mm, w, s)[a] =
                     IF /\ Fits(w, Len(s))
                        /\ a \in GetPS(w) .. GetPS(w) + Len(s) - 1
                     THEN s[a - GetPS(w) + 1] ELSE mm[a]
      BY <3>1, StoreAt
    <3>3. W2 \in Seq(Byte)
      BY <1>1
    <3> QED
      BY <1>m, <3>2, <3>3
  <2>2. GetPS(w) + 2 - 1 = GetPS(w) + 1
    BY <1>2, <1>3
  <2> QED
    BY <1>1, <2>1, <2>2
<1> HIDE DEF m2
<1>6. CASE k = o.l + 1
  <2>1. /\ a \notin GetPS(w) .. GetPS(w) + 1
        /\ a \in GetPS(o) .. GetPS(o) + 1
        /\ a - GetPS(o) + 1 = 1
    BY <1>2, <1>3, <1>6
  <2>2. m2[a] = W1[1]
    BY <1>4, <1>5, <2>1
  <2> QED
    BY <1>6, <2>2, Zenon DEF m1, m2, W1, W2
<1>7. CASE k = o.l + 2
  <2>1. /\ a \notin GetPS(w) .. GetPS(w) + 1
        /\ a \in GetPS(o) .. GetPS(o) + 1
        /\ a - GetPS(o) + 1 = 2
    BY <1>2, <1>3, <1>7
  <2>2. k # o.l + 1
    BY <1>2, <1>7
  <2>3. m2[a] = W1[2]
    BY <1>4, <1>5, <2>1
  <2> QED
    BY <1>7, <2>2, <2>3, Zenon DEF m1, m2, W1, W2
<1>8. CASE k = o.l + 3
  <2>1. a \in GetPS(w) .. GetPS(w) + 1 /\ a - GetPS(w) + 1 = 1
    BY <1>2, <1>3, <1>8
  <2>2. k # o.l + 1 /\ k # o.l + 2
    BY <1>2, <1>8
  <2>3. m2[a] = W2[1]
    BY <1>5, <2>1
  <2> QED
    BY <1>8, <2>2, <2>3, Zenon DEF m1, m2, W1, W2
<1>9. CASE k = o.l + 4
  <2>1. a \in GetPS(w) .. GetPS(w) + 1 /\ a - GetPS(w) + 1 = 2
    BY <1>2, <1>3, <1>9
  <2>2. k # o.l + 1 /\ k # o.l + 2 /\ k # o.l + 3
    BY <1>2, <1>9
  <2>3. m2[a] = W2[2]
    BY <1>5, <2>1
  <2> QED
    BY <1>9, <2>2, <2>3, Zenon DEF m1, m2, W1, W2
<1>10. CASE k \notin {o.l + 1, o.l + 2, o.l + 3, o.l + 4}
  <2>1. a \notin GetPS(w) .. GetPS(w) + 1 /\ a \notin GetPS(o) .. GetPS(o) + 1
    BY <1>2, <1>3, <1>10
  <2>2. m2[a] = m[a]
    BY <1>4, <1>5, <2>1, Zenon
  <2>3. k # o.l + 1 /\ k # o.l + 2 /\ k # o.l + 3 /\ k # o.l + 4
    BY <1>10
  <2> QED
    BY <2>2, <2>3, Zenon DEF m1, m2, W1, W2
<1> QED
  BY <1>6, <1>7, <1>8, <1>9, <1>10

(* Closing a nested parameter: the outer builder tells one more, whose     *)
(* value is what the inner one told, or what it did.                       *)
LEMMA AddNestedTells ==
    ASSUME RInv, NEW t \in Tags, AddNested(t)
    PROVE  RInv'
<1> DEFINE K == Top - 1
           o == Outer
           d == Inner
           w == WithTag
           c == Closed
           W1 == Word(t)
           W2 == Word(d.l % WordMax)
           m1 == Store(mem, o, W1)
           value == Used(mem, d)
           x == [tag |-> t, val |-> value]
<1>0. IInv /\ Apart /\ Told /\ Top > 1
  BY DEF RInv, AddNested
<1>a. IInv'
  BY <1>0, AddNestedHolds
<1>m. mem' = Store(m1, w, W2) /\ stk' = [SubSeq(stk, 1, K) EXCEPT ![K] = c]
  BY DEF AddNested
<1>k. kept' = [SubSeq(kept, 1, K) EXCEPT ![K] =
          IF Whole THEN Append(@, x) ELSE @]
  BY DEF AddNested
<1>1. /\ Top \in Nat /\ K \in DOMAIN stk /\ Top \in DOMAIN stk
      /\ o \in Builder /\ o.l <= o.size /\ o.p + o.size <= Size
      /\ d \in Builder /\ d.l <= d.size
  BY <1>0, InnerAndOuter
<1>2. /\ c \in Builder /\ c.p = o.p /\ c.size = o.size
      /\ w \in Builder /\ w.p = o.p /\ w.size = o.size /\ w.l >= o.l
  <2>1. /\ c \in Builder /\ c.p = o.p /\ c.size = o.size
        /\ w \in Builder /\ w.p = o.p /\ w.size = o.size
        /\ w.l = IF Fits(o, 2) THEN o.l + 2 ELSE o.l
    BY <1>0, ClosedCursor
  <2>2. o.l \in Nat
    BY <1>1, Zenon DEF Builder
  <2> HIDE DEF o, w, c
  <2> QED
    BY <2>1, <2>2
<1>3. \/ /\ Whole /\ c.l = o.l + 4 + d.l
         /\ Fits(o, 2) /\ Fits(w, 2)
         /\ w.l = o.l + 2 /\ w.p = o.p
         /\ o.l + 4 + d.l <= o.size
         /\ d.l > 0 => d.p = GetPS(o) + 4
      \/ /\ ~Whole /\ Fits(o, 2) /\ ~Fits(w, 2)
         /\ c.l = o.l + 2
         /\ ~(EmptySize(o) < 2) /\ EmptySize(c) < 2
      \/ /\ ~Whole /\ ~Fits(o, 2) /\ ~Fits(w, 2)
         /\ c.l = o.l
  BY <1>0, ClosedCases
<1>4. o = stk[K] /\ d = stk[Top] /\ Top = Len(stk)
  BY DEF Outer, Inner, Top
<1> HIDE DEF o, d, w, c
<1>5. /\ o.p \in Nat /\ o.l \in Nat /\ o.size \in Nat
      /\ d.p \in Nat /\ d.l \in Nat /\ c.l \in Nat
  BY <1>1, <1>2 DEF Builder
<1>s. Size \in Nat /\ Size < WordMax /\ HeaderLen \in Nat
  BY BuilderAssumption
<1>6. /\ WordMax \in Nat /\ WordMax > 0 /\ t \in 0 .. WordMax - 1
      /\ d.l % WordMax \in 0 .. WordMax - 1
  <2>1. WordMax \in Nat /\ WordMax > 0
    BY BaseAssumption DEF WordMax
  <2>2. t \in 0 .. WordMax - 1
    BY BuilderAssumption
  <2> QED
    BY <1>5, <2>1, <2>2
<1>7. /\ W1 \in Seq(Byte) /\ Len(W1) = 2 /\ W2 \in Seq(Byte) /\ Len(W2) = 2
  BY <1>6, WordBytes
<1>8. mem \in Memory
  BY <1>0 DEF IInv, TypeOK, Memory
<1> HIDE DEF W1, W2
<1>9. m1 \in Memory
  BY <1>1, <1>7, <1>8, StoreWrites
<1> HIDE DEF m1
<1>10. /\ stk \in Seq(Builder)
       /\ kept \in Seq(Seq(Param))
       /\ Len(kept) = Len(stk)
       /\ K \in 1 .. Len(stk) - 1 /\ K = Len(stk) - 1
       /\ DOMAIN stk = 1 .. Len(stk)
  BY <1>0, <1>4 DEF IInv, TypeOK, Top
<1>11. /\ DOMAIN stk' = 1 .. K /\ stk'[K] = c
       /\ \A i \in 1 .. K : i # K => stk'[i] = stk[i]
  <2> HIDE DEF K
  <2>1. 0 + K <= Len(stk) /\ K \in Nat /\ K \in 1 .. K
    BY <1>10
  <2>2. /\ SubSeq(stk, 1, K) \in Seq(Builder) /\ Len(SubSeq(stk, 1, K)) = K
        /\ \A i \in 1 .. K : SubSeq(stk, 1, K)[i] = stk[i]
    BY <1>10, <2>1
  <2>3. DOMAIN SubSeq(stk, 1, K) = 1 .. K
    BY <2>2
  <2> QED
    BY <1>m, <2>1, <2>2, <2>3, Zenon
<1>12. /\ kept'[K] = IF Whole THEN Append(kept[K], x) ELSE kept[K]
       /\ \A i \in 1 .. K : i # K => kept'[i] = kept[i]
       /\ kept[K] \in Seq(Param)
  <2> HIDE DEF K, x
  <2>1. K \in Nat /\ K <= Len(kept) /\ K \in 1 .. K
    BY <1>10
  <2>2. /\ SubSeq(kept, 1, K) \in Seq(Seq(Param)) /\ Len(SubSeq(kept, 1, K)) = K
        /\ \A i \in 1 .. K : SubSeq(kept, 1, K)[i] = kept[i]
    BY <1>10, <2>1
  <2>3. DOMAIN SubSeq(kept, 1, K) = 1 .. K
    BY <2>2
  <2>4. kept[K] \in Seq(Param)
    BY <1>10, <2>1
  <2> QED
    BY <1>k, <2>1, <2>2, <2>3, <2>4
<1>K. K \in Nat /\ K \in 1 .. K /\ \A i \in 1 .. K : i \in DOMAIN stk
  BY <1>10
<1> HIDE DEF K, x
<1>13. Apart'
  <2> SUFFICES ASSUME NEW i \in 1 .. K, NEW j \in 1 .. K, i < j
               PROVE  stk'[j].size = 0 \/ GetPS(stk'[i]) <= stk'[j].p
    BY <1>11 DEF Apart
  <2>1. stk'[i] = stk[i]
    BY <1>K, <1>11
  <2>2. stk[j].size = 0 \/ GetPS(stk[i]) <= stk[j].p
    BY <1>0, <1>K DEF Apart
  <2>3. stk'[j].size = stk[j].size /\ stk'[j].p = stk[j].p
    BY <1>2, <1>4, <1>11, Zenon
  <2> QED
    BY <2>1, <2>2, <2>3, Zenon
<1>14. ASSUME NEW i \in 1 .. K, i # K
       PROVE  Tells(Used(mem', stk'[i]), stk'[i], Skip(i), kept'[i])
  <2>1. stk'[i] = stk[i] /\ kept'[i] = kept[i]
    BY <1>11, <1>12, <1>14
  <2>2. i < K /\ i \in DOMAIN stk /\ K \in DOMAIN stk
    BY <1>K, <1>14
  <2>3. stk[i] \in Builder
    BY <1>10, <2>2
  <2>4. \A a \in stk[i].p .. GetPS(stk[i]) - 1 : m1[a] = mem[a]
    <3>1. o.p = stk[K].p /\ o.size = stk[K].size /\ o.l >= stk[K].l
      BY <1>4, <1>5
    <3> QED
      BY <1>0, <1>1, <1>7, <1>8, <2>2, <3>1, LowerUntouched DEF m1
  <2>5. \A a \in stk[i].p .. GetPS(stk[i]) - 1 : mem'[a] = m1[a]
    <3>1. w.p = stk[K].p /\ w.size = stk[K].size /\ w.l >= stk[K].l
      BY <1>2, <1>4
    <3> QED
      BY <1>0, <1>2, <1>7, <1>9, <1>m, <2>2, <3>1, LowerUntouched
  <2>6. Tells(Used(mem, stk[i]), stk[i], Skip(i), kept[i])
    BY <1>0, <2>2 DEF Told
  <2>7. \A a \in stk[i].p .. GetPS(stk[i]) - 1 : mem'[a] = mem[a]
    BY <2>4, <2>5
  <2>8. Tells(Used(mem', stk[i]), stk[i], Skip(i), kept[i])
    BY <2>3, <2>6, <2>7, TellsSame
  <2> QED
    BY <2>1, <2>8
<1> DEFINE old == Used(mem, o)
           new == Used(mem', c)
<1>15. /\ old \in Seq(Nat) /\ Len(old) = o.l
       /\ \A k \in 1 .. o.l : old[k] = mem[o.p + k - 1]
  <2>1. \A a \in o.p .. GetPS(o) - 1 : mem[a] \in Byte
    BY <1>0, <1>1, <1>4 DEF IInv, NothingUnset
  <2> QED
    BY <1>1, <2>1, UsedBytes
<1>16. /\ new \in Seq(Nat) /\ Len(new) = c.l
       /\ \A k \in 1 .. c.l : new[k] = mem'[c.p + k - 1]
  <2>1. \A a \in c.p .. GetPS(c) - 1 : mem'[a] \in Byte
    BY <1>a, <1>K, <1>11 DEF IInv, NothingUnset
  <2> QED
    BY <1>2, <2>1, UsedBytes
<1>17. /\ value \in Seq(Byte) /\ Len(value) = d.l
       /\ \A k \in 1 .. d.l : value[k] = mem[d.p + k - 1]
  <2>1. \A a \in d.p .. GetPS(d) - 1 : mem[a] \in Byte
    BY <1>0, <1>1, <1>4 DEF IInv, NothingUnset
  <2> QED
    BY <1>1, <2>1, UsedBytes
<1> HIDE DEF value
<1>x. x \in Param /\ x.tag = t /\ x.val = value
  BY <1>17 DEF x, Param
<1>t. Tells(old, o, Skip(K), kept[K]) /\ Skip(K) \in Nat
  BY <1>0, <1>1, <1>4, <1>s DEF Told, Skip
<1>18. Tells(new, c, Skip(K), kept'[K])
  <2>1. CASE /\ Whole /\ c.l = o.l + 4 + d.l
             /\ Fits(o, 2) /\ Fits(w, 2)
             /\ w.l = o.l + 2 /\ w.p = o.p
             /\ o.l + 4 + d.l <= o.size
             /\ d.l > 0 => d.p = GetPS(o) + 4
    <3> HIDE DEF old, new
    <3>0. /\ c.l = o.l + 4 + d.l /\ o.l + 4 + d.l <= o.size
          /\ d.l > 0 => d.p = o.p + o.l + 4
      BY <2>1, Zenon DEF GetPS
    <3>1. d.l \in 0 .. WordMax - 1 /\ d.l % WordMax = d.l
      <4>1. d.l <= Size
        BY <1>1, <1>5, <1>s, <3>0
      <4>2. d.l < WordMax
        BY <1>5, <1>6, <1>s, <4>1
      <4> QED
        BY <1>5, <1>6, <4>2
    <3>2. ASSUME NEW k \in 1 .. c.l
          PROVE  new[k] = IF k = o.l + 1 THEN Word(t)[1]
                          ELSE IF k = o.l + 2 THEN Word(t)[2]
                          ELSE IF k = o.l + 3 THEN Word(d.l)[1]
                          ELSE IF k = o.l + 4 THEN Word(d.l)[2]
                          ELSE mem[o.p + k - 1]
      <4>1. o.p + k - 1 \in Address /\ k \in Nat /\ k > 0
        BY <1>1, <1>5, <1>s, <3>0 DEF Address
      <4>2. new[k] = mem'[o.p + k - 1]
        BY <1>2, <1>16
      <4>3. mem' = Store(Store(mem, o, Word(t)), w, Word(d.l))
        BY <1>m, <3>1 DEF m1, W1, W2
      <4> QED
        <5>1. Fits(o, 2) /\ Fits(w, 2) /\ w.l = o.l + 2 /\ w.p = o.p
          BY <2>1
        <5>2. t \in 0 .. WordMax - 1 /\ d.l \in 0 .. WordMax - 1
          BY <1>6, <3>1
        <5> HIDE DEF m1
        <5>3. Store(Store(mem, o, Word(t)), w, Word(d.l))[o.p + k - 1] =
                 IF k = o.l + 1 THEN Word(t)[1]
                 ELSE IF k = o.l + 2 THEN Word(t)[2]
                 ELSE IF k = o.l + 3 THEN Word(d.l)[1]
                 ELSE IF k = o.l + 4 THEN Word(d.l)[2]
                 ELSE mem[o.p + k - 1]
          BY <1>1, <1>2, <1>8, <4>1, <5>1, <5>2, ClosedBytes
        <5> QED
          BY <4>2, <4>3, <5>3, Zenon
    <3>3. Extends(new, old)
      <4>1. Len(old) <= Len(new)
        BY <1>5, <1>15, <1>16, <3>0
      <4>2. ASSUME NEW k \in 1 .. Len(old) PROVE new[k] = old[k]
        <5>1. /\ k \in 1 .. c.l /\ k \in 1 .. o.l
              /\ k # o.l + 1 /\ k # o.l + 2 /\ k # o.l + 3 /\ k # o.l + 4
          <6>1. Len(old) = o.l
            BY <1>15
          <6>2. k \in 1 .. o.l
            BY <6>1
          <6>3. k \in 1 .. c.l
            BY <1>5, <3>0, <6>2
          <6> QED
            BY <1>5, <6>2, <6>3, SMTT(30)
        <5> QED
          BY <1>15, <3>2, <5>1, Zenon
      <4> QED
        BY <4>1, <4>2 DEF Extends
    <3>4. Stands(new, o.l, x)
      <4>1. \A j \in 1 .. 4 : o.l + j \in 1 .. c.l
        BY <1>5, <3>0
      <4>2. /\ new[o.l + 1] = Word(t)[1] /\ new[o.l + 2] = Word(t)[2]
            /\ new[o.l + 3] = Word(d.l)[1] /\ new[o.l + 4] = Word(d.l)[2]
        <5>1. {1, 2, 3, 4} \subseteq 1 .. 4
          OBVIOUS
        <5>2. /\ o.l + 2 # o.l + 1 /\ o.l + 3 # o.l + 1 /\ o.l + 3 # o.l + 2
              /\ o.l + 4 # o.l + 1 /\ o.l + 4 # o.l + 2 /\ o.l + 4 # o.l + 3
          BY <1>5
        <5>3. /\ o.l + 1 \in 1 .. c.l /\ o.l + 2 \in 1 .. c.l
              /\ o.l + 3 \in 1 .. c.l /\ o.l + 4 \in 1 .. c.l
          BY <4>1, <5>1
        <5> QED
          BY <3>2, <5>2, <5>3, Zenon
      <4>3. ASSUME NEW j \in 1 .. d.l PROVE new[o.l + 4 + j] = value[j]
        <5> DEFINE k == o.l + 4 + j
        <5>1. /\ k \in 1 .. c.l
              /\ k # o.l + 1 /\ k # o.l + 2 /\ k # o.l + 3 /\ k # o.l + 4
              /\ o.p + k - 1 = d.p + j - 1
          BY <1>5, <3>0
        <5> HIDE DEF k
        <5>2. new[k] = mem[o.p + k - 1]
          BY <3>2, <5>1, Zenon
        <5> QED
          BY <1>17, <5>1, <5>2 DEF k
      <4>4. o.l + 4 + Len(value) <= Len(new)
        BY <1>5, <1>16, <1>17, <3>0
      <4>5. t \in Nat /\ Len(value) \in Nat /\ Len(value) = d.l
        BY <1>5, <1>6, <1>17
      <4> QED
        BY <1>5, <1>16, <1>x, <4>2, <4>3, <4>4, <4>5, BytesStand
    <3>5. ~(EmptySize(o) < 2)
      BY <1>5, <3>0 DEF EmptySize
    <3>6. Len(new) = Len(old) + 4 + Len(x.val)
      <4>1. Len(new) = o.l + 4 + d.l /\ Len(old) = o.l
        BY <1>15, <1>16, <2>1
      <4>2. Len(x.val) = d.l
        BY <1>17, <1>x
      <4> QED
        BY <4>1, <4>2, Zenon
    <3>7. Stands(new, Len(old), x)
      BY <1>15, <3>4
    <3>8. Tells(new, c, Skip(K), Append(kept[K], x))
      BY <1>12, <1>15, <1>16, <1>x, <1>t, <3>3, <3>5, <3>6, <3>7, TellsMore
    <3> QED
      BY <1>12, <2>1, <3>8
  <2>2. CASE /\ ~Whole /\ Fits(o, 2) /\ ~Fits(w, 2)
             /\ c.l = o.l + 2
             /\ ~(EmptySize(o) < 2) /\ EmptySize(c) < 2
    <3>1. mem' = m1
      BY <1>m, <1>7, <2>2 DEF Store
    <3>2. ASSUME NEW k \in 1 .. o.l PROVE new[k] = old[k]
      <4> DEFINE a == o.p + k - 1
      <4>0. a \in Address /\ k \in 1 .. c.l /\ GetPS(o) = o.p + o.l
        <5>1. c.l = o.l + 2 /\ o.l <= o.size /\ o.p + o.size <= Size
          BY <1>1, <2>2
        <5> QED
          BY <1>5, <1>s, <5>1 DEF Address, GetPS
      <4>1. a \notin GetPS(o) .. GetPS(o) + Len(W1) - 1
        BY <1>5, <1>7, <4>0
      <4>2. m1[a] = mem[a]
        <5>1. m1[a] = IF /\ Fits(o, Len(W1))
                         /\ a \in GetPS(o) .. GetPS(o) + Len(W1) - 1
                      THEN W1[a - GetPS(o) + 1] ELSE mem[a]
          <6> HIDE DEF a, old, new
          <6>1. a \in Address /\ o \in Builder /\ W1 \in Seq(Byte)
            BY <1>1, <1>7, <4>0
          <6> QED
            BY <1>8, <6>1, StoreAt, Zenon DEF m1
        <5> QED
          BY <4>1, <5>1, Zenon
      <4> QED
        BY <1>2, <1>15, <1>16, <3>1, <4>0, <4>2
    <3> HIDE DEF old, new
    <3>3. Extends(new, old)
      <4>1. Len(old) = o.l /\ Len(new) = c.l /\ c.l = o.l + 2
        BY <1>15, <1>16, <2>2
      <4>2. Len(old) <= Len(new)
        BY <1>5, <4>1
      <4> QED
        BY <3>2, <4>1, <4>2, Zenon DEF Extends
    <3>4. Len(new) = Len(old) + 2
      BY <1>15, <1>16, <2>2
    <3>5. Tells(new, c, Skip(K), kept[K])
      BY <1>12, <1>15, <1>16, <1>t, <2>2, <3>3, <3>4, TellsTag
    <3> QED
      BY <1>12, <2>2, <3>5
  <2>3. CASE ~Whole /\ ~Fits(o, 2) /\ ~Fits(w, 2) /\ c.l = o.l
    <3>1. mem' = mem
      BY <1>m, <1>7, <2>3 DEF Store, m1
    <3>2. Tells(new, c, Skip(K), kept[K])
      BY <1>1, <1>2, <1>t, <2>3, <3>1, TellsSame
    <3> QED
      BY <1>12, <2>3, <3>2
  <2> QED
    BY <1>3, <2>1, <2>2, <2>3
<1>19. Told'
  <2>1. ASSUME NEW i \in DOMAIN stk'
        PROVE  Tells(Used(mem', stk'[i]), stk'[i], Skip(i), kept'[i])
    <3>1. CASE i = K
      BY <1>11, <1>18, <3>1
    <3>2. CASE i # K
      BY <1>11, <1>14, <3>2
    <3> QED
      BY <3>1, <3>2
  <2> QED
    BY <2>1 DEF Told, Skip
<1> QED
  BY <1>a, <1>13, <1>19 DEF RInv

(* What is built reads back: for every array size, header, width of a byte, *)
(* nesting depth, and set of tags and values, at every moment and for every *)
(* builder of the nest, the client's parser run over the bytes in use finds *)
(* exactly the parameters that were accepted, in their order, with their    *)
(* tags and values, and nothing else.                                       *)
THEOREM ReadsBack == Spec => []RoundTrip
<1>1. Init => RInv
  BY InitTells
<1>2. RInv /\ [Next]_vars => RInv'
  <2> SUFFICES ASSUME RInv, [Next]_vars PROVE RInv'
    OBVIOUS
  <2>1. CASE \E t \in Tags, v \in Values : AddwTwLV(t, v)
    BY <2>1, AddTells
  <2>2. CASE InitNested
    BY <2>2, InitNestedTells
  <2>3. CASE \E t \in Tags : AddNested(t)
    BY <2>3, AddNestedTells
  <2>4. CASE Send \/ UNCHANGED vars
    <3>1. UNCHANGED <<mem, stk, kept>>
      BY <2>4 DEF Send, vars
    <3>2. IInv'
      <4>1. CASE Send
        <5>1. sent' \in BOOLEAN
          BY <4>1, Zenon DEF Send
        <5>2. UNCHANGED <<mem, stk, kept, calls>>
          BY <4>1 DEF Send
        <5> QED
          BY <5>1, <5>2 DEF RInv, IInv, TypeOK, InBounds, NothingUnset
      <4>2. CASE UNCHANGED vars
        BY <4>2 DEF RInv, IInv, TypeOK, InBounds, NothingUnset, vars
      <4> QED
        BY <2>4, <4>1, <4>2
    <3> QED
      BY <3>1, <3>2 DEF RInv, Apart, Told, Skip
  <2> QED
    BY <2>1, <2>2, <2>3, <2>4 DEF Next
<1> QED
  BY <1>1, <1>2, ToldIsRead, PTL DEF Spec

=============================================================================
