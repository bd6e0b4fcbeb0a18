--------------------------- MODULE TlvCallsProofs ---------------------------
(***************************************************************************)
(* What holds of DPrimitveTLV for every width of a byte and a dword, every *)
(* size of buffer and every sequence of calls.                             *)
(***************************************************************************)
EXTENDS TlvCalls, TLAPS

(* Remainders. *)
LEMMA ModSmall ==
    ASSUME NEW n \in Nat, NEW a \in Nat, a < n
    PROVE  a % n = a
  OBVIOUS

(* A remainder is a smaller number. *)
LEMMA ModRange ==
    ASSUME NEW n \in Nat, n > 0, NEW a \in Nat
    PROVE  a % n \in Nat /\ a % n < n
  OBVIOUS

(* What the calls need to know of the widths. *)
LEMMA Widths ==
    /\ WordMod \in Nat /\ WordMod > 0
    /\ DwordMod \in Nat /\ DwordMod > 0
<1>1. WordMod \in Nat /\ WordMod > 0
  BY CallsAssumption DEF WordMod
<1> QED
  BY <1>1, CallsAssumption

(* AddTLV_dword tests for three bytes and writes six, so the cursor may    *)
(* end up to three bytes behind the buffer, and never further.             *)
Cursor ==
    /\ size \in Nat /\ size + 8 < DwordMod
    /\ l \in Nat /\ l <= size + 3

(* The dword in which the tests add wraps only for a length of the         *)
(* caller's, never for one of the few bytes that a call adds itself.       *)
LEMMA RoomFacts ==
    ASSUME Cursor, NEW n \in Nat
    PROVE  /\ (l + n) % DwordMod \in Nat
           /\ l + n < DwordMod => (l + n) % DwordMod = l + n
           /\ n <= 4 => l + n < DwordMod
<1>1. l + n \in Nat
  BY DEF Cursor
<1>2. n <= 4 => l + n < DwordMod
  BY Widths DEF Cursor
<1> QED
  BY <1>1, <1>2, Widths, ModSmall, ModRange

LEMMA CursorStep == Cursor /\ [Next]_vars => Cursor'
<1> SUFFICES ASSUME Cursor, [Next]_vars PROVE Cursor'
  OBVIOUS
<1>0. size \in Nat /\ size + 8 < DwordMod /\ l \in Nat /\ l <= size + 3 /\ DwordMod \in Nat
  BY Widths DEF Cursor
<1>1. CASE Making
  BY <1>0, <1>1, CallsAssumption DEF Making, Init2, Init3, Clear, Cursor
<1>2. CASE Refuse
  BY <1>0, <1>2 DEF Refuse, Cursor
<1>3. CASE SetPrimitve \/ SetPrimitveWord \/ SetPrimitveDword
  BY <1>0, <1>2, <1>3 DEF SetPrimitve, SetPrimitveWord, SetPrimitveDword, Accept, Put, Cursor
<1>4. CASE AddByte \/ AddWord \/ AddDword
  <2>1. /\ (l + 2) % DwordMod = l + 2
        /\ (l + 4) % DwordMod = l + 4
    BY RoomFacts
  <2> QED
    BY <1>0, <1>2, <1>4, <2>1 DEF AddByte, AddWord, AddDword, Room, Accept, Put, Cursor
<1>5. ASSUME NEW n \in Dwords, SetHeader(n) \/ Seek(n) \/ AddBin(n)
      PROVE  Cursor'
  <2>1. (l + n) % DwordMod \in Nat
    BY <1>0, RoomFacts DEF Dwords
  <2> DEFINE to == (l + n) % DwordMod
  <2>2. Refuse \/ (to <= size /\ l' = to /\ size' = size)
    BY <1>5 DEF SetHeader, Seek, AddBin, Room, Accept, Put
  <2> HIDE DEF to
  <2>3. to \in Nat
    BY <2>1 DEF to
  <2> QED
    BY <1>0, <1>2, <2>2, <2>3 DEF Cursor
<1>6. ASSUME NEW need \in Nat, NEW h \in Nat, NEW said, NEW n \in Nat, h + n <= need,
             Param(need, h, said, n)
      PROVE  Cursor'
  BY <1>0, <1>2, <1>6 DEF Param, Cursor
<1>7. CASE Params
  <2>1. ASSUME NEW n \in Bytes, AddTLV(n) PROVE Cursor'
    BY <1>6, <2>1 DEF AddTLV, Bytes
  <2>2. ASSUME NEW n \in Words,
               \/ AddTwLV(n) \/ AddwTwLV(n) \/ AddSwTwLV(n) \/ AddwTwLV_AsCString(n)
               \/ AddSwTwLV_AsCString(n)
        PROVE  Cursor'
    <3>1. n \in Nat /\ n + 1 \in Nat /\ n + 2 \in Nat
      BY Widths DEF Words
    <3>2. CASE AddTwLV(n)
      BY <1>6, <3>1, <3>2 DEF AddTwLV
    <3>3. CASE AddwTwLV(n)
      BY <1>6, <3>1, <3>3 DEF AddwTwLV
    <3>4. CASE AddSwTwLV(n)
      BY <1>6, <3>1, <3>4 DEF AddSwTwLV
    <3>5. CASE AddwTwLV_AsCString(n)
      BY <1>6, <3>1, <3>5 DEF AddwTwLV_AsCString
    <3>6. CASE AddSwTwLV_AsCString(n)
      BY <1>6, <3>1, <3>6 DEF AddSwTwLV_AsCString
    <3> QED
      BY <2>2, <3>2, <3>3, <3>4, <3>5, <3>6
  <2>3. ASSUME NEW n \in Dwords, AddwTdLV(n) \/ AdddTdLV(n) PROVE Cursor'
    BY <1>6, <2>3, Widths DEF AddwTdLV, AdddTdLV, Dwords
  <2>4. ASSUME NEW n \in 0 .. 3 * (Base - 1), AddTLVV(n) PROVE Cursor'
    BY <1>2, <1>6, <2>4, CallsAssumption DEF AddTLVV
  <2>5. CASE AddTLV_byte \/ AddTLV_dword
    BY <1>0, <2>5 DEF AddTLV_byte, AddTLV_dword, Quiet, Put, Cursor
  <2> QED
    BY <1>7, <2>1, <2>2, <2>3, <2>4, <2>5 DEF Params
<1>8. CASE UNCHANGED vars
  BY <1>8 DEF vars, Cursor
<1> QED
  BY <1>1, <1>3, <1>4, <1>5, <1>7, <1>8 DEF Next, Raw

(* However the calls of a builder follow each other, its cursor stays      *)
(* within three bytes of the end of the buffer.                            *)
THEOREM CursorNearEnd == Spec => []Cursor
<1>1. Init => Cursor
  BY CallsAssumption DEF Init, Cursor
<1> QED
  BY <1>1, CursorStep, PTL DEF Spec

(* Every call but the careless ones writes inside the buffer and leaves    *)
(* the cursor there.                                                       *)
THEOREM CallsStayInside == Spec => StaysInside
<1>1. Cursor /\ [Next]_vars => [l <= size /\ ~Careless => wrote'.hi <= size' /\ l' <= size']_vars
  <2> SUFFICES ASSUME Cursor, Next, l <= size, ~Careless
               PROVE  wrote'.hi <= size' /\ l' <= size'
    OBVIOUS
  <2>0. size \in Nat /\ size + 8 < DwordMod /\ l \in Nat /\ DwordMod \in Nat /\ Nothing.hi = 0
    BY Widths DEF Cursor, Nothing
  <2>1. CASE Refuse
    BY <2>0, <2>1 DEF Refuse
  <2>2. CASE Making
    BY <2>0, <2>2, CallsAssumption DEF Making, Init2, Init3, Clear
  <2>3. ASSUME NEW from \in Nat, NEW n \in Nat, NEW to, Put(from, n, to),
               from + n <= size, to <= size
        PROVE  wrote'.hi <= size' /\ l' <= size'
    BY <2>3 DEF Put, Nothing
  <2>4. CASE SetPrimitve
    BY <2>0, <2>1, <2>3, <2>4 DEF SetPrimitve, Accept
  <2>5. CASE AddByte \/ AddWord \/ AddDword
    <3>1. /\ (l + 2) % DwordMod = l + 2
          /\ (l + 4) % DwordMod = l + 4
      BY RoomFacts
    <3> QED
      BY <2>0, <2>1, <2>3, <2>5, <3>1 DEF AddByte, AddWord, AddDword, Room, Accept
  <2>6. ASSUME NEW n \in Dwords, SetHeader(n) \/ Seek(n)
        PROVE  wrote'.hi <= size' /\ l' <= size'
    BY <2>0, <2>1, <2>3, <2>6 DEF SetHeader, Seek, Room, Accept
  <2>7. ASSUME NEW n \in Dwords, AddBin(n)
        PROVE  wrote'.hi <= size' /\ l' <= size'
    <3>1. l + n < DwordMod /\ n \in Nat
      BY <2>0, <2>7 DEF Careless, Dwords
    <3>2. (l + n) % DwordMod = l + n
      BY <3>1, RoomFacts
    <3> QED
      BY <2>0, <2>1, <2>3, <2>7, <3>1, <3>2 DEF AddBin, Room, Accept
  <2>8. ASSUME NEW need \in Nat, NEW h \in Nat, NEW said, NEW n \in Nat, h + n <= need,
               Param(need, h, said, n)
        PROVE  wrote'.hi <= size' /\ l' <= size'
    BY <2>0, <2>1, <2>8 DEF Param
  <2>9. CASE Params
    <3>1. ASSUME NEW n \in Bytes, AddTLV(n) PROVE wrote'.hi <= size' /\ l' <= size'
      BY <2>8, <3>1 DEF AddTLV, Bytes
    <3>2. ASSUME NEW n \in Words,
                 \/ AddTwLV(n) \/ AddwTwLV(n) \/ AddSwTwLV(n) \/ AddwTwLV_AsCString(n)
                 \/ AddSwTwLV_AsCString(n)
          PROVE  wrote'.hi <= size' /\ l' <= size'
      <4>1. n \in Nat /\ n + 1 \in Nat /\ n + 2 \in Nat
        BY Widths DEF Words
      <4>2. CASE AddTwLV(n)
        BY <2>8, <4>1, <4>2 DEF AddTwLV
      <4>3. CASE AddwTwLV(n)
        BY <2>8, <4>1, <4>3 DEF AddwTwLV
      <4>4. CASE AddSwTwLV(n)
        BY <2>8, <4>1, <4>4 DEF AddSwTwLV
      <4>5. CASE AddwTwLV_AsCString(n)
        BY <2>8, <4>1, <4>5 DEF AddwTwLV_AsCString
      <4>6. CASE AddSwTwLV_AsCString(n)
        BY <2>8, <4>1, <4>6 DEF AddSwTwLV_AsCString
      <4> QED
        BY <3>2, <4>2, <4>3, <4>4, <4>5, <4>6
    <3>3. ASSUME NEW n \in Dwords, AddwTdLV(n) \/ AdddTdLV(n) PROVE wrote'.hi <= size' /\ l' <= size'
      BY <2>8, <3>3, Widths DEF AddwTdLV, AdddTdLV, Dwords
    <3>4. ASSUME NEW n \in 0 .. 3 * (Base - 1), AddTLVV(n) PROVE wrote'.hi <= size' /\ l' <= size'
      BY <2>1, <2>8, <3>4, CallsAssumption DEF AddTLVV
    <3>5. CASE AddTLV_byte
      BY <2>0, <2>3, <3>5 DEF AddTLV_byte, Quiet
    <3> QED
      BY <2>9, <3>1, <3>2, <3>3, <3>4, <3>5 DEF Params, Careless
  <2> QED
    BY <2>2, <2>4, <2>5, <2>6, <2>7, <2>9 DEF Next, Raw, Careless
<1> QED
  BY <1>1, CursorNearEnd, PTL DEF Spec, StaysInside

(* A length that was written is the length of what follows it, except for  *)
(* a value too long for the word.                                          *)
THEOREM LengthsTrue == Spec => []LengthTrue
<1>1. Init => LengthTrue
  BY DEF Init, Nothing, LengthTrue
<1>2. LengthTrue /\ [Next]_vars => LengthTrue'
  <2> SUFFICES ASSUME LengthTrue, [Next]_vars PROVE LengthTrue'
    OBVIOUS
  <2>1. CASE UNCHANGED wrote
    BY <2>1 DEF LengthTrue
  <2>2. ASSUME wrote'.said = 0, wrote'.meant = 0 PROVE LengthTrue'
    BY <2>2 DEF LengthTrue
  <2>3. CASE Refuse
    BY <2>2, <2>3 DEF Refuse, Nothing
  <2>4. ASSUME NEW from, NEW n, NEW to, Put(from, n, to) PROVE LengthTrue'
    BY <2>2, <2>4 DEF Put, Nothing
  <2>5. CASE Making
    BY <2>2, <2>5 DEF Making, Init2, Init3, Clear, Nothing
  <2>6. CASE Raw
    BY <2>3, <2>4, <2>6 DEF Raw, SetPrimitve, SetPrimitveWord, SetPrimitveDword, AddByte, AddWord, AddDword,
       SetHeader, Seek, AddBin, Accept
  <2>7. ASSUME NEW need, NEW h, NEW said, NEW n, Param(need, h, said, n), said = n \/ n >= WordMod
        PROVE  LengthTrue'
    BY <2>3, <2>7 DEF Param, LengthTrue
  <2>8. ASSUME NEW n \in Nat PROVE n % WordMod = n \/ n >= WordMod
    BY Widths, ModSmall
  <2>9. ASSUME NEW n \in Bytes, AddTLV(n) PROVE LengthTrue'
    BY <2>7, <2>9 DEF AddTLV
  <2>10. ASSUME NEW n \in Words,
                \/ AddTwLV(n) \/ AddwTwLV(n) \/ AddSwTwLV(n) \/ AddwTwLV_AsCString(n)
                \/ AddSwTwLV_AsCString(n)
         PROVE  LengthTrue'
    <3>1. n + 1 \in Nat /\ n + 2 \in Nat
      BY Widths DEF Words
    <3>2. /\ (n + 1) % WordMod = n + 1 \/ n + 1 >= WordMod
          /\ (n + 2) % WordMod = n + 2 \/ n + 2 >= WordMod
      BY <2>8, <3>1
    <3>3. CASE AddTwLV(n) \/ AddwTwLV(n)
      BY <2>7, <3>3 DEF AddTwLV, AddwTwLV
    <3>4. CASE AddSwTwLV(n) \/ AddwTwLV_AsCString(n)
      BY <2>7, <3>2, <3>4 DEF AddSwTwLV, AddwTwLV_AsCString
    <3>5. CASE AddSwTwLV_AsCString(n)
      BY <2>7, <3>2, <3>5 DEF AddSwTwLV_AsCString
    <3> QED
      BY <2>10, <3>3, <3>4, <3>5
  <2>11. ASSUME NEW n \in Dwords, AddwTdLV(n) \/ AdddTdLV(n) PROVE LengthTrue'
    BY <2>7, <2>11 DEF AddwTdLV, AdddTdLV
  <2>12. ASSUME NEW n \in 0 .. 3 * (Base - 1), AddTLVV(n) PROVE LengthTrue'
    BY <2>3, <2>7, <2>12 DEF AddTLVV
  <2>13. CASE AddTLV_byte \/ AddTLV_dword
    BY <2>2, <2>4, <2>13 DEF AddTLV_byte, AddTLV_dword, Quiet, Nothing
  <2> QED
    BY <2>1, <2>5, <2>6, <2>9, <2>10, <2>11, <2>12, <2>13 DEF Next, Params, vars
<1> QED
  BY <1>1, <1>2, PTL DEF Spec

=============================================================================
