------------------------------ MODULE TlvCalls ------------------------------
(***************************************************************************)
(* DPrimitveTLV as a class: every call it offers, on one builder, in any   *)
(* order and with any length.  The handlers use a few of them in a fixed   *)
(* order (MessageBuilder); this module says what holds for any caller.     *)
(* Only places matter here, so there are no bytes: a call writes [lo, hi), *)
(* counted from p, and leaves its cursor at l.                             *)
(***************************************************************************)
EXTENDS Naturals

CONSTANTS
    Base,       \* how many values a byte has: 256
    DwordMod,   \* how many values a dword has: Base^4
    Sizes       \* sizes of buffers; 0 stands for the null pointer as well

WordMod == Base * Base

ASSUME CallsAssumption ==
    /\ Base \in Nat /\ Base >= 2
    /\ DwordMod \in Nat /\ DwordMod > WordMod
    /\ Sizes \subseteq Nat /\ \A s \in Sizes : s + 8 < DwordMod

VARIABLES
    size,   \* of the buffer
    l,      \* bytes used
    state,  \* of the last call, for those calls that set it
    error,  \* a call was refused
    wrote   \* the last call: what it wrote, the length it said and that it meant

vars == <<size, l, state, error, wrote>>

Bytes == 0 .. Base - 1
Words == 0 .. WordMod - 1
Dwords == 0 .. DwordMod - 1

Nothing == [lo |-> 0, hi |-> 0, said |-> 0, meant |-> 0]

(* The constructors: on nothing, on a buffer, on a buffer with len bytes   *)
(* to begin with, which must leave room.  The first does not assign state. *)
Init ==
    /\ size \in Sizes
    /\ \/ l = 0 /\ state = IF size = 0 THEN "error" ELSE "empty"
       \/ size = 0 /\ l = 0 /\ state = "unset"
       \/ \E len \in 0 .. size : IF len < size THEN l = len /\ state = "empty"
                                               ELSE l = 0 /\ state = "error"
    /\ error = FALSE
    /\ wrote = Nothing

-----------------------------------------------------------------------------
(* How a call ends *)

Refuse ==
    /\ state' = "error" /\ error' = TRUE
    /\ wrote' = Nothing
    /\ UNCHANGED <<size, l>>

(* n bytes are written at from, the cursor goes to to. *)
Put(from, n, to) ==
    /\ l' = to
    /\ wrote' = [Nothing EXCEPT !.lo = from, !.hi = from + n]
    /\ UNCHANGED <<size, error>>

Accept(from, n, to) == Put(from, n, to) /\ state' = "ok"

-----------------------------------------------------------------------------
(* Making and clearing *)

Init2(n) ==
    /\ size' = n /\ l' = 0
    /\ state' = IF n = 0 THEN "error" ELSE "empty"
    /\ wrote' = Nothing
    /\ UNCHANGED error

(* With a shift; one that does not fit changes nothing.  The array may be  *)
(* the null pointer whatever its size.                                     *)
Init3(n, shift) ==
    /\ shift < n
    /\ \/ size' = n - shift /\ state' = "empty"
       \/ size' = 0 /\ state' = "error"
    /\ l' = 0
    /\ wrote' = Nothing
    /\ UNCHANGED error

Clear ==
    /\ l' = 0 /\ error' = FALSE
    /\ state' = IF size = 0 THEN "error" ELSE "empty"
    /\ wrote' = Nothing
    /\ UNCHANGED size

-----------------------------------------------------------------------------
(* Raw values *)

(* The two wider ones write at the cursor, and then set it to their width. *)
SetPrimitve == IF size = 0 THEN Refuse ELSE Accept(0, 1, 1)
SetPrimitveWord == IF size < 2 THEN Refuse ELSE Accept(l, 2, 2)
SetPrimitveDword == IF size < 4 THEN Refuse ELSE Accept(l, 4, 4)

(* The sum of the test is a dword. *)
Room(n) == size # 0 /\ (l + n) % DwordMod <= size

SetHeader(n) ==
    IF Room(n) THEN Put(l, 0, (l + n) % DwordMod) /\ UNCHANGED state ELSE Refuse
Seek(n) == IF Room(n) THEN Accept(l, 0, (l + n) % DwordMod) ELSE Refuse

(* Mutant: the test is for one byte. *)
AddWord_ForByte == IF Room(1) THEN Accept(l, 2, l + 2) ELSE Refuse

(* AddByte asks for room for two. *)
AddByte == IF Room(2) THEN Accept(l, 1, l + 1) ELSE Refuse
AddWord == IF Room(2) THEN Accept(l, 2, l + 2) ELSE Refuse
AddDword == IF Room(4) THEN Accept(l, 4, l + 4) ELSE Refuse

(* memcpy copies n bytes, whatever the sum of the test came to. *)
AddBin(n) == IF Room(n) THEN Accept(l, n, (l + n) % DwordMod) ELSE Refuse

-----------------------------------------------------------------------------
(* Parameters *)

(* A head of h bytes with a length in it, which says said (cut to its      *)
(* width), then n bytes more.  Here the sum of the test does not wrap.     *)
Param(need, h, said, n) ==
    IF l + need <= size
    THEN /\ l' = l + h + n
         /\ wrote' = [lo |-> l, hi |-> l + h + n, said |-> said, meant |-> n]
         /\ state' = "ok"
         /\ UNCHANGED <<size, error>>
    ELSE Refuse

AddTLV(n) == Param(2 + n, 2, n, n)
AddTwLV(n) == Param(3 + n, 3, n, n)
AddwTwLV(n) == Param(4 + n, 4, n, n)
AddwTdLV(n) == Param(6 + n, 6, n, n)
AdddTdLV(n) == Param(8 + n, 8, n, n)

(* Mutant: the status is not counted. *)
AddSwTwLV_Uncounted(n) == Param(5 + n, 4, n, n + 1)

(* A status in front, a zero behind, or both, count as value. *)
AddSwTwLV(n) == Param(5 + n, 4, (n + 1) % WordMod, n + 1)
AddwTwLV_AsCString(n) == Param(5 + n, 4, (n + 1) % WordMod, n + 1)
AddSwTwLV_AsCString(n) == Param(6 + n, 4, (n + 2) % WordMod, n + 2)

(* Two or three values as one; n is the sum of their lengths. *)
AddTLVV(n) == IF n >= Base THEN Refuse ELSE Param(2 + n, 2, n, n)

(* These two set neither state nor error. *)
Quiet(need, n) ==
    IF l + need <= size
    THEN Put(l, n, l + n) /\ UNCHANGED state
    ELSE wrote' = Nothing /\ UNCHANGED <<size, l, state, error>>

AddTLV_byte == Quiet(3, 3)
(* The test is that of AddTLV_byte. *)
AddTLV_dword == Quiet(3, 6)

-----------------------------------------------------------------------------
Making == (\E n \in Sizes : Init2(n) \/ \E shift \in 0 .. n : Init3(n, shift)) \/ Clear

Raw == \/ SetPrimitve \/ SetPrimitveWord \/ SetPrimitveDword
       \/ AddByte \/ AddWord \/ AddDword
       \/ \E n \in Dwords : SetHeader(n) \/ Seek(n) \/ AddBin(n)

Params == \/ \E n \in Bytes : AddTLV(n)
          \/ \E n \in Words : AddTwLV(n) \/ AddwTwLV(n)
          \/ \E n \in Words : AddSwTwLV(n) \/ AddwTwLV_AsCString(n) \/ AddSwTwLV_AsCString(n)
          \/ \E n \in Dwords : AddwTdLV(n) \/ AdddTdLV(n)
          \/ \E n \in 0 .. 3 * (Base - 1) : AddTLVV(n)
          \/ AddTLV_byte \/ AddTLV_dword

Next == Making \/ Raw \/ Params

Spec == Init /\ [][Next]_vars

-----------------------------------------------------------------------------
(* The calls that do not test what they write: the wider primitives, which *)
(* write at the cursor; AddTLV_dword; AddBin with a length that wraps.     *)
Careless ==
    \/ SetPrimitveWord \/ SetPrimitveDword \/ AddTLV_dword
    \/ \E n \in Dwords : l + n >= DwordMod /\ AddBin(n)

(* No other call, whatever its length, writes beyond the buffer or leaves  *)
(* the cursor there.                                                       *)
StaysInside == [][l <= size /\ ~Careless => wrote'.hi <= size' /\ l' <= size']_vars

(* The length in front of a parameter is the number of bytes that follow,  *)
(* so that a reader finds the next one: but for a value that, with its     *)
(* status or its zero, is longer than a word can say.                      *)
LengthTrue == wrote.said = wrote.meant \/ wrote.meant >= WordMod

=============================================================================
