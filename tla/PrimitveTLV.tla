---------------------------- MODULE PrimitveTLV ----------------------------
(***************************************************************************)
(* DPrimitveTLV, the class the handlers build a message with: a cursor     *)
(* over a buffer it does not own.  A builder is a record                   *)
(*   p      where its bytes begin in the memory,                           *)
(*   size   how many it has (0 for the null pointer: every call tests both *)
(*          and refuses either),                                           *)
(*   l      how many it has used,                                          *)
(*   state  "empty", "ok", "error"; "unset" until something assigns it,    *)
(*   error  TRUE from the first refusal on.                                *)
(* Several builders share one memory, a function from addresses to bytes.  *)
(* A call is two operators: what it makes of the builder and what it makes *)
(* of the memory.                                                          *)
(***************************************************************************)
EXTENDS Naturals, Sequences

CONSTANTS
    Base,   \* how many values a byte has: 256
    Unset   \* what a byte of the stack holds before the first write

ASSUME BaseAssumption == Base \in Nat /\ Base >= 2

Byte == 0 .. Base - 1

(* word: two bytes, the low one first. *)
WordMax == Base * Base

Word(n) == << n % Base, n \div Base >>

State == {"empty", "ok", "error", "unset"}

Builder == [p : Nat, size : Nat, l : Nat, state : State, error : BOOLEAN]

-----------------------------------------------------------------------------
(* The default constructor: a null pointer; it does not assign state. *)
Null == [p |-> 0, size |-> 0, l |-> 0, state |-> "unset", error |-> FALSE]

(* The constructor on an array. *)
Over(data, max_size) ==
    [p |-> data, size |-> max_size, l |-> 0,
     state |-> IF max_size = 0 THEN "error" ELSE "empty", error |-> FALSE]

GetPS(b) == b.p + b.l

EmptySize(b) == b.size - b.l

(* Mutant: the size is not reduced by the shift. *)
Init3_KeepsSize(b, data, max_size, shift) ==
    [b EXCEPT !.p = data + shift, !.size = max_size, !.l = 0,
              !.state = "empty"]

(* Init(data, max_size, shift).  A shift that does not fit leaves the      *)
(* builder as it was; nothing resets error.  What a null pointer would     *)
(* make of it is left out: only a builder without bytes has one for GetPS, *)
(* and in its EmptySize of 0 no shift fits.                                *)
Init3(b, data, max_size, shift) ==
    IF shift >= max_size
    THEN b
    ELSE [b EXCEPT !.p = data + shift, !.size = max_size - shift, !.l = 0,
                   !.state = "empty"]

(* Mutant: the guard lets one byte too many through. *)
Fits_OffByOne(b, n) == b.size # 0 /\ b.l + n <= b.size + 1

(* The test before every write or Seek: (l + n) > size refuses. *)
Fits(b, n) == b.size # 0 /\ b.l + n <= b.size

(* Seek(n), and the part of every Add that is not the copying. *)
Seek(b, n) ==
    IF Fits(b, n)
    THEN [b EXCEPT !.l = @ + n, !.state = "ok"]
    ELSE [b EXCEPT !.state = "error", !.error = TRUE]

(* SetHeader(n) differs only in leaving state alone when it succeeds. *)
SetHeader(b, n) == [Seek(b, n) EXCEPT !.state = IF Fits(b, n) THEN b.state ELSE @]

(* The memory after bytes are written from address a on. *)
Write(m, a, bytes) ==
    [x \in DOMAIN m |-> IF x \in a .. a + Len(bytes) - 1
                        THEN bytes[x - a + 1] ELSE m[x]]

(* An Add writes all its bytes at the cursor, or none. *)
Store(m, b, bytes) == IF Fits(b, Len(bytes)) THEN Write(m, GetPS(b), bytes) ELSE m

(* What AddwTwLV writes.  Its len parameter is a word, to which the        *)
(* handlers cast the length (_stds_pl_w): a longer value is cut.           *)
wTwLV(t, v) ==
    LET len == Len(v) % WordMax
    IN  Word(t) \o Word(len) \o SubSeq(v, 1, len)

=============================================================================
