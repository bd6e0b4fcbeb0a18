------------------------------ MODULE DPString ------------------------------
(***************************************************************************)
(* DPString, the text class of the library (the client writes its log      *)
(* lines, hashes and digests with it): len characters in an array of size  *)
(* bytes that somebody else owns, with a zero behind them.  Every call     *)
(* tests for itself whether there is room, in one of three ways:           *)
(*   strict  len + n >= size refuses: the zero is counted;                 *)
(*   loose   len + n > size refuses, or size - len + 1 is passed on as the *)
(*           room: the zero may lie one byte behind the array;             *)
(*   wild    the test is for another number than what is written.          *)
(* Only places are modelled, not characters.                               *)
(***************************************************************************)
EXTENDS Naturals

CONSTANTS
    Sizes,      \* sizes of arrays
    ByteMod,    \* how many values a byte has: 256
    DwordMod,   \* how many values a dword has: 2^32
    Digits,     \* lengths of numbers: up to 20
    Alphabets   \* sizes of the tables of AddRnd: 62 and 36

ASSUME StringAssumption ==
    /\ ByteMod \in Nat \ {0} /\ DwordMod \in Nat \ {0}
    /\ Digits \subseteq Nat /\ Alphabets \subseteq Nat
    /\ \A s \in Sizes : s \in Nat /\ s >= 1 /\ 2 * s + 20 < DwordMod

VARIABLES
    size,
    len,
    ended,  \* the byte behind the text is 0
    call,   \* the last call: hi, one past the last byte it wrote; want, how
            \* many characters it had to add; ret, what it returned
    how     \* history: which group of calls it was of

vars == <<size, len, ended, call, how>>

Dwords == 0 .. DwordMod - 1
Bytes == 0 .. ByteMod - 1

Max(a, b) == IF a > b THEN a ELSE b

(* The constructors: empty, or with n characters if they fit; the one that *)
(* takes a single character does not look.                                 *)
Init ==
    /\ size \in Sizes
    /\ len \in 0 .. Max(size - 1, 1)
    /\ ended = TRUE
    /\ call = [hi |-> len + 1, want |-> 0, ret |-> TRUE]
    /\ how = "strict"

-----------------------------------------------------------------------------
(* How a call ends *)

(* The text is n long and a zero is put behind it. *)
Becomes(n, want) ==
    /\ len' = n /\ ended' = TRUE
    /\ call' = [hi |-> n + 1, want |-> want, ret |-> TRUE]
    /\ UNCHANGED size

Refuse(want) ==
    /\ call' = [hi |-> 0, want |-> want, ret |-> FALSE]
    /\ UNCHANGED <<size, len, ended>>

(* n characters and a zero are written at the end. *)
Append(n) == Becomes(len + n, n)

(* Nothing has to be done. *)
Stays(want) ==
    /\ call' = [hi |-> 0, want |-> want, ret |-> TRUE]
    /\ UNCHANGED <<size, len, ended>>

(* n characters are kept of what was to be added. *)
Midway(n, want, zero) ==
    /\ len' = len + n /\ ended' = zero
    /\ call' = [hi |-> len + n + 1, want |-> want, ret |-> FALSE]
    /\ UNCHANGED size

-----------------------------------------------------------------------------
(* Strict calls *)

SetLen(n) == IF n > len THEN Refuse(0) ELSE Becomes(n, 0)

Clear == Becomes(0, 0)

Set(n) == IF n >= size THEN Refuse(0) ELSE Becomes(n, 0)

(* Add, AddW, AddSpace, AddStrEnd. *)
Add(n) == IF len + n >= size THEN Refuse(n) ELSE Append(n)

AddStrLine(n) == IF n = 0 THEN Stays(0) ELSE Add(n)

AddSpaceAlignLen(n) == IF n <= len THEN Stays(0) ELSE Add(n - len)

AddSpaceTab(tab) == IF tab < 2 \/ len = 0 THEN Stays(0) ELSE Add(tab - (len % tab))

(* The last character is made a delimiter, or one is added. *)
AddPathDelimiter == (len > 0 /\ Stays(0)) \/ Add(1)

(* A text that does not fit clears what there was. *)
Emptied(want) ==
    /\ len' = 0 /\ ended' = TRUE
    /\ call' = [hi |-> 1, want |-> want, ret |-> FALSE]
    /\ UNCHANGED size

(* operator = *)
AssignOrClear(n) == IF n >= size THEN Emptied(0) ELSE Becomes(n, 0)

(* operator += *)
AddOrClear(n) == IF len + n >= size THEN Emptied(n) ELSE Append(n)

(* Symbol by symbol, of up to three bytes.  The first that does not fit    *)
(* ends it where it is, without a zero; what is there then is unknown.     *)
AddWAsUTF8(n) ==
    \/ (n = 0 \/ len + n < size) /\ Append(n)
    \/ \E l \in 1 .. 3, zero \in BOOLEAN :
          /\ n = 0 \/ len + n < size
          /\ len + n + l >= size
          /\ n = 0 => zero = ended
          /\ Midway(n, n + l, zero)

(* Add's result is not looked at: a token that does not fit is passed over. *)
AddAsToken(n) == IF len + n >= size THEN Stays(n) ELSE Append(n)

-----------------------------------------------------------------------------
(* Shortening *)

(* TrimRight, TrimPath, TrimQuotes, TrimFileExt: a zero at the new end. *)
CutRight(n) == len > 0 /\ n <= len /\ Becomes(n, 0)

(* TrimLeft, DeleteLeft, and the calls that take a number or an address    *)
(* off the front: the rest is moved with the byte behind it.               *)
CutLeft(n) ==
    /\ len > 0 /\ n <= len
    /\ len' = len - n
    /\ call' = [hi |-> len - n + 1, want |-> 0, ret |-> TRUE]
    /\ UNCHANGED <<size, ended>>

-----------------------------------------------------------------------------
(* Loose calls *)

(* The room that is passed on to a conversion. *)
Room == size + 1 - len

(* A conversion that does not fit puts a zero where it was to begin. *)
Undone(hi, want) ==
    /\ ended' = TRUE
    /\ call' = [hi |-> Max(hi, len + 1), want |-> want, ret |-> FALSE]
    /\ UNCHANGED <<size, len>>

(* AddDec, AddQDec, AddHex, AddQHex: zeros in front, then c digits. *)
AddNumber(pads, c) ==
    IF pads > Room THEN Undone(len, pads + c)
    ELSE IF pads + c + 1 > Room THEN Undone(len + pads, pads + c)
    ELSE Append(pads + c)

(* AddLong, AddSQDec of a negative number: a sign and c digits. *)
AddSigned(c) ==
    IF Room < 2 THEN Refuse(c + 1)
    ELSE IF c + 2 > Room THEN Undone(len + 2, c + 1)
    ELSE Append(c + 1)

(* Mutant: the spaces behind are not tested. *)
AddNumberEx_NoSpaces(pads, c, spaces) ==
    IF pads + c >= Room THEN Undone(len, pads + c + spaces)
    ELSE Append(pads + c + spaces)

(* The Ex calls: symbols in front, digits, spaces behind, each tested on   *)
(* its own; their number is returned as a byte.                            *)
AddNumberEx(pads, c, spaces) ==
    LET n == pads + c + spaces
        l == n % ByteMod
        done == IF pads > Room THEN 0
                ELSE IF pads + c > Room THEN pads
                ELSE IF n > Room THEN pads + c ELSE n
    IN  IF n >= Room THEN Undone(len + done, n)
        ELSE /\ len' = len + l
             /\ ended' = (l = n)
             /\ call' = [hi |-> len + n + 1, want |-> n, ret |-> (l # 0)]
             /\ UNCHANGED size

(* AddLongEx, AddSQDecEx of a negative number: a sign is put in front once *)
(* the rest is there.  A rest whose number is 0 as a byte counts as none.  *)
AddSignedEx(c, spaces) ==
    LET n == 1 + c + spaces
        lost == n % ByteMod = 1 /\ n < Room
    IN  \/ Room < 2 /\ Refuse(n)
        \/ Room >= 2 /\ lost /\ Undone(len + n + 1, n)
        \/ Room >= 2 /\ ~lost /\ AddNumberEx(1, c, spaces)

(* Two numbers and a point; what stops it takes the length back, but not   *)
(* the digits.                                                             *)
AddDouble(c, d) ==
    IF d = 0 \/ c + 1 > Room THEN AddNumber(0, c)
    ELSE IF len + c + 1 + d > size
    THEN /\ ended' = FALSE
         /\ call' = [hi |-> IF len + c + 1 > size THEN len + c + 1 ELSE len + c + 2,
                     want |-> c + 1 + d, ret |-> FALSE]
         /\ UNCHANGED <<size, len>>
    ELSE Append(c + 1 + d)

(* Mutant: the cursor is left where it was. *)
AddHexFixed_NotMoved(n) ==
    IF len + n > size THEN Refuse(n)
    ELSE /\ call' = [hi |-> len + n + 1, want |-> n, ret |-> TRUE]
         /\ ended' = FALSE
         /\ UNCHANGED <<size, len>>

(* AddHexByte to AddHexQword. *)
AddHexFixed(n) == IF len + n > size THEN Refuse(n) ELSE Append(n)

(* AddDumpByte, AddDumpByteA: w characters a byte, the separator included, *)
(* which is not written before the first.                                  *)
AddDumpByte(n, w) ==
    LET k == IF w = 3 /\ n > 0 THEN 3 * n - 1 ELSE w * n
    IN  IF n * w + len > size THEN Refuse(k) ELSE Append(k)

(* AddIP, AddIPPort: numbers and delimiters.  The first part that does not *)
(* fit ends it where it is, with a zero.                                   *)
AddIP(n, part) ==
    \/ n >= 7 /\ len + n <= size /\ Append(n)
    \/ len + n <= size /\ len + n + part > size /\ Midway(n, n + part, TRUE)

-----------------------------------------------------------------------------
(* Wild calls *)

(* One character: the array may be of one byte. *)
SetChar == Becomes(1, 0)

(* The length makes the sum of the test wrap around: the copy does not. *)
AddWraps(n) ==
    /\ len + n >= DwordMod
    /\ (len + n) % DwordMod < size
    /\ Append(n)

AddDumpByteWraps(n, w) ==
    /\ n * w + len >= DwordMod
    /\ (n * w + len) % DwordMod <= size
    /\ Append(IF w = 3 THEN 3 * n - 1 ELSE w * n)

(* AddDumpByte0x, AddDumpByteA0x: with a separator the spaces are tested   *)
(* once and written before each byte but the first; without one they are   *)
(* tested and not written.                                                 *)
AddDumpByte0x(n, space, w) ==
    LET k == IF w = 4 \/ n = 0 THEN 4 * n ELSE 4 * n + (n - 1) * (1 + space)
    IN  IF (n * w + len + space) % DwordMod > size THEN Refuse(k) ELSE Append(k)

(* AddRnd_...: tested for n, written once for each letter of the table. *)
AddRnd(n, letters) ==
    IF (len + n) % DwordMod >= size THEN Refuse(n) ELSE Becomes(len + letters, n)

-----------------------------------------------------------------------------
Strict == \/ \E n \in Dwords : \/ SetLen(n) \/ Set(n)
                               \/ AddSpaceAlignLen(n) \/ AddSpaceTab(n)
                               \/ len + n < DwordMod /\ (Add(n) \/ AddStrLine(n))
          \/ \E n \in 0 .. size : CutRight(n) \/ CutLeft(n)
          \/ Clear \/ AddPathDelimiter

Loose == \/ \E c \in Digits : \/ AddSigned(c)
                              \/ \E pads \in Digits \cup {0} : AddNumber(pads, c)
                              \/ \E d \in Digits \cup {0} : AddDouble(c, d)
                              \/ \E pads, spaces \in Bytes :
                                    pads + c < ByteMod /\ AddNumberEx(pads, c, spaces)
                              \/ \E spaces \in Bytes : AddSignedEx(c, spaces)
         \/ \E n \in {2, 4, 8, 16} : AddHexFixed(n)
         \/ \E n \in Dwords, w \in {2, 3} : n * w + len < DwordMod /\ AddDumpByte(n, w)

Wild == \/ SetChar
        \/ \E n \in Dwords : \/ AddWraps(n)
                             \/ \E w \in {2, 3} : AddDumpByteWraps(n, w)
                             \/ \E space \in 0 .. 3, w \in {4, 5} : AddDumpByte0x(n, space, w)
                             \/ \E letters \in Alphabets : AddRnd(n, letters)

(* A text outside its array is undefined behaviour: the model stops there. *)
Next ==
    /\ len <= size
    /\ \/ Strict /\ how' = "strict"
       \/ (\E n \in Dwords : len + n < DwordMod /\ AddAsToken(n)) /\ how' = "token"
       \/ (\E n \in Dwords : \/ AssignOrClear(n)
                             \/ len + n < DwordMod /\ AddOrClear(n)) /\ how' = "clears"
       \/ (\E n \in 0 .. size : AddWAsUTF8(n)) /\ how' = "utf8"
       \/ Loose /\ how' = "loose"
       \/ (\E n \in 0 .. 21, part \in 1 .. 5 : AddIP(n, part)) /\ how' = "ip"
       \/ Wild /\ how' = "wild"

Spec == Init /\ [][Next]_vars

-----------------------------------------------------------------------------
Counted == {"strict", "token", "clears", "utf8"}

(* Type invariant. *)
TypeOK ==
    /\ size \in Sizes /\ len \in Nat
    /\ ended \in BOOLEAN
    /\ call \in [hi : Nat, want : Nat, ret : BOOLEAN]
    /\ how \in Counted \cup {"loose", "ip", "wild"}

(* The calls that count the zero keep a text and its zero inside the array *)
(* they were given, whatever they are given.  The others, which count it   *)
(* out or pass on one byte too many, overstep by that byte and no more,    *)
(* even one after the other, and the text without its zero stays inside:   *)
(* but for the wild ones.                                                  *)
StaysNear ==
    [][/\ len < size /\ how' \in Counted => call'.hi <= size /\ len' < size
       /\ len <= size /\ how' # "wild" => call'.hi <= size + 1 /\ len' <= size]_vars

(* What a call returns is true.  A C string stays one, unless the call     *)
(* said that it failed, and a call that returns true has added all it had  *)
(* to, one that returns false nothing.  Exceptions are the calls that pass *)
(* over a token that does not fit, clear the text, or stop midway (texts   *)
(* in UTF-8 and addresses), and the numbers that are so long that the byte *)
(* for their length wraps.                                                 *)
ResultIsTrue ==
    [][call'.want < ByteMod =>
          /\ ended /\ ~ended' => ~call'.ret
          /\ how' \in {"strict", "loose"} /\ call'.want > 0 =>
                len' = IF call'.ret THEN len + call'.want ELSE len]_vars

=============================================================================
