--------------------------- MODULE MessageBuilder ---------------------------
(***************************************************************************)
(* How a request handler builds its message: a tDPrimitveTLV on its stack, *)
(* SetHeader, parameters, and parameters that hold parameters.  A nested   *)
(* one is written in place by a second builder four bytes ahead, where the *)
(* value will begin; then its tag and length go into the gap and the first *)
(* builder seeks over it.  OnRequest_CS_PutContacts nests twice.           *)
(*                                                                         *)
(* No result is looked at: what does not fit is left out, and the message  *)
(* is sent all the same.                                                   *)
(***************************************************************************)
EXTENDS PrimitveTLV

CONSTANTS
    Size,       \* bytes of the array: 256, 512, 4096 or 65535
    HeaderLen,  \* sizeof(PAPI_STREAM_HEADER): 8
    Tags,       \* the parameters' names
    Values,     \* the values the handler is given, of any length
    Depth,      \* how many builders may be open at a time
    MaxCalls    \* bound: calls for one message

(* 65535 is the longest message: a length inside it always fits a word. *)
ASSUME BuilderAssumption ==
    /\ Size \in Nat /\ HeaderLen \in Nat
    /\ HeaderLen <= Size /\ 0 < Size /\ Size < WordMax
    /\ Tags \subseteq 0 .. WordMax - 1
    /\ Values \subseteq Seq(Byte)
    /\ Unset \notin Byte
    /\ Depth \in Nat /\ MaxCalls \in Nat

VARIABLES
    mem,    \* the array
    stk,    \* the builders, the innermost last
    kept,   \* history: the parameters that went into each builder
    sent,   \* bin_stream was called
    calls   \* calls so far

vars == <<mem, stk, kept, sent, calls>>

Address == 0 .. Size - 1

Param == [tag : Tags, val : Seq(Byte)]

Top == Len(stk)

Init ==
    /\ mem = [a \in Address |-> IF a < HeaderLen THEN 0 ELSE Unset]
    /\ stk = << SetHeader(Over(0, Size), HeaderLen) >>
    /\ kept = << <<>> >>
    /\ sent = FALSE
    /\ calls = 0

Call == ~sent /\ calls < MaxCalls /\ calls' = calls + 1 /\ UNCHANGED sent

(* The bytes a builder has used. *)
Used(m, b) == [i \in 1 .. b.l |-> m[b.p + i - 1]]

AddwTwLV(t, v) ==
    /\ Call
    /\ mem' = Store(mem, stk[Top], wTwLV(t, v))
    /\ stk' = [stk EXCEPT ![Top] = Seek(@, Len(wTwLV(t, v)))]
    /\ kept' = IF Fits(stk[Top], Len(wTwLV(t, v)))
               THEN [kept EXCEPT ![Top] =
                        Append(@, [tag |-> t,
                                   val |-> SubSeq(v, 1, Len(v) % WordMax)])]
               ELSE kept

(* Mutant: one byte more than the tag and the length take. *)
InitNested_Gap ==
    /\ Call
    /\ Top < Depth
    /\ stk' = Append(stk, Init3(Null, GetPS(stk[Top]), EmptySize(stk[Top]), 5))
    /\ kept' = Append(kept, <<>>)
    /\ UNCHANGED mem

(* _data.Init(msg.GetPS(), msg.EmptySize(), 4) on a new _data. *)
InitNested ==
    /\ Call
    /\ Top < Depth
    /\ stk' = Append(stk, Init3(Null, GetPS(stk[Top]), EmptySize(stk[Top]), 4))
    /\ kept' = Append(kept, <<>>)
    /\ UNCHANGED mem

Outer == stk[Top - 1]
Inner == stk[Top]

(* msg.AddWord(tag), msg.AddWord((word)_data.Len()), msg.Seek(_data.Len()):   *)
(* each is refused or not by itself.                                       *)
WithTag == Seek(Outer, 2)
WithLen == Seek(WithTag, 2)
Closed == Seek(WithLen, Inner.l)

Whole == Fits(Outer, 2) /\ Fits(WithTag, 2) /\ Fits(WithLen, Inner.l)

(* Mutant: the length goes first. *)
AddNested_Swapped(t) ==
    /\ Call
    /\ Top > 1
    /\ mem' = Store(Store(mem, Outer, Word(Inner.l % WordMax)),
                    WithTag, Word(t))
    /\ stk' = [SubSeq(stk, 1, Top - 1) EXCEPT ![Top - 1] = Closed]
    /\ kept' = [SubSeq(kept, 1, Top - 1) EXCEPT ![Top - 1] =
                    IF Whole THEN Append(@, [tag |-> t,
                                             val |-> Used(mem, Inner)])
                    ELSE @]

AddNested(t) ==
    /\ Call
    /\ Top > 1
    /\ mem' = Store(Store(mem, Outer, Word(t)),
                    WithTag, Word(Inner.l % WordMax))
    /\ stk' = [SubSeq(stk, 1, Top - 1) EXCEPT ![Top - 1] = Closed]
    /\ kept' = [SubSeq(kept, 1, Top - 1) EXCEPT ![Top - 1] =
                    IF Whole THEN Append(@, [tag |-> t,
                                             val |-> Used(mem, Inner)])
                    ELSE @]

(* bin_stream(msg, msg.Len()); the handler is done with the message. *)
Send ==
    /\ ~sent
    /\ Top = 1
    /\ sent' = TRUE
    /\ UNCHANGED <<mem, stk, kept, calls>>

Next ==
    \/ \E t \in Tags, v \in Values : AddwTwLV(t, v)
    \/ InitNested
    \/ \E t \in Tags : AddNested(t)
    \/ Send

Spec == Init /\ [][Next]_vars

-----------------------------------------------------------------------------
Parsed == INSTANCE TlvItems     \* the library's parser

(* Types: the memory holds bytes or nothing yet, there is always a         *)
(* builder, and each builder has its list of parameters.                   *)
TypeOK ==
    /\ mem \in [Address -> Byte \cup {Unset}]
    /\ stk \in Seq(Builder) /\ stk # <<>>
    /\ kept \in Seq(Seq(Param)) /\ Len(kept) = Len(stk)
    /\ sent \in BOOLEAN
    /\ calls \in 0 .. MaxCalls

(* No builder, at any depth, uses or owns a byte outside the array, and a  *)
(* builder that has bytes at all ends exactly where the one around it      *)
(* ends, four bytes after that one's cursor: so a nested value can never   *)
(* grow over what follows it, and EmptySize never wraps below zero.        *)
InBounds ==
    /\ \A i \in DOMAIN stk : /\ stk[i].l <= stk[i].size
                             /\ stk[i].p + stk[i].size <= Size
    /\ \A i \in 1 .. Len(stk) - 1 :
           \/ stk[i + 1].size = 0 /\ EmptySize(stk[i]) <= 4
           \/ /\ stk[i + 1].p = GetPS(stk[i]) + 4
              /\ stk[i + 1].p + stk[i + 1].size = stk[i].p + stk[i].size

(* A message never carries a byte that nobody wrote: Seek moves over the   *)
(* nested value only when every byte of it, and the tag and the length in  *)
(* front of it, are there.                                                 *)
NothingUnset ==
    \A i \in DOMAIN stk : \A a \in stk[i].p .. GetPS(stk[i]) - 1 :
        mem[a] \in Byte

(* A nested value that had any room is taken over whole: of AddWord,       *)
(* AddWord, Seek none is refused.  Only when no room was left for a value  *)
(* may a tag stay behind without its length.                               *)
NestedIsWhole == Top > 1 /\ Inner.size > 0 => Whole

(* At every moment of the building, what each builder has used reads back  *)
(* as exactly the parameters that were accepted, in their order, with the  *)
(* bytes they were given: no refusal, cut value or half-written nested     *)
(* parameter makes the parser lose its step.                               *)
RoundTrip ==
    \A i \in DOMAIN stk :
        LET skip == IF i = 1 THEN HeaderLen ELSE 0
        IN  Parsed!ItemsFrom(Used(mem, stk[i]), skip) = kept[i]

=============================================================================
