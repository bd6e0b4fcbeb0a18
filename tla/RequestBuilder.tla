--------------------------- MODULE RequestBuilder ---------------------------
(***************************************************************************)
(* How a request handler fills its message.  The handlers are a parameter; *)
(* the arithmetic of the builders is that of PrimitveTLV at its real size, *)
(* and of a value only the length is kept.  No handler looks at the result *)
(* of an Add: what does not fit is left out and the rest is sent.          *)
(***************************************************************************)
EXTENDS PrimitveTLV, Integers

CONSTANTS
    Handlers,       \* the handlers
    Operations,     \* the operations in them, those inside others included
    Members,        \* the classes of requests, with the sizes of members
    Lengths,        \* lengths of texts and arrays that are tried
    MaxElements,    \* bound on the elements of a vector
    Own,            \* no member of the request
    TextWidth, FilledWidth, ArrayWidth, SomeWidth   \* sizes that the request has

HeaderSize == 8     \* sizeof(PAPI_STREAM_HEADER)

(* An array is as long as a word can say, and has room for the header.     *)
ASSUME RequestAssumption ==
    /\ \A c \in DOMAIN Handlers :
         /\ Handlers[c].size \in HeaderSize .. WordMax - 1
         /\ Handlers[c].ops \in Seq(Operations)
    /\ \A o \in Operations :
         IF o.op = "add"
         THEN o.n \in Nat \cup {TextWidth, FilledWidth, ArrayWidth, SomeWidth}
         ELSE o.ops \in Seq(Operations)
    /\ Lengths \subseteq Nat /\ MaxElements \in Nat

VARIABLES
    h,          \* the command
    stack,      \* the builders at work, the innermost last, each with the
                \* operations it has to do and the tag it is for
    lost,       \* the parameters that are not in the message as they should be
    wanted,     \* the bytes that the whole of them would take
    longest,    \* the longest text so far
    elements,   \* the most elements of a vector so far
    sent

bvars == << h, stack, lost, wanted, longest, elements, sent >>
seen == << wanted, longest, elements >>

Frame(b, ops, tag) == [b |-> b, ops |-> ops, tag |-> tag]

BuildInit ==
    /\ h \in DOMAIN Handlers
    /\ stack = << Frame(SetHeader(Over(0, Handlers[h].size), HeaderSize), Handlers[h].ops, "") >>
    /\ lost = {} /\ wanted = HeaderSize /\ longest = 0 /\ elements = 0
    /\ sent = FALSE

Top == stack[Len(stack)]
Below == SubSeq(stack, 1, Len(stack) - 1)
Now == Top.ops[1]
Doing(op) == /\ stack # <<>> /\ Top.ops # <<>>
             /\ Now.op = op
Remaining(ops) == [Top EXCEPT !.ops = ops \o Tail(@)]

Max(a, b) == IF a > b THEN a ELSE b

-----------------------------------------------------------------------------
(* Reading a member *)

(* move_tl_object_as casts and does not look.  What a member of the wrong  *)
(* class holds is nothing one can rely on.                                 *)
Miscast == Handlers[h].class # h

(* How many bytes there are to read. *)
Holds(p, n) ==
    IF p.from = Own THEN n
    ELSE IF Miscast THEN 0
    ELSE IF p.n \in {TextWidth, FilledWidth} THEN n
    ELSE Members[h][p.from]

(* The lengths a parameter may have.  The application fills no array of a  *)
(* request beyond its end.                                                 *)
Lens(p) ==
    IF p.n \in {TextWidth, FilledWidth} THEN Lengths
    ELSE IF p.n \in {ArrayWidth, SomeWidth}
         THEN IF Miscast THEN Lengths ELSE {n \in Lengths : n <= Members[h][p.from]}
         ELSE {p.n}

LeftOut(p, n) == p.n \in {FilledWidth, SomeWidth} /\ n = 0

-----------------------------------------------------------------------------
(* AddwTwLV(tag, member, len), with len cut to a word. *)
Add ==
    /\ Doing("add")
    /\ \E n \in Lens(Now) :
         /\ ~LeftOut(Now, n)
         /\ LET len == n % WordMax IN
            /\ stack' = Append(Below, [Remaining(<<>>) EXCEPT !.b = Seek(@, 4 + len)])
            /\ lost' = IF Fits(Top.b, 4 + len) /\ len = n THEN lost ELSE lost \cup {Now.tag}
         /\ wanted' = wanted + 4 + n
         /\ longest' = IF Now.n \in {TextWidth, FilledWidth} THEN Max(longest, n) ELSE longest
    /\ UNCHANGED << h, elements, sent >>

LeaveOut ==
    /\ Doing("add")
    /\ \E n \in Lens(Now) : LeftOut(Now, n)
    /\ stack' = Append(Below, Remaining(<<>>))
    /\ UNCHANGED << h, lost, seen, sent >>

(* The condition is on the value of a member, which may be anything. *)
May ==
    /\ Doing("may")
    /\ \E ops \in {<<>>, Now.ops} : stack' = Append(Below, Remaining(ops))
    /\ UNCHANGED << h, lost, seen, sent >>

(* ops, k times over. *)
Copies(ops, k) == [i \in 1 .. k * Len(ops) |-> ops[((i - 1) % Len(ops)) + 1]]

(* The loop over a vector. *)
Each ==
    /\ Doing("each")
    /\ \E k \in 0 .. MaxElements :
         /\ stack' = Append(Below, Remaining(Copies(Now.ops, k)))
         /\ elements' = Max(elements, k)
    /\ UNCHANGED << h, lost, wanted, longest, sent >>

(* Mutant: room is left for a header that is not written. *)
OpenNested_Wide ==
    /\ Doing("in")
    /\ stack' = Append(Append(Below, Remaining(<<>>)),
                       Frame(Init3(Null, GetPS(Top.b), EmptySize(Top.b), 8), Now.ops, Now.tag))
    /\ wanted' = wanted + 4
    /\ UNCHANGED << h, lost, longest, elements, sent >>

(* A builder of its own, four bytes on in what is left of the outer one. *)
OpenNested ==
    /\ Doing("in")
    /\ stack' = Append(Append(Below, Remaining(<<>>)),
                       Frame(Init3(Null, GetPS(Top.b), EmptySize(Top.b), 4), Now.ops, Now.tag))
    /\ wanted' = wanted + 4
    /\ UNCHANGED << h, lost, longest, elements, sent >>

(* AddWord(tag), AddWord(Len()), Seek(Len()) on the outer builder. *)
CloseNested ==
    /\ Len(stack) > 1 /\ Top.ops = <<>>
    /\ LET outer == stack[Len(stack) - 1]
           tagged == Seek(outer.b, 2)
           counted == Seek(tagged, 2)
           inner == Top.b.l
       IN  /\ stack' = [Below EXCEPT ![Len(Below)].b = Seek(counted, inner)]
           /\ lost' = IF Fits(outer.b, 2) /\ Fits(tagged, 2) /\ Fits(counted, inner)
                      THEN lost ELSE lost \cup {Top.tag}
    /\ UNCHANGED << h, seen, sent >>

(* bin_stream(msg, msg.Len()), whatever has become of the parameters. *)
Send ==
    /\ Len(stack) = 1 /\ Top.ops = <<>> /\ ~sent
    /\ sent' = TRUE
    /\ UNCHANGED << h, stack, lost, seen >>

BuildNext == Add \/ LeaveOut \/ May \/ Each \/ OpenNested \/ CloseNested \/ Send

BuildSpec == BuildInit /\ [][BuildNext]_bvars

-----------------------------------------------------------------------------
(* A parameter is missing or cut in a message that is sent only if all of  *)
(* them together are larger than the handler's array: neither the nested   *)
(* builders nor the order of the calls waste any room.                     *)
LostOnlyIfFull == lost # {} => wanted > Handlers[h].size

(* An Add reads nothing beyond the member it takes, and what it reads is   *)
(* the request: the width that is written beside each member, 120 times    *)
(* over, and the class of the cast are right; but for TestMsg_Cnf.         *)
ReadsMember ==
    Doing("add") /\ h # "TestMsg_Cnf" =>
        \A n \in Lens(Now) : n % WordMax <= Holds(Now, n)

=============================================================================
