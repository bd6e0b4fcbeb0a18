--------------------------- MODULE AnswerDecoder ---------------------------
(***************************************************************************)
(* How a handler of BinStream turns the bytes of a message into the object *)
(* it gives to the application.  Two shapes of code do all of it:          *)
(*   table  tDTablePointer::Parse walks over the parameters and notes for  *)
(*          each tag where its value lies; then the handler takes the      *)
(*          fields it knows, each under its own condition on the length;   *)
(*   list   a loop of the same walk that acts on every parameter it meets. *)
(* A field or an item may itself hold parameters, which a function of one  *)
(* of these shapes decodes inside its bounds; so there is a stack.         *)
(*                                                                         *)
(* Which fields a handler takes is a parameter: Schema[k] for the function *)
(* k (see AnswerSchemas).  A message starts after PAPI_STREAM_HEADER.      *)
(***************************************************************************)
EXTENDS Integers, Sequences

CONSTANTS
    Base,       \* how many values a byte has: 256
    Kinds,      \* the functions that decode
    Roots,      \* those BinStream calls
    Schema,     \* what each of them takes
    Messages,   \* the messages that may come to each of these
    Careless    \* fields whose condition does not cover what is read

Byte == 0 .. Base - 1
WordMax == Base * Base

(* The rules of a function: its fields and its items.  A rule says by what *)
(* tag it takes a value, how (an integer of n bytes, a text, a size, ...), *)
(* or into which function the value goes, and to which member.  A field    *)
(* has conditions: the lengths, and sometimes the first byte, that some    *)
(* parameter must (yes = 1) or must not have.  An item has its lengths.    *)
Fields(k) == {Schema[k].fields[i] : i \in DOMAIN Schema[k].fields}
Items(k) == {Schema[k].items[i] : i \in DOMAIN Schema[k].items}

ASSUME DecoderAssumption ==
    /\ Base \in Nat \ {0}
    /\ Roots \subseteq Kinds
    /\ \A k \in Roots : \A m \in Messages[k] : m \in Seq(Byte)
    /\ \A k \in Kinds : /\ Schema[k].max \in Nat
                        /\ \A f \in Fields(k) \cup Items(k) :
                              f.n \in Nat /\ (f.how = "into" => f.kind \in Kinds)

(* A field that is read as an integer, of f.n bytes. *)
IsRead(f) == f.how \in {"int", "low", "flag"}

(* A condition that keeps the read of a field inside its parameter. *)
Covers(f, g) == g.tag = f.tag /\ g.yes = 1 /\ \A l \in g.lens : l >= f.n

(* Every integer is read under such a condition, but for the careless ones. *)
ASSUME SchemaAssumption ==
    \A k \in Kinds :
        /\ \A f \in Fields(k) : IsRead(f) /\ f.to \notin Careless
                                => \E j \in DOMAIN f.when : Covers(f, f.when[j])
        /\ \A f \in Items(k) : IsRead(f) => \A l \in f.lens : l >= f.n

VARIABLES
    msg,    \* the message
    stack,  \* the functions at work, the innermost last
    out,    \* the object, once it is complete
    read    \* the last integer read: where, how many bytes, of how many

vars == <<msg, stack, out, read>>

(* A function at work: kind, and the name under which its caller keeps the *)
(* result; it has [pos, end) still to walk; tab is the table; at is the    *)
(* next field (0 during the walk); val is what it has made so far.         *)
Frame(k, to, pos, end) ==
    [kind |-> k, to |-> to, pos |-> pos, end |-> end,
     tab |-> [t \in {} |-> <<>>], at |-> 0, val |-> Schema[k].pre]

NoRead == [to |-> "", pos |-> 0, n |-> 0, len |-> 0]

Init ==
    /\ \E k \in Roots : /\ msg \in Messages[k]
                        /\ stack = << Frame(k, "answer", 0, Len(msg)) >>
    /\ out = << "pending" >>
    /\ read = NoRead

Top == stack[Len(stack)]
Kind == Schema[Top.kind]

SetTop(f) == stack' = [stack EXCEPT ![Len(stack)] = f]

(* The innermost function returns. *)
Return ==
    IF Len(stack) = 1
    THEN stack' = <<>> /\ out' = << "done", Top.kind, Top.val >>
    ELSE /\ stack' = [SubSeq(stack, 1, Len(stack) - 1) EXCEPT
                        ![Len(stack) - 1].val =
                            Append(@, [to |-> Top.to, v |-> Top.val])]
         /\ UNCHANGED out

-----------------------------------------------------------------------------
(* The walk, the same in Parse and in every list function *)

WordAt(i) == msg[i + 1] + Base * msg[i + 2]

pn == WordAt(Top.pos)
pl == WordAt(Top.pos + 2)

(* Mutant: the bytes of the tag and the length are counted as value. *)
Fits_NoHeader == Top.end - Top.pos >= 4 /\ Top.end - Top.pos >= pl

(* Four bytes for the tag and the length, then the value in what is left. *)
Fits == Top.end - Top.pos >= 4 /\ Top.end - (Top.pos + 4) >= pl

Walking(form) == stack # <<>> /\ Top.at = 0 /\ Kind.form = form

(* The table with the place of one more value, or a new place. *)
Noted(tab, t, p, l) ==
    [u \in DOMAIN tab \cup {t} |-> IF u = t THEN [pos |-> p, len |-> l] ELSE tab[u]]

(* Parse notes the parameter if the table has a place for its tag. *)
ParseItem ==
    /\ Walking("table") /\ Fits
    /\ SetTop([Top EXCEPT
           !.pos = @ + 4 + pl,
           !.tab = IF pn < Kind.max
                   THEN Noted(@, pn, Top.pos + 4, pl) ELSE @])
    /\ UNCHANGED <<msg, out, read>>

ParseEnd ==
    /\ Walking("table") /\ ~Fits
    /\ SetTop([Top EXCEPT !.at = 1])
    /\ UNCHANGED <<msg, out, read>>

-----------------------------------------------------------------------------
(* Taking a value *)

(* A byte that lies behind the value: it can be anything. *)
Unknown == -1

(* The first n of the len bytes at pos. *)
Bytes(pos, len, n) ==
    [i \in 1 .. n |-> IF i <= len THEN msg[pos + i] ELSE Unknown]

Truth(b) == IF b = Unknown THEN Unknown ELSE IF b = 0 THEN 0 ELSE 1

(* What a field makes of the len bytes at pos. *)
Value(f, pos, len) ==
    CASE f.how = "int"   -> Bytes(pos, len, f.n)
      [] f.how = "low"   -> Bytes(pos, len, 2)
      [] f.how = "flag"  -> << Truth(Bytes(pos, len, 1)[1]) >>
      [] f.how = "text"  -> Bytes(pos, len, len)
      [] f.how = "cut"   -> Bytes(pos, len, len % Base)
      [] f.how = "count" -> << len >>
      [] f.how = "size"  -> << IF len < WordMax \div 2 THEN len ELSE len - WordMax >>
      [] f.how = "const" -> << f.n >>

(* How many bytes the program really reads for it, of an integer. *)
Width(f) == IF IsRead(f) THEN f.n ELSE 0

Keep(f, pos, len) == [Top EXCEPT !.val = Append(@, [to |-> f.to, v |-> Value(f, pos, len)])]

Reads(f, pos, len) ==
    read' = IF Width(f) > 0
            THEN [to |-> f.to, pos |-> pos, n |-> Width(f), len |-> len] ELSE read

-----------------------------------------------------------------------------
(* The items of a list *)

Matching == {i \in DOMAIN Kind.items : Kind.items[i].tag = pn /\ pl \in Kind.items[i].lens}
Item == Kind.items[CHOOSE i \in Matching : TRUE]

(* Mutant: the walk moves over the value only. *)
Beyond_NoHeader(f) == [f EXCEPT !.pos = @ + pl]

Beyond(f) == [f EXCEPT !.pos = @ + 4 + pl]

SkipItem ==
    /\ Walking("list") /\ Fits /\ Matching = {}
    /\ SetTop(Beyond(Top))
    /\ UNCHANGED <<msg, out, read>>

KeepItem ==
    /\ Walking("list") /\ Fits /\ Matching # {} /\ Item.how # "into"
    /\ SetTop(Beyond(Keep(Item, Top.pos + 4, pl)))
    /\ Reads(Item, Top.pos + 4, pl)
    /\ UNCHANGED <<msg, out>>

(* Mutant: the inner function is given the rest of the message. *)
EnterItem_Rest ==
    /\ Walking("list") /\ Fits /\ Matching # {} /\ Item.how = "into"
    /\ stack' = Append([stack EXCEPT ![Len(stack)] = Beyond(Top)],
                       Frame(Item.kind, Item.to, Top.pos + 4, Len(msg)))
    /\ UNCHANGED <<msg, out, read>>

EnterItem ==
    /\ Walking("list") /\ Fits /\ Matching # {} /\ Item.how = "into"
    /\ stack' = Append([stack EXCEPT ![Len(stack)] = Beyond(Top)],
                       Frame(Item.kind, Item.to, Top.pos + 4, Top.pos + 4 + pl))
    /\ UNCHANGED <<msg, out, read>>

ListEnd ==
    /\ Walking("list") /\ ~Fits
    /\ Return
    /\ UNCHANGED <<msg, read>>

-----------------------------------------------------------------------------
(* The fields of a table *)

Given(t) == t \in DOMAIN Top.tab
LenOf(t) == IF Given(t) THEN Top.tab[t].len ELSE 0

(* A null pointer of the table is given on as the empty value at 0. *)
PosOf(t) == IF Given(t) THEN Top.tab[t].pos ELSE 0

(* Mutant: the length is not looked at. *)
Holds_AnyLength(g) == LenOf(g.tag) > 0 => msg[PosOf(g.tag) + 1] \in g.bytes

Holds(g) ==
    (g.yes = 1) = /\ LenOf(g.tag) \in g.lens
                  /\ LenOf(g.tag) > 0 => msg[PosOf(g.tag) + 1] \in g.bytes

FieldNow == Kind.fields[Top.at]

Taking == stack # <<>> /\ Top.at \in DOMAIN Kind.fields

Wanted == \A i \in DOMAIN FieldNow.when : Holds(FieldNow.when[i])

OneOn(f) == [f EXCEPT !.at = @ + 1]

SkipField ==
    /\ Taking /\ ~Wanted
    /\ SetTop(OneOn(Top))
    /\ UNCHANGED <<msg, out, read>>

(* An integer is read through the pointer of its tag ... *)
TakeField ==
    /\ Taking /\ Wanted /\ FieldNow.how # "into"
    /\ Width(FieldNow) > 0 => Given(FieldNow.tag)
    /\ SetTop(OneOn(Keep(FieldNow, PosOf(FieldNow.tag), LenOf(FieldNow.tag))))
    /\ Reads(FieldNow, PosOf(FieldNow.tag), LenOf(FieldNow.tag))
    /\ UNCHANGED <<msg, out>>

(* ... and that pointer may be null. *)
ReadNull ==
    /\ Taking /\ Wanted /\ Width(FieldNow) > 0 /\ ~Given(FieldNow.tag)
    /\ stack' = <<>> /\ out' = << "crashed", FieldNow.to >>
    /\ UNCHANGED <<msg, read>>

EnterField ==
    /\ Taking /\ Wanted /\ FieldNow.how = "into"
    /\ stack' = Append([stack EXCEPT ![Len(stack)] = OneOn(Top)],
                       Frame(FieldNow.kind, FieldNow.to, PosOf(FieldNow.tag),
                             PosOf(FieldNow.tag) + LenOf(FieldNow.tag)))
    /\ UNCHANGED <<msg, out, read>>

FieldsEnd ==
    /\ stack # <<>> /\ Kind.form = "table" /\ Top.at > Len(Kind.fields)
    /\ Return
    /\ UNCHANGED <<msg, read>>

-----------------------------------------------------------------------------
Next ==
    \/ ParseItem \/ ParseEnd
    \/ SkipItem \/ KeepItem \/ EnterItem \/ ListEnd
    \/ SkipField \/ TakeField \/ ReadNull \/ EnterField \/ FieldsEnd

(* The handler runs to its end. *)
Spec == Init /\ [][Next]_vars /\ WF_vars(Next)

-----------------------------------------------------------------------------
(* Type invariant; a table has no place but those of its array. *)
TypeOK ==
    /\ msg \in Seq(Byte)
    /\ \A i \in DOMAIN stack :
          LET f == stack[i]
          IN  /\ f.kind \in Kinds
              /\ f.pos \in Nat /\ f.end \in Nat /\ f.at \in Nat
              /\ DOMAIN f.tab \subseteq 0 .. Schema[f.kind].max - 1
              /\ \A t \in DOMAIN f.tab : f.tab[t].pos \in Nat /\ f.tab[t].len \in Nat
    /\ read.pos \in Nat /\ read.n \in Nat /\ read.len \in Nat

(* Every function walks inside the bytes it was given, those lie inside    *)
(* the caller's, and what a table points to lies inside the function's: no *)
(* length in a message, however wrong, leads the walk out of the message.  *)
Inside ==
    /\ \A i \in DOMAIN stack :
          /\ stack[i].pos <= stack[i].end /\ stack[i].end <= Len(msg)
          /\ \A t \in DOMAIN stack[i].tab :
                 stack[i].tab[t].pos + stack[i].tab[t].len <= stack[i].end
    /\ \A i \in 1 .. Len(stack) - 1 : stack[i + 1].end <= stack[i].end

(* A pointer that the table has left null is followed for a careless field *)
(* only: for the others the condition on the length says that it is set.   *)
NullOnlyCareless == out[1] = "crashed" => out[2] \in Careless

(* So is an integer read beyond its parameter. *)
ReadFits == read.to \in Careless \/ read.n <= read.len

(* No integer is read beyond its parameter, or through a null pointer, but *)
(* for the careless fields: file_hash of a chat's message, read as four    *)
(* bytes when there is one, and loop, which is read from another parameter *)
(* than the one tested.                                                    *)
ReadsInside == NullOnlyCareless /\ ReadFits

(* The handler comes to an end, whatever the message holds. *)
Terminates == <>(stack = <<>>)

=============================================================================
