-------------------------- MODULE DecoderReference --------------------------
(***************************************************************************)
(* What an answer handler should make of a message: not by a walk that     *)
(* keeps positions in memory, but by the list of the parameters that the   *)
(* message holds (TlvItems), and of each that holds parameters in turn.    *)
(***************************************************************************)
EXTENDS AnswerDecoder, FiniteSets

CONSTANTS
    Depth       \* how deep the functions are nested below each

P == INSTANCE TlvItems

IsList(s) == s \in Seq({s[i] : i \in DOMAIN s})

(* The tags by which a field is taken. *)
TagsIn(f) == {f.tag} \cup {f.when[j].tag : j \in DOMAIN f.when}

(* The ways a rule can take a value. *)
Hows == {"int", "low", "flag", "text", "cut", "count", "size", "const", "into"}

(* No function calls itself, also not through others; and the table of one *)
(* has a place for each tag that it takes.                                 *)
ASSUME ReferenceAssumption ==
    /\ IsFiniteSet(Kinds)
    /\ \A k \in Kinds :
        /\ IsList(Schema[k].pre) /\ IsList(Schema[k].fields) /\ IsList(Schema[k].items)
        /\ Depth[k] \in 0 .. Cardinality(Kinds)
        /\ \A f \in Fields(k) \cup Items(k) :
              f.how \in Hows /\ (f.how = "into" => Depth[f.kind] < Depth[k])
        /\ \A f \in Fields(k) : \A t \in TagsIn(f) : t \in 0 .. Schema[k].max - 1

(* The first n bytes of v. *)
First(v, n) == [i \in 1 .. n |-> IF i <= Len(v) THEN v[i] ELSE Unknown]

(* What a rule makes of the value v. *)
Made(f, v) ==
    CASE f.how = "int"   -> First(v, f.n)
      [] f.how = "low"   -> First(v, 2)
      [] f.how = "flag"  -> << Truth(First(v, 1)[1]) >>
      [] f.how = "text"  -> v
      [] f.how = "cut"   -> SubSeq(v, 1, Len(v) % Base)
      [] f.how = "count" -> << Len(v) >>
      [] f.how = "size"  -> << IF Len(v) < WordMax \div 2 THEN Len(v) ELSE Len(v) - WordMax >>
      [] f.how = "const" -> << f.n >>

(* The value of the last parameter with tag t. *)
Last(items, t) ==
    LET at == {i \in DOMAIN items : items[i].tag = t}
    IN  IF at = {} THEN <<>> ELSE items[CHOOSE i \in at : \A j \in at : j <= i].val

Meets(items, g) ==
    LET v == Last(items, g.tag)
    IN  (g.yes = 1) = (Len(v) \in g.lens /\ (v # <<>> => v[1] \in g.bytes))

(* The rules for a parameter of a list. *)
RulesFor(k, p) ==
    {i \in DOMAIN Schema[k].items :
        Schema[k].items[i].tag = p.tag /\ Len(p.val) \in Schema[k].items[i].lens}

(* What function k makes of parameters, given what the others make of v. *)
Entry(D, f, v) ==
    << [to |-> f.to, v |-> IF f.how = "into" THEN D[f.kind][v] ELSE Made(f, v)] >>

FieldOf(D, items, f) ==
    IF \A j \in DOMAIN f.when : Meets(items, f.when[j])
    THEN Entry(D, f, Last(items, f.tag)) ELSE <<>>

ItemOf(D, k, p) ==
    IF RulesFor(k, p) = {} THEN <<>>
    ELSE Entry(D, Schema[k].items[CHOOSE i \in RulesFor(k, p) : TRUE], p.val)

Parts(D, k, items) ==
    IF Schema[k].form = "table"
    THEN [i \in DOMAIN Schema[k].fields |-> FieldOf(D, items, Schema[k].fields[i])]
    ELSE [i \in DOMAIN items |-> ItemOf(D, k, items[i])]

(* The first i parts, one behind the other, behind pre. *)
JoinedTo(pre, parts) ==
    LET upto[i \in 0 .. Len(parts)] == IF i = 0 THEN pre ELSE upto[i - 1] \o parts[i]
    IN  upto

Joined(pre, parts) == JoinedTo(pre, parts)[Len(parts)]

(* What function k makes of the bytes s. *)
Decode[k \in Kinds] ==
    [s \in Seq(Byte) |-> Joined(Schema[k].pre, Parts(Decode, k, P!Items(s)))]

-----------------------------------------------------------------------------
(* What a handler has made of a message is what the list of its parameters *)
(* says, down to every list inside it: the last parameter with a tag       *)
(* counts, an item counts each time, a parameter whose length is wrong is  *)
(* not there, and the first one that does not fit ends the list it is in.  *)
Decoded == out[1] = "done" => out[3] = Decode[out[2]][msg]

=============================================================================
