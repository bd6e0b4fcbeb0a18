-------------------------- MODULE MCAnswerDecoder --------------------------
(* AnswerDecoder with the schemas of all handlers, against a reference     *)
(* that decodes by the list of parameters.                                 *)
EXTENDS DecoderReference, TLC

CONSTANTS
    FragmentMax,    \* PAPI_RxFileFragmetMaxSize
    Lengths,        \* lengths of the values that are tried
    MaxDamaged      \* bound: the longest message that is cut or changed

S == INSTANCE AnswerSchemas
O == INSTANCE ApiObjects WITH TxMax <- FragmentMax, RxMax <- FragmentMax

Handlers == S!RegistrarAnswers @@ S!ServiceAnswers @@ S!DialAnswers @@ S!MessageAnswers
            @@ S!BlackListAnswers @@ S!CSAnswers @@ S!ChatAnswers @@ S!FSAnswers
            @@ S!BillingAnswers

MCSchema == Handlers @@ S!Parts
MCKinds == DOMAIN MCSchema
MCRoots == DOMAIN Handlers

RECURSIVE MCDepthOf(_)

MCDepthOf(k) ==
    LET calls == {f.kind : f \in {g \in Fields(k) \cup Items(k) : g.how = "into"}}
    IN  IF calls = {} THEN 0
        ELSE 1 + CHOOSE n \in {MCDepthOf(c) : c \in calls} :
                    \A c \in calls : MCDepthOf(c) <= n

MCDepth == [k \in MCKinds |-> MCDepthOf(k)]

MCCareless == {"file_hash", "loop"}

(* A parameter, byte by byte.  A value of one byte is 0. *)
WordOf(n) == << n % Base, n \div Base >>
Param(t, v) == WordOf(t) \o WordOf(Len(v)) \o v
Filler(n) == [i \in 1 .. n |-> ((i - 1) + (n - 1)) % Base]

-----------------------------------------------------------------------------
(* The messages *)

TagsOf(k) == {Schema[k].fields[i].tag : i \in DOMAIN Schema[k].fields}
             \cup UNION {{Schema[k].fields[i].when[j].tag : j \in DOMAIN Schema[k].fields[i].when}
                         : i \in DOMAIN Schema[k].fields}
             \cup {Schema[k].items[i].tag : i \in DOMAIN Schema[k].items}
             \cup {Schema[k].max}

Params(k, lens) == {Param(t, Filler(n)) : t \in TagsOf(k), n \in lens}

Cut(m) == SubSeq(m, 1, Len(m) - 1)

(* Every parameter of the enumeration, each of n bytes. *)
All(k, n) == Joined(<<>>, [t \in 1 .. Schema[k].max |-> Param(t - 1, Filler(n))])

(* Up to two parameters that the handler knows, or one beyond its table,   *)
(* of which a single short one may have lost a byte; or all that there are,*)
(* so that a condition on several is met.                                  *)
FlatOf(k) ==
    LET one == Params(k, Lengths)
        two == {a \o b : a \in Params(k, {1}), b \in Params(k, {0, 8})}
    IN  {<<>>} \cup one \cup two
        \cup {Cut(m) : m \in {p \in one : Len(p) <= MaxDamaged}}
        \cup {All(k, n) : n \in {1, 2, 4, 8}}

RECURSIVE BodiesOf(_)

(* One parameter for a function, with whatever may be inside it; in a list *)
(* also with a second one behind it, for a table also all that there are.  *)
BodiesOf(k) ==
    LET rules == {Schema[k].fields[i] : i \in DOMAIN Schema[k].fields}
                 \cup {Schema[k].items[i] : i \in DOMAIN Schema[k].items}
        inner(t) == {f.kind : f \in {g \in rules : g.tag = t /\ g.how = "into"}}
        values(t) == IF inner(t) = {} THEN {Filler(1), Filler(8)}
                     ELSE {<<>>} \cup UNION {BodiesOf(j) : j \in inner(t)}
        one == UNION {{Param(t, v) : v \in values(t)} : t \in TagsOf(k)}
    IN  IF Schema[k].form = "table" THEN one \cup {All(k, n) : n \in {4, 8}}
        ELSE one \cup {m \o Param(0, Filler(1)) : m \in one}

(* A message that is cut short anywhere, or has one byte of the three       *)
(* outermost headers changed; a long one, with all the parameters of a     *)
(* table in it, is left as it is.                                          *)
Damaged(m) ==
    IF Len(m) > MaxDamaged THEN {m}
    ELSE {SubSeq(m, 1, n) : n \in 0 .. Len(m)}
         \cup {[m EXCEPT ![i] = (@ + 1) % Base] : i \in DOMAIN m \cap 1 .. 12}

Nested == {"OnRegister", "OnBL_Get_Rsp", "OnCS_GetContactsRsp_Rsp", "OnChatGetListRsp",
           "OnChatCreateRsp", "OnChatChangeInfoInd"}

NestedMessages(k) == IF k \in Nested THEN UNION {Damaged(m) : m \in BodiesOf(k)} ELSE {}

MCMessages == [k \in Roots |-> FlatOf(k) \cup NestedMessages(k)]

-----------------------------------------------------------------------------
(* The member that a field is called after; chat_private decides in        *)
(* OnChatCreateRsp which object is made and is not kept.                   *)
Member(to) == IF to = "hash" THEN "file_hash" ELSE to
Local(k) == IF k = "OnChatCreateRsp" THEN {"chat_private"} ELSE {}

(* A fragment of a file or of a test that is copied into the fixed array   *)
(* of an object fits in there.  The length beside it is its size, but for  *)
(* a file's fragment of half a word or more, where it turns negative.      *)
FragmentFits ==
    out[1] = "done" =>
        \A i, j \in DOMAIN out[3] :
            out[3][i].to \in {"bin", "data"} /\ out[3][j].to = "len" =>
                LET n == Len(out[3][i].v) IN
                /\ n <= FragmentMax
                /\ \/ out[3][j].v = << n >>
                   \/ out[3][i].to = "bin" /\ 2 * n >= WordMax /\ out[3][j].v = << n - WordMax >>

(* The table whose fields have all been looked at, before the handler      *)
(* returns; its object is complete then.                                   *)
Complete == stack # <<>> /\ Kind.form = "table" /\ Top.at > Len(Kind.fields)

(* The classes of the objects, by handler. *)
Makes == S!Makes
Objects == O!Objects

(* Whatever is taken out of a message goes to a member that the class of   *)
(* the object has, and fits in there: an integer has no more bytes than    *)
(* its member, an array holds what is copied into it, and the length       *)
(* beside it is the true one.                                              *)
MembersHold ==
    /\ FragmentFits
    /\ Complete /\ Top.kind \in DOMAIN Makes =>
           \A j \in DOMAIN Top.val :
               LET e == Top.val[j]
                   members == Objects[Makes[Top.kind]]
               IN  \/ e.to \in Local(Top.kind)
                   \/ /\ Member(e.to) \in DOMAIN members
                      /\ LET w == members[Member(e.to)]
                         IN  w \in {O!Text, O!List} \/ Len(e.v) <= w

(* The handlers that take their texts with DTP_PPARAMETERB. *)
Shortens == DOMAIN S!RegistrarAnswers \cup DOMAIN S!DialAnswers \cup DOMAIN S!MessageAnswers

(* A text that is in a message and has a member in the object is passed on *)
(* there whole.  Excepted are, in the handlers that cut a length to a byte,*)
(* texts of 256 characters and more, though never the text of a message; a *)
(* fragment too large for its array; and the number a message in a chat is *)
(* sent to, if it does not say where from.                                 *)
WholeTexts ==
    Complete /\ Top.kind \in DOMAIN Makes =>
        \A f \in Fields(Top.kind) :
            f.how \in {"text", "cut"} /\ f.tag \in DOMAIN Top.tab =>
                LET place == Top.tab[f.tag]
                    text == SubSeq(msg, place.pos + 1, place.pos + place.len)
                IN  \/ place.len = 0
                    \/ \E j \in DOMAIN Top.val : Top.val[j].to = f.to /\ Top.val[j].v = text
                    \/ Top.kind \in Shortens /\ f.to # "text" /\ place.len >= Base
                    \/ f.to \in {"bin", "data"} /\ place.len > FragmentMax
                    \/ Top.kind = "ChatMsg" /\ f.to = "dest_num"

(* Members that two parameters share: the handler's own answer to a        *)
(* fragment that is too large, the status that goes with a state,          *)
(* nums_viewer among nums_del, and an index that chat_id overwrites.       *)
Shared == ((DOMAIN S!FSAnswers) \X {"rsp"})
          \cup { <<"ChatMsg", "status">>, <<"ChatInfo", "nums_del">>,
                 <<"OnChatChangeInfoInd", "chat_id">> }

(* No parameter takes the place of another: a table fills a member once,   *)
(* over what it is preset to, but for the shared ones.                     *)
FilledOnce ==
    Complete =>
        \A a, b \in DOMAIN Top.val :
            a < b /\ Top.val[a].to = Top.val[b].to =>
                a \in DOMAIN Kind.pre \/ <<Top.kind, Top.val[a].to>> \in Shared

=============================================================================
