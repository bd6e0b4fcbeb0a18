-------------------------- MODULE MCRequestBuilder --------------------------
(* RequestBuilder with the handlers of ClientImpl.cpp and the classes of   *)
(* pl_api.h, and beside the handlers of answers.                           *)
EXTENDS RequestBuilder, TLC

CONSTANTS
    TxMax, RxMax,   \* sizes of the arrays in requests and objects
    ShortMax        \* a text up to this length is short

R == INSTANCE RequestSchemas
O == INSTANCE ApiObjects
A == INSTANCE AnswerSchemas WITH FragmentMax <- RxMax

MCHandlers == R!Requests

(* The operations of the handlers, to the depth at which they are nested. *)
Named(lists) == UNION {{l[i] : i \in DOMAIN l} : l \in lists}
Deeper(ops) == ops \cup Named({o.ops : o \in ops})
MCOperations == Deeper(Deeper(Deeper(Named({R!Requests[c].ops : c \in DOMAIN R!Requests}))))

MCMembers == O!Functions_
MCTextWidth == R!TextSize
MCFilledWidth == R!FilledSize
MCArrayWidth == R!ArraySize
MCSomeWidth == R!SomeSize

(* A request whose texts are all short and that has no more than two       *)
(* elements goes out whole: no handler's array is too small for everyday   *)
(* requests.                                                               *)
ShortIsWhole ==
    h # "TestMsg_Cnf" /\ longest <= ShortMax /\ elements <= 2 => lost = {}

-----------------------------------------------------------------------------
(* The handlers of the answers of a service, and the names of its tags. *)
Answers ==
    [registrar |-> A!RegistrarAnswers, service |-> A!ServiceAnswers, dial |-> A!DialAnswers,
     message |-> A!MessageAnswers, bl |-> A!BlackListAnswers, cs |-> A!CSAnswers,
     chats |-> A!ChatAnswers, fs |-> A!FSAnswers, billing |-> A!BillingAnswers]

Tags ==
    [registrar |-> A!PAPI_ParamReg, service |-> A!PAPI_ParamService, dial |-> A!PAPI_ParamDial,
     message |-> A!PAPI_ParamMsg, bl |-> A!PAPI_ParamBlackList, cs |-> A!PAPI_ParamCS,
     chats |-> A!PAPI_ParamChat, fs |-> A!PAPI_ParamFS, billing |-> A!PAPI_ParamBilling]

(* The lengths under which some answer takes an integer with this tag. *)
TakenAs(svc, tag) ==
    LET t == A!Tag(Tags[svc], tag)
    IN  UNION {{f.n : f \in {g \in {Answers[svc][k].fields[i] : i \in DOMAIN Answers[svc][k].fields} :
                              g.how = "int" /\ g.tag = t}} : k \in DOMAIN Answers[svc]}

(* What goes out as an integer under a tag has the width in which the      *)
(* answers of that service take it in: the two directions, in two thousand *)
(* lines each, speak of the same protocol.  A text is no integer, and the  *)
(* tags inside a parameter are other ones.                                 *)
SameWidthBothWays ==
    Doing("add") /\ Len(stack) = 1 /\ Now.n > 0 =>
        LET taken == TakenAs(Handlers[h].svc, Now.tag)
        IN  taken = {} \/ Now.n \in taken

(* What is written by hand in every handler is right, but for TestMsg_Cnf: *)
(* the size of its array, and the width beside each parameter, which agrees *)
(* with the class of the request it is read from and with what the other   *)
(* direction of the protocol takes under the same tag.                     *)
TablesAgree == ShortIsWhole /\ ReadsMember /\ SameWidthBothWays

=============================================================================
