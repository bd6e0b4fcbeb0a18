--------------------------- MODULE RequestSchemas ---------------------------
(***************************************************************************)
(* What the request handlers put into a message: the array it is built in, *)
(* the class the request is taken for, and the parameters in the order of  *)
(* the code.  The tables are by the command that OnRequest dispatches on;  *)
(* the three Gen functions are called by Procc and have no request.        *)
(*                                                                         *)
(* An operation is                                                         *)
(*   "add"   one parameter: n bytes, or a text, or so many bytes of an     *)
(*           array, of the member from (own: of the client);               *)
(*   "may"   operations under a condition on the value of a member;        *)
(*   "in"    operations on a builder of their own, for a parameter;        *)
(*   "each"  operations for each element of a vector.                      *)
(***************************************************************************)
EXTENDS Integers, Sequences, TLC

CONSTANT Own    \* the client's strings, elements of vectors, what a handler computes

Op(op, tag, from, n, ops) == [op |-> op, tag |-> tag, from |-> from, n |-> n, ops |-> ops]

TextSize == -1      \* as many bytes as the text has
FilledSize == -2    \* the same, but an empty text is left out
ArraySize == -3     \* as many bytes as the request says
SomeSize == -4      \* the same, but none is left out

Byte1(tag, from) == Op("add", tag, from, 1, <<>>)
Bytes2(tag, from) == Op("add", tag, from, 2, <<>>)
Bytes4(tag, from) == Op("add", tag, from, 4, <<>>)

(* Mutant: an index is sent in four bytes. *)
Bytes8_Half(tag, from) == Op("add", tag, from, 4, <<>>)

Bytes8(tag, from) == Op("add", tag, from, 8, <<>>)
Str(tag, from) == Op("add", tag, from, TextSize, <<>>)
StrIf(tag, from) == Op("add", tag, from, FilledSize, <<>>)
Made(tag, n) == Op("add", tag, Own, n, <<>>)
May(ops) == Op("may", "", Own, 0, ops)
In(tag, ops) == Op("in", tag, Own, 0, ops)
Each(from, ops) == Op("each", "", from, 0, ops)

(* A dword as text: AddHexDword makes eight digits. *)
Hash == Made("hash", 8)

Handler(svc, size, class, ops) == [svc |-> svc, size |-> size, class |-> class, ops |-> ops]

-----------------------------------------------------------------------------
(* Registration; a digest is 32 letters. *)

UserInfo == << StrIf("user_agent", Own), May(<< Made("user_type", 1) >>),
               May(<< Made("user_ver", 4) >>), May(<< Made("user_client", 1) >>) >>

Generated ==
    [GenRegister |-> Handler("registrar", 512, "GenRegister", << Str("num", Own) >>),
     GenRegisterNewReg |-> Handler("registrar", 4096, "GenRegisterNewReg",
         << Str("num", Own), Str("uid", Own), Str("dev_uid", Own),
            In("reg_info", << Str("code", Own) >> \o UserInfo) >>),
     GenRegisterAuth |-> Handler("registrar", 4096, "GenRegisterAuth",
         << Str("num", Own), May(<< Str("uid", Own) >>),
            In("reg_info",
               << Str("realm", Own), Str("nonce", Own), Str("opaque", Own),
                  Str("digestURI", Own), Made("algorithm", 3), Made("resp", 32) >>
               \o UserInfo) >>)]

-----------------------------------------------------------------------------
(* The handlers of OnRequest, by service *)

Num == Str("num", Own)
NumOwn == Str("num_own", Own)

RegistrarRequests ==
    LET R(size, class, ops) == Handler("registrar", size, class, << Num >> \o ops)
        ids == << Str("uid", Own), Str("dev_uid", Own) >>
    IN  [Logout_Req |-> R(65535, "Logout_Req", ids),
         LogoutAll_Req |-> R(65535, "LogoutAll_Req", ids),
         PushToken_Req |-> R(65535, "PushToken_Req",
             << StrIf("token", "token"), StrIf("token_voip", "token_voip") >>),
         GetSubsribersStatus_Req |-> R(65535, "GetSubsribersStatus_Req", <<>>),
         SetUserStatus_Req |-> R(65535, "SetUserStatus_Req", << Byte1("status", "status") >>),
         GetRouteDirection_Req |-> R(512, "GetRouteDirection_Req", <<>>),
         SetRouteDirection_Req |-> R(512, "SetRouteDirection_Req",
             << Byte1("direction", "direction") >>)]

(* OnRequest_TestMsgCnf takes its request for a TestMsg_Req. *)
ServiceRequests ==
    LET S(size, class, ops) == Handler("service", size, class, << Num >> \o ops)
        test == << Bytes4("id", "req_id"), Byte1("loop", "loop"),
                   Op("add", "data", "data", SomeSize, <<>>) >>
    IN  [Ping_Req |-> S(512, "Ping_Req", <<>>), Ping_Cnf |-> S(512, "Ping_Cnf", <<>>),
         TestMsg_Req |-> S(65535, "TestMsg_Req", test),
         TestMsg_Cnf |-> S(65535, "TestMsg_Req", test)]

DialRequests ==
    LET D(class, ops) == Handler("dial", 512, class, ops)
        nums == << Str("sour_num", "snum"), Str("dest_num", "dnum") >>
        call == Str("call_id", "call_id")
    IN  [Dial_Req |-> D("Dial_Req", nums \o << call, May(<< Byte1("channel", "channel") >>) >>),
         Dial_Cnf |-> D("Dial_Cnf", nums \o << Bytes2("rsp", "rsp"),
                                               StrIf("call_id", "call_id") >>),
         Cancel_Req |-> D("Cancel_Req", nums \o << call >>),
         PushClearCalls_Req |-> D("PushClearCalls_Req", <<>>),
         CallsBadge_Req |-> D("CallsBadge_Req", <<>>)]

MessageRequests ==
    LET M(size, class, ops) == Handler("message", size, class, << Num >> \o ops)
        nums == << Str("sour_num", "snum"), Str("dest_num", "dnum") >>
        private == Byte1("chat_private", "chat_private")
        chat == Bytes8("chat_id", "chat_id")
        ids == << chat, Bytes8("msg_index", "msg_index"), Bytes8("sm_id", "sm_id") >>
        status == Byte1("rep_status", "status")
        rsp == Bytes2("rsp", "rsp")
    IN  [Msg_Req |-> M(65535, "Msg_Req",
             << private, chat >> \o nums
             \o << May(<< Byte1("channel", "channel") >>),
                   May(<< Byte1("file_type", "file_type"), Bytes4("file_hash", "file_hash") >>),
                   May(<< Byte1("repeat", "repeat") >>), Str("text", "text") >>),
         Msg_Cnf |-> M(512, "Msg_Cnf", ids \o nums \o << rsp >>),
         Rep_Req |-> M(512, "Rep_Req", nums \o << private >> \o ids \o << status >>),
         Rep_Cnf |-> M(512, "Rep_Cnf", ids \o nums \o << status, rsp >>),
         DelMsg_Req |-> M(512, "DelMsg_Req", ids \o << Byte1("del_type", "type") >>),
         Typing_Req |-> M(512, "Typing_Req",
             << Str("dest_num", "dnum"), private, chat, Byte1("typing_type", "type") >>)]

BlackListSize == 256

BlackListRequests ==
    LET B(class, ops) == Handler("bl", BlackListSize, class, << Num >> \o ops)
        block == << Str("block_num", "block_user") >>
    IN  [BL_Add_Req |-> B("BL_Add_Req", block), BL_Del_Req |-> B("BL_Del_Req", block),
         BL_Get_Req |-> B("BL_Get_Req", <<>>)]

CSRequests ==
    LET C(size, class, ops) == Handler("cs", size, class, << NumOwn >> \o ops)
        Contacts(ops) == << In("contacts", << Each("contacts", << In("contact", ops) >>) >>) >>
        index == << Bytes8("hindex", "index") >>
    IN  [CS_PutMe_Req |-> C(512, "CS_PutMe_Req",
             << Str("name", "name"), Str("avatar", "avatar"), Str("lang", "lang"),
                May(<< Byte1("pinboot", "pinbot") >>) >>),
         CS_GetMe_Req |-> C(512, "CS_GetMe_Req", <<>>),
         CS_PutContacts_Req |-> C(65535, "CS_PutContacts_Req",
             Contacts(<< Str("num", Own), StrIf("name", Own), StrIf("fname", Own),
                         StrIf("lname", Own) >>)),
         CS_DelContacts_Req |-> C(512, "CS_DelContacts_Req", Contacts(<< Str("num", Own) >>)),
         CS_GetProfiles_Req |-> C(512, "CS_GetProfiles_Req", index),
         CS_GetContactsHistory_Req |-> C(512, "CS_GetContactsHistory_Req", index),
         CS_GetContacts_Req |-> C(512, "CS_GetContacts_Req", <<>>)]

Nums == In("nums", << Each("numbers", << Str("num", Own) >>) >>)

ChatRequests ==
    LET C(size, class, ops) == Handler("chats", size, class, << NumOwn >> \o ops)
        index == << May(<< Bytes8("index", "index") >>) >>
        chat == Bytes8("chat_id", "chat_id")
        private == Made("chat_private", 1)
    IN  [Chat_CheckList_Req |-> C(512, "Chat_CheckList_Req", index),
         Chat_GetList_Req |-> C(512, "Chat_GetList_Req", index),
         Chat_GetInfo_Req |-> C(512, "Chat_GetInfo_Req", << chat >>),
         Chat_CreatePrivate_Req |-> C(512, "Chat_CreatePrivate_Req",
             << In("nums", << Str("num", "number") >>), private >>),
         Chat_CreateGroup_Req |-> C(65535, "Chat_CreateGroup_Req",
             << Str("chat_name", "name"), Nums, private >>),
         Chat_Delete_Req |-> C(512, "Chat_Delete_Req", << chat >>),
         Chat_AddNum_Req |-> C(512, "Chat_AddNum_Req", << chat, Nums >>),
         Chat_DelNum_Req |-> C(512, "Chat_DelNum_Req", << chat, Nums >>)]

ChatMsgsRequests ==
    LET C(class, ops) == Handler("chats", 512, class, << NumOwn >> \o ops)
        chat == Bytes8("chat_id", "chat_id")
        which == << chat, Bytes8("msg_index", "msg_index"),
                    May(<< Bytes8("stop_msg_index", "msg_index_stop") >>),
                    Bytes4("msg_count", "count"), Byte1("dir", "dir") >>
        full == << Byte1("full_msg", "full_msg") >>
        dates == << StrIf("dt_start", "dt_start"), StrIf("dt_stop", "dt_stop") >>
    IN  [Chat_SetName_Req |-> C("Chat_SetName_Req", << chat, Str("chat_name", "name") >>),
         Chat_SetAvatar_Req |-> C("Chat_SetAvatar_Req", << chat, Str("chat_avatar", "avatar") >>),
         Chat_GetMsgs_Req |-> C("Chat_GetMsgs_Req", which),
         Chat_GetMsgsDel_Req |-> C("Chat_GetMsgsDel_Req", which \o dates),
         Chat_GetMsgsRepFinal_Req |-> C("Chat_GetMsgsRepFinal_Req", which \o full \o dates),
         Chat_GetMsgsRepRead_Req |-> C("Chat_GetMsgsRepRead_Req", which \o full \o dates),
         Chat_NotRead_Req |-> C("Chat_NotRead_Req", << May(<< chat >>) >>),
         Chat_ReadAll_Req |-> C("Chat_ReadAll_Req",
             << chat, May(<< Bytes8("msg_index", "msg_index") >>) >>)]

(* Of an avatar it is the number asked for, and of none the client's. *)
FSRequests ==
    LET F(class, ops) == Handler("fs", 65535, class, << Num, Str("uid", Own) >> \o ops)
        chat == << Bytes8("chat_id", "chat_id") >>
        sm == << Bytes8("sm_id", "sm_id") >>
        Put(ops) == << Bytes8("file_size_full", "full_size"), Bytes8("offset", "offset"),
                       Str("file_ext", "file_ext") >> \o ops
                    \o << Hash, Op("add", "fragment", "bin", ArraySize, <<>>) >>
        Get(ops) == << Bytes8("offset", "offset"), May(<< Bytes8("frag_len", "len") >>) >> \o ops
                    \o << Hash, May(<< Made("is_thumbnail", 1) >>) >>
    IN  [FS_PutAvatar_Req |-> F("FS_PutAvatar_Req", Put(<<>>)),
         FS_GetAvatar_Req |-> F("FS_GetAvatar_Req", Get(<<>>)),
         FS_PutChatAvatar_Req |-> F("FS_PutChatAvatar_Req", Put(chat)),
         FS_GetChatAvatar_Req |-> F("FS_GetChatAvatar_Req", Get(chat)),
         FS_PutMsgFile_Req |-> F("FS_PutMsgFile_Req", Put(sm)),
         FS_GetMsgFile_Req |-> F("FS_GetMsgFile_Req", Get(sm))]

BillingRequests ==
    [Billing_Balance_Req |-> Handler("billing", 65535, "Billing_Balance_Req", << Num >>)]

Requests == Generated @@ RegistrarRequests @@ ServiceRequests @@ DialRequests
            @@ MessageRequests @@ BlackListRequests @@ CSRequests @@ ChatRequests
            @@ ChatMsgsRequests @@ FSRequests @@ BillingRequests

=============================================================================
