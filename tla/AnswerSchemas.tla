--------------------------- MODULE AnswerSchemas ---------------------------
(***************************************************************************)
(* What the handlers of BinStream take out of a message: for every one of  *)
(* them the fields, in the order of the code, each with the parameter it   *)
(* comes from, the condition it is taken under and the member it goes to.  *)
(* The tags are the places of the names in the enumerations of papi.h.     *)
(***************************************************************************)
EXTENDS Naturals, Sequences

CONSTANTS
    Base,           \* how many values a byte has: 256
    FragmentMax     \* PAPI_RxFileFragmetMaxSize, PAPI_TestFragmetMaxSize: 60000

Any == 0 .. Base * Base - 1
Some == 1 .. Base * Base - 1

-----------------------------------------------------------------------------
(* The enumerations *)

PAPI_ParamReg == <<"rsp", "num", "uid", "dev_uid", "reg_info", "token", "token_voip", "status",
    "status_date_time", "user_status", "user_status_date_time", "direction", "error_code", "tid">>
PAPI_ParamRegInfo == <<"code", "nonce", "opaque", "realm", "digestURI", "algorithm", "resp",
    "user_agent", "user_type", "user_ver", "user_ver2", "user_ver3", "user_ver4", "user_client",
    "need_uid">>
PAPI_ParamService == <<"rsp", "num", "id", "command", "result", "loop", "data", "tid">>
PAPI_ParamDial == <<"rsp", "num", "sour_num", "dest_num", "voice_server", "channel", "call_id",
    "badge", "tid">>
PAPI_ParamMsg == <<"rsp", "num", "sour_num", "dest_num", "chat_private", "chat_id", "sm_id",
    "msg_index", "text", "rep_status", "submit_date_time", "date_time", "file_type", "file_hash",
    "channel", "del_type", "typing_type", "repeat", "tid">>
PAPI_ParamBlackList == <<"module_name", "rsp", "num", "block_num", "sm_id", "list", "tid">>
PAPI_BlackListParamList == <<"count", "num">>
PAPI_ParamCS == <<"rsp", "num_own", "name", "avatar", "hindex", "contacts", "lang", "pinboot",
    "tid">>
PAPI_ParamCS_Contacts == <<"count", "last", "contact">>
PAPI_ParamCS_Contact == <<"num", "name", "fname", "lname", "avatar", "messenger", "hindex", "rnum">>
PAPI_ParamChat == <<"reserv", "rsp", "index", "chat_id", "chat_name", "chat_avatar", "chat_private",
    "num_own", "nums", "lists", "msg_index", "msg", "msgs", "rep", "reps", "msg_count", "dir",
    "get_chat_info", "all_unread", "chat_unread", "sour_num", "dest_num", "sm_id",
    "start_msg_index", "change_type", "module_type", "msg_type", "file_type", "file_hash",
    "del_chat", "stop_msg_index", "rep_list", "num_state", "full_msg", "dt_start", "dt_stop",
    "server_time", "tid">>
PAPI_ParamLists == <<"list">>
PAPI_ParamList == <<"chat_info">>
PAPI_ParamChatInfo == <<"del", "chat_private", "chat_id", "name", "avatar", "nums",
    "msg_index_last", "msgs", "hindex", "unread", "start_msg_index", "num_state", "nums_del",
    "nums_viewer", "msgs_del", "repd", "repv", "msgs_cnt">>
PAPI_ParamChatNums == <<"num">>
PAPI_ParamChatMsgs == <<"msg">>
PAPI_ParamChatMsg == <<"state", "msg_index", "sm_id", "sour_addr", "dest_addr", "submit_dt",
    "text", "type", "status", "file_type", "file_hash", "chat_id", "service", "done_dt", "view_dt",
    "submit_dt_ex", "del_dt">>
PAPI_ParamFS == <<"module_name", "rsp", "sm_id", "chat_id", "hash", "is_thumbnail", "num",
    "dest_num", "new_sm_id", "uid", "file_size_full", "offset", "post_size", "fragment",
    "file_ext", "frag_len", "tid">>
PAPI_ParamBilling == <<"reserv", "rsp", "num", "balance", "tid">>

Tag(e, name) == CHOOSE t \in 0 .. Len(e) - 1 : e[t + 1] = name

-----------------------------------------------------------------------------
(* The forms in which fields are taken *)

If(t, lens) == [tag |-> t, lens |-> lens, bytes |-> 0 .. Base - 1, yes |-> 1]
IfByte(t, bytes) == [tag |-> t, lens |-> Some, bytes |-> bytes, yes |-> 1]
Unless(t, bytes) == [tag |-> t, lens |-> Some, bytes |-> bytes, yes |-> 0]

Take(when, t, how, n, kind, to) ==
    [when |-> when, tag |-> t, how |-> how, n |-> n, kind |-> kind, to |-> to]

(* An integer of n bytes, if the length is n. *)
Int(t, n, to) == Take(<< If(t, {n}) >>, t, "int", n, "none", to)
(* The first byte, or whether it is 0, if there is one. *)
Octet(t, to) == Take(<< If(t, Some) >>, t, "int", 1, "none", to)
Flag(t, to) == Take(<< If(t, Some) >>, t, "flag", 1, "none", to)
(* assign with DTP_PPARAMETER, and with DTP_PPARAMETERB, which cuts the    *)
(* length to a byte.                                                       *)
(* Mutant: the macro beside it. *)
Text_Byte(t, to) == Take(<<>>, t, "cut", 0, "none", to)

Text(t, to) == Take(<<>>, t, "text", 0, "none", to)
TextIf(t, to) == Take(<< If(t, Some) >>, t, "text", 0, "none", to)
Cut(t, to) == Take(<<>>, t, "cut", 0, "none", to)
(* A parameter that holds parameters, if it is not empty. *)
Into(t, kind, to) == Take(<< If(t, Some) >>, t, "into", 0, kind, to)
Const(when, n, to) == Take(when, 0, "const", n, "none", to)

Table(e, pre, fields) ==
    [form |-> "table", max |-> Len(e), pre |-> pre, fields |-> fields, items |-> <<>>]

Item(t, lens, how, kind, to) ==
    [tag |-> t, lens |-> lens, how |-> how, n |-> 1, kind |-> kind, to |-> to]

List(items) ==
    [form |-> "list", max |-> 0, pre |-> <<>>, fields |-> <<>>, items |-> items]

(* A fragment is taken if it fits into the array of the object. *)
UpTo(t) == << If(t, 1 .. FragmentMax) >>

(* The response starts as 1 in some handlers; else as its member's default. *)
RspIsOne == << [to |-> "rsp", v |-> <<1>>] >>

-----------------------------------------------------------------------------
(* What is inside a parameter *)

RegInfo == LET T(n) == Tag(PAPI_ParamRegInfo, n) IN
    List(<< Item(T("realm"), Any, "text", "none", "realm"),
            Item(T("nonce"), Any, "text", "none", "nonce"),
            Item(T("opaque"), Any, "text", "none", "opaque"),
            Item(T("need_uid"), Some, "flag", "none", "need_uid") >>)

BlackList == List(<< Item(Tag(PAPI_BlackListParamList, "num"), Any, "text", "none", "num") >>)

Contacts == LET T(n) == Tag(PAPI_ParamCS_Contacts, n) IN
    List(<< Item(T("contact"), Any, "into", "Contact", "contact"),
            Item(T("last"), Some, "flag", "none", "last") >>)

(* Mutant: a line is copied and its member stays. *)
Contact_Copied == LET T(n) == Tag(PAPI_ParamCS_Contact, n) IN
    Table(PAPI_ParamCS_Contact, <<>>,
       << Text(T("num"), "num"), Text(T("rnum"), "num"), Text(T("name"), "name"),
          Text(T("fname"), "fname"), Text(T("lname"), "lname"), Text(T("avatar"), "avatar"),
          Flag(T("messenger"), "messenger"), Int(T("hindex"), 8, "hindex") >>)

Contact == LET T(n) == Tag(PAPI_ParamCS_Contact, n) IN
    Table(PAPI_ParamCS_Contact, <<>>,
       << Text(T("num"), "num"), Text(T("rnum"), "rnum"), Text(T("name"), "name"),
          Text(T("fname"), "fname"), Text(T("lname"), "lname"), Text(T("avatar"), "avatar"),
          Flag(T("messenger"), "messenger"), Int(T("hindex"), 8, "hindex") >>)

Lists == List(<< Item(Tag(PAPI_ParamLists, "list"), Any, "into", "ListItem", "list") >>)

ListItem == Table(PAPI_ParamList, <<>>,
               << Into(Tag(PAPI_ParamList, "chat_info"), "ChatInfo", "chat") >>)

(* The empty numbers are left out here, and kept when a chat is created. *)
ListNums == List(<< Item(Tag(PAPI_ParamChatNums, "num"), Some, "text", "none", "num") >>)
CreateNums == List(<< Item(Tag(PAPI_ParamChatNums, "num"), Any, "text", "none", "num") >>)

Msgs == List(<< Item(Tag(PAPI_ParamChatMsgs, "msg"), Some, "into", "ChatMsg", "msg") >>)

(* The condition of file_hash is that there is any of it, and of dest_num  *)
(* that there is a source.  A state that is not 0, as it is not when none  *)
(* came, makes a status of 0 a 1.                                          *)
ChatMsg == LET T(n) == Tag(PAPI_ParamChatMsg, n) IN
    Table(PAPI_ParamChatMsg, <<>>,
       << Int(T("msg_index"), 8, "msg_index"), Int(T("sm_id"), 8, "sm_id"),
          Octet(T("state"), "state"), Octet(T("type"), "type"), Octet(T("status"), "status"),
          Octet(T("service"), "service"), Octet(T("file_type"), "file_type"),
          Take(<< If(T("file_hash"), Some) >>, T("file_hash"), "int", 4, "none", "file_hash"),
          TextIf(T("sour_addr"), "sour_num"),
          Take(<< If(T("sour_addr"), Some) >>, T("dest_addr"), "text", 0, "none", "dest_num"),
          TextIf(T("submit_dt"), "submit_date_time"), TextIf(T("done_dt"), "done_date_time"),
          TextIf(T("view_dt"), "view_date_time"), TextIf(T("text"), "text"),
          Const(<< Unless(T("state"), {0}), Unless(T("status"), 1 .. Base - 1) >>, 1, "status") >>)

(* nums_viewer goes to the same list as nums_del. *)
ChatInfo == LET T(n) == Tag(PAPI_ParamChatInfo, n) IN
    Table(PAPI_ParamChatInfo, <<>>,
       << Int(T("hindex"), 8, "hindex"), Flag(T("del"), "del"), Octet(T("num_state"), "state"),
          Text(T("name"), "name"), Text(T("avatar"), "avatar"),
          Octet(T("chat_private"), "chat_private"), Int(T("chat_id"), 8, "chat_id"),
          Int(T("msg_index_last"), 8, "msg_index_last"),
          Int(T("start_msg_index"), 8, "start_msg_index"), Int(T("unread"), 4, "not_viewed"),
          Int(T("msgs_cnt"), 8, "msgs_count"), Int(T("msgs_del"), 8, "msgs_del"),
          Int(T("repd"), 8, "msgs_rep_final"), Int(T("repv"), 8, "msgs_rep_read"),
          Into(T("nums"), "ListNums", "nums"), Into(T("nums_del"), "ListNums", "nums_del"),
          Into(T("nums_viewer"), "ListNums", "nums_del"), Into(T("msgs"), "Msgs", "msgs") >>)

Parts == [RegInfo |-> RegInfo, BlackList |-> BlackList, Contacts |-> Contacts,
          Contact |-> Contact, Lists |-> Lists, ListItem |-> ListItem, ListNums |-> ListNums,
          CreateNums |-> CreateNums, Msgs |-> Msgs, ChatMsg |-> ChatMsg, ChatInfo |-> ChatInfo]

-----------------------------------------------------------------------------
(* The handlers, by service *)

RegistrarAnswers ==
    LET T(n) == Tag(PAPI_ParamReg, n)
        rsp == Int(T("rsp"), 2, "rsp")
        R(fields) == Table(PAPI_ParamReg, <<>>, fields)
        registered == << rsp, Flag(T("error_code"), "error_code") >>
        informed == Append(registered, Into(T("reg_info"), "RegInfo", "data"))
    IN  [OnRegister |-> R(informed), OnRegisterAuth |-> R(informed),
         OnRegisterReg |-> R(registered),
         OnLogoutRsp |-> R(<<rsp>>), OnLogoutAllRsp |-> R(<<rsp>>), OnPushTokenRsp |-> R(<<rsp>>),
         OnContactStatusInd |-> R(<< Cut(T("num"), "num"), Octet(T("status"), "status"),
             Cut(T("status_date_time"), "status_data_time") >>),
         OnContactUserStatusInd |-> R(<< Cut(T("num"), "num"),
             Octet(T("user_status"), "user_status"),
             Cut(T("user_status_date_time"), "user_status_data_time") >>),
         OnGetSubsribersStatus_Rsp |-> R(<<rsp>>), OnSetUserStatus_Rsp |-> R(<<rsp>>),
         OnGetRouteDirection_Rsp |-> R(<< rsp, Octet(T("direction"), "direction") >>),
         OnSetRouteDirection_Rsp |-> R(<<rsp>>)]

(* loop is tested and id is read.  OnTestMsgExInd builds an answer of what *)
(* it takes, which it does not send; data only if what it took for loop is *)
(* not 0 (of an empty id, the byte behind it, which is taken for 0 here).  *)
ServiceAnswers ==
    LET T(n) == Tag(PAPI_ParamService, n)
        id == Int(T("id"), 4, "req_id")
        data == << Take(UpTo(T("data")), T("data"), "text", 0, "none", "data"),
                   Take(UpTo(T("data")), T("data"), "count", 0, "none", "len") >>
        loop == Take(<< If(T("loop"), Some) >>, T("id"), "flag", 1, "none", "loop")
        S(pre, fields) == Table(PAPI_ParamService, pre, fields)
    IN  [OnPingRsp |-> S(RspIsOne, << Int(T("rsp"), 2, "rsp") >>),
         OnPingInd |-> S(<<>>, <<>>),
         OnTestMsgRsp |-> S(<<>>, << Int(T("rsp"), 2, "rsp"), id >> \o data),
         OnTestMsgInd |-> S(<<>>, << id >> \o data \o << loop >>),
         OnTestMsgExInd |-> S(<<>>, << Take(<< If(T("id"), {4}) >>, T("id"), "text", 0, "none", "id"),
             loop,
             Take(<< If(T("loop"), Some), IfByte(T("id"), 1 .. Base - 1), If(T("data"), Some) >>,
                  T("data"), "text", 0, "none", "data") >>)]

DialAnswers ==
    LET T(n) == Tag(PAPI_ParamDial, n)
        rsp == Int(T("rsp"), 2, "rsp")
        nums == << Cut(T("sour_num"), "snum"), Cut(T("dest_num"), "dnum") >>
        server == Cut(T("voice_server"), "voice_server")
        call == Cut(T("call_id"), "call_id")
        D(fields) == Table(PAPI_ParamDial, <<>>, fields)
    IN  [OnDialRsp |-> D(<<rsp>> \o nums \o <<server, call>>),
         OnDialInd |-> D(nums \o <<server, call>>),
         OnCancelRsp |-> D(<<rsp>> \o nums \o <<call>>),
         OnPushClearCallsRsp |-> D(<<rsp>>),
         OnCallsBadgeRsp |-> D(<<rsp, Int(T("badge"), 4, "badge")>>)]

MessageAnswers ==
    LET T(n) == Tag(PAPI_ParamMsg, n)
        rsp == Int(T("rsp"), 2, "rsp")
        chat == Int(T("chat_id"), 8, "chat_id")
        sm == Int(T("sm_id"), 8, "sm_id")
        index == Int(T("msg_index"), 8, "msg_index")
        nums == << Cut(T("sour_num"), "snum"), Cut(T("dest_num"), "dnum") >>
        submitted == Cut(T("submit_date_time"), "submit_date_time")
        M(pre, fields) == Table(PAPI_ParamMsg, pre, fields)
    IN  [OnMsgRsp |-> M(RspIsOne, << rsp, chat, sm, index >> \o nums \o << submitted >>),
         OnMsgReq |-> M(<<>>, nums \o << submitted, Octet(T("chat_private"), "chat_private"),
             Octet(T("channel"), "channel"), chat, index, sm, Octet(T("file_type"), "file_type"),
             Take(<< If(T("file_type"), Some), If(T("file_hash"), {4}) >>,
                  T("file_hash"), "int", 4, "none", "hash"),      \* to file_hash
             Text(T("text"), "text") >>),
         OnRepRsp |-> M(RspIsOne, << rsp, chat, sm, index >> \o nums),
         OnRepReq |-> M(<<>>, nums \o << chat, index, sm, Octet(T("rep_status"), "status"),
             Cut(T("date_time"), "date_time") >>),
         OnDelMsgRsp |-> M(RspIsOne, << rsp, chat, sm, index >>),
         OnTypingReq |-> M(<<>>, << Cut(T("sour_num"), "snum"), chat,
             Octet(T("typing_type"), "type") >>)]

BlackListAnswers ==
    LET T(n) == Tag(PAPI_ParamBlackList, n)
        rsp == << Int(T("rsp"), 1, "rsp"), Int(T("rsp"), 2, "rsp") >>
        B(fields) == Table(PAPI_ParamBlackList, RspIsOne, fields)
    IN  [OnBL_Add_Rsp |-> B(rsp), OnBL_Del_Rsp |-> B(rsp),
         OnBL_Get_Rsp |-> B(Append(rsp, Into(T("list"), "BlackList", "list")))]

CSAnswers ==
    LET T(n) == Tag(PAPI_ParamCS, n)
        rsp == Int(T("rsp"), 2, "rsp")
        C(fields) == Table(PAPI_ParamCS, <<>>, fields)
        contacts == C(<< rsp, Into(T("contacts"), "Contacts", "contacts") >>)
    IN  [OnCS_PutMe_Rsp |-> C(<<rsp>>),
         OnCS_GetMe_Rsp |-> C(<< rsp, Text(T("name"), "name"), Text(T("avatar"), "avatar"),
             Octet(T("pinboot"), "pinbot") >>),
         OnCS_GetProfileRsp_Rsp |-> contacts, OnCS_GetContactsRsp_Rsp |-> contacts,
         OnCS_GetContactsHistoryRsp_Rsp |-> contacts, OnCS_PutContacts_Rsp |-> contacts,
         OnCS_DelContacts_Rsp |-> C(<<rsp>>)]

(* OnChatCreateRsp makes one of two objects, by chat_private.  In          *)
(* OnChatChangeInfoInd index goes to chat_id, which chat_id overwrites.    *)
ChatAnswers ==
    LET T(n) == Tag(PAPI_ParamChat, n)
        rsp == Int(T("rsp"), 2, "rsp")
        chat == Int(T("chat_id"), 8, "chat_id")
        index == Int(T("index"), 8, "hindex")
        C(fields) == Table(PAPI_ParamChat, <<>>, fields)
        lists == Into(T("lists"), "Lists", "chats")
        changed == C(<< chat, index, rsp >>)
        msgs == C(<< chat, rsp, Into(T("msgs"), "Msgs", "msgs") >>)
    IN  [OnChatCheckListRsp |-> C(<<rsp>>),
         OnChatGetListRsp |-> C(<< rsp, lists, TextIf(T("server_time"), "server_dt") >>),
         OnChatGetInfoRsp |-> C(<< chat, rsp, lists >>),
         OnChatCreateRsp |-> C(<< rsp, Octet(T("chat_private"), "chat_private"), chat, index,
             Take(<< IfByte(T("chat_private"), 1 .. Base - 1), If(T("start_msg_index"), {8}) >>,
                  T("start_msg_index"), "int", 8, "none", "start_msg_ibdex"),
             Into(T("nums"), "CreateNums", "numbers") >>),
         OnChatDelRsp |-> changed, OnChatAddNumRsp |-> changed, OnChatDelNumRsp |-> changed,
         OnChatSetNameRsp |-> changed, OnChatSetAvatarRsp |-> changed,
         OnChatGetMsgsRsp |-> msgs, OnChatGetMsgsDelRsp |-> msgs,
         OnChatGetMsgsRepFinalRsp |-> msgs, OnChatGetMsgsRepReadRsp |-> msgs,
         OnChatChangeInfoInd |-> C(<< Int(T("index"), 8, "chat_id"), chat,
             Octet(T("change_type"), "change_type"),
             Into(T("get_chat_info"), "ChatInfo", "chat") >>),
         OnChatNotReadRsp |-> C(<< chat, rsp, Int(T("chat_unread"), 4, "not_read") >>),
         OnChatReadAllRsp |-> C(<< chat, rsp >>)]

(* The size of a fragment is kept in sixteen bits with a sign. *)
FSAnswers ==
    LET T(n) == Tag(PAPI_ParamFS, n)
        rsp == << Int(T("rsp"), 1, "rsp"), Int(T("rsp"), 2, "rsp"),
                  Take(<< If(T("rsp"), {4}) >>, T("rsp"), "low", 4, "none", "rsp") >>
        chat == Int(T("chat_id"), 8, "chat_id")
        sm == Int(T("sm_id"), 8, "sm_id")
        offset == Int(T("offset"), 8, "offset")
        posted == << offset, Int(T("post_size"), 8, "post_size") >>
        sent == << offset, Int(T("file_size_full"), 8, "full_size"),
                   Take(UpTo(T("fragment")), T("fragment"), "text", 0, "none", "bin"),
                   Take(UpTo(T("fragment")), T("fragment"), "size", 0, "none", "len"),
                   Const(<< If(T("fragment"), Some \ (1 .. FragmentMax)) >>, 61440, "rsp") >>
        ext == Text(T("file_ext"), "file_ext")
        F(fields) == Table(PAPI_ParamFS, <<>>, rsp \o fields)
    IN  [OnFSPutAvaterRsp |-> F(posted), OnFSGetAvaterRsp |-> F(<< ext >> \o sent),
         OnFSPutChatAvaterRsp |-> F(<< chat >> \o posted),
         OnFSGetChatAvaterRsp |-> F(<< ext, chat >> \o sent),
         OnFSPutFileRsp |-> F(<< sm >> \o posted), OnFSGetFileRsp |-> F(<< ext, sm >> \o sent)]

BillingAnswers ==
    LET T(n) == Tag(PAPI_ParamBilling, n)
    IN  [OnBillingBalanceRsp |-> Table(PAPI_ParamBilling, <<>>,
             << Int(T("rsp"), 2, "rsp"), Text(T("balance"), "balance") >>)]

-----------------------------------------------------------------------------
(* The class of the object that a handler makes, or a function inside one  *)
(* fills.  OnChatCreateRsp makes Chat_CreateGroup_Rsp for a group, which   *)
(* has all those members but start_msg_ibdex.                              *)
Makes ==
    [OnLogoutRsp |-> "Logout_Rsp", OnLogoutAllRsp |-> "LogoutAll_Rsp",
     OnPushTokenRsp |-> "PushToken_Rsp", OnContactStatusInd |-> "ContactStatus_Ind",
     OnContactUserStatusInd |-> "ContactUserStatus_Ind",
     OnGetSubsribersStatus_Rsp |-> "GetSubsribersStatus_Rsp",
     OnSetUserStatus_Rsp |-> "SetUserStatus_Rsp",
     OnGetRouteDirection_Rsp |-> "GetRouteDirection_Rsp",
     OnSetRouteDirection_Rsp |-> "SetRouteDirection_Rsp", OnPingRsp |-> "Ping_Rsp",
     OnPingInd |-> "Ping_Ind", OnTestMsgRsp |-> "TestMsg_Rsp", OnTestMsgInd |-> "TestMsg_Ind",
     OnDialRsp |-> "Dial_Rsp", OnDialInd |-> "Dial_Ind", OnCancelRsp |-> "Cancel_Rsp",
     OnPushClearCallsRsp |-> "PushClearCalls_Rsp", OnCallsBadgeRsp |-> "CallsBadge_Rsp",
     OnMsgRsp |-> "Msg_Rsp", OnMsgReq |-> "Msg_Ind", OnRepRsp |-> "Rep_Rsp",
     OnRepReq |-> "Rep_Ind", OnDelMsgRsp |-> "DelMsg_Rsp", OnTypingReq |-> "Typing_Ind",
     OnBL_Add_Rsp |-> "BL_Add_Rsp", OnBL_Del_Rsp |-> "BL_Del_Rsp",
     OnBL_Get_Rsp |-> "BL_Get_Rsp", OnCS_PutMe_Rsp |-> "CS_PutMe_Rsp",
     OnCS_GetMe_Rsp |-> "CS_GetMe_Rsp", OnCS_GetProfileRsp_Rsp |-> "CS_GetProfiles_Rsp",
     OnCS_GetContactsRsp_Rsp |-> "CS_GetContacts_Rsp",
     OnCS_GetContactsHistoryRsp_Rsp |-> "CS_GetContactsHistory_Rsp",
     OnCS_PutContacts_Rsp |-> "CS_PutContacts_Rsp",
     OnCS_DelContacts_Rsp |-> "CS_DelContacts_Rsp", OnChatCheckListRsp |-> "Chat_CheckList_Rsp",
     OnChatGetListRsp |-> "Chat_GetList_Rsp", OnChatGetInfoRsp |-> "Chat_GetInfo_Rsp",
     OnChatCreateRsp |-> "Chat_CreatePrivate_Rsp", OnChatDelRsp |-> "Chat_Delete_Rsp",
     OnChatAddNumRsp |-> "Chat_AddNum_Rsp", OnChatDelNumRsp |-> "Chat_DelNum_Rsp",
     OnChatSetNameRsp |-> "Chat_SetName_Rsp", OnChatSetAvatarRsp |-> "Chat_SetAvatar_Rsp",
     OnChatGetMsgsRsp |-> "Chat_GetMsgs_Rsp", OnChatGetMsgsDelRsp |-> "Chat_GetMsgsDel_Rsp",
     OnChatGetMsgsRepFinalRsp |-> "Chat_GetMsgsRepFinal_Rsp",
     OnChatGetMsgsRepReadRsp |-> "Chat_GetMsgsRepRead_Rsp",
     OnChatChangeInfoInd |-> "Chat_ChangeInfo_Ind", OnChatNotReadRsp |-> "Chat_NotRead_Rsp",
     OnChatReadAllRsp |-> "Chat_ReadAll_Rsp", OnFSPutAvaterRsp |-> "FS_PutAvatar_Rsp",
     OnFSGetAvaterRsp |-> "FS_GetAvatar_Rsp", OnFSPutChatAvaterRsp |-> "FS_PutChatAvatar_Rsp",
     OnFSGetChatAvaterRsp |-> "FS_GetChatAvatar_Rsp", OnFSPutFileRsp |-> "FS_PutMsgFile_Rsp",
     OnFSGetFileRsp |-> "FS_GetMsgFile_Rsp", OnBillingBalanceRsp |-> "Billing_Balance_Rsp",
     ChatMsg |-> "Msg", ChatInfo |-> "Chat", Contact |-> "Contact"]

=============================================================================
