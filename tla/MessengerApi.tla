---------------------------- MODULE MessengerApi ----------------------------
(***************************************************************************)
(* The three tables of ClientImpl.cpp that must agree with each other:     *)
(* the request handlers (what goes on the wire, what a refusal and a       *)
(* timeout answer), the dispatch of BinStream (which object a message from *)
(* the server becomes), and the cases of OnTimer.                          *)
(*                                                                         *)
(* A wire message is <<service, command, "req" | "rsp" | "ind">>; of its   *)
(* parameters only chat_private, which the handlers branch on, is kept, as *)
(* part of the command.  The API classes X_Req, X_Rsp and X_Ind are        *)
(* written by their stem X.                                                *)
(***************************************************************************)
EXTENDS TLC

CONSTANT None   \* no timer, no answer

(* Every handler refuses when its gate is shut: "online" asks for the      *)
(* connect state online, "opened" only for a state past wait_open.  A      *)
(* Timed handler answers the refusal or a failed bin_stream with fail_Rsp  *)
(* (0xfff0), and after a successful bin_stream starts a timer under        *)
(* MessengerAPI_Req::timer_Req.  A Silent one does neither.                *)
Timed(gate, wire, timer, fail) ==
    [gate |-> gate, wire |-> wire, timer |-> timer, fail |-> fail]

Silent(gate, wire) == Timed(gate, wire, None, None)

-----------------------------------------------------------------------------
(* Request handlers, by service *)

OnLogout_Req ==
    Timed("online", <<"registrar", "logout", "req">>, "Logout", "Logout")
OnLogoutAll_Req ==
    Timed("online", <<"registrar", "logout_all", "req">>,
          "LogoutAll", "LogoutAll")
OnPushToken_Req ==
    Timed("online", <<"registrar", "push_token", "req">>,
          "PushToken", "PushToken")
OnGetSubsribersStatus_Req ==
    Timed("online", <<"registrar", "get_susbs_status", "req">>,
          "GetSubsribersStatus", "GetSubsribersStatus")
OnSetUserStatus_Req ==
    Timed("online", <<"registrar", "set_user_status", "req">>,
          "SetUserStatus", "SetUserStatus")
OnGetRouteDirectionReq ==
    Timed("online", <<"registrar", "get_route_direction", "req">>,
          "GetRouteDirection", "GetRouteDirection")
OnSetRouteDirectionReq ==
    Timed("online", <<"registrar", "set_route_direction", "req">>,
          "SetRouteDirection", "SetRouteDirection")

OnRequest_PingReq ==
    Timed("opened", <<"service", "ping", "req">>, "Ping", "Ping")
OnRequest_PingCnf == Silent("opened", <<"service", "ping", "rsp">>)
OnRequest_TestMsgReq ==
    Timed("opened", <<"service", "test_msg", "req">>, "TestMsg", "TestMsg")
OnRequest_TestMsgCnf == Silent("opened", <<"service", "test_msg", "rsp">>)

OnRequest_DialReq == Timed("online", <<"dial", "dial", "req">>, "Dial", "Dial")
OnRequest_DialCnf == Silent("online", <<"dial", "dial", "rsp">>)
OnRequest_CancelReq ==
    Timed("online", <<"dial", "cancel", "req">>, "Cancel", "Cancel")
OnRequest_PushClearCallsReq ==
    Timed("online", <<"dial", "push_clear_calls", "req">>,
          "PushClearCalls", "PushClearCalls")
OnRequest_CallsBadgeReq ==
    Timed("online", <<"dial", "calls_badge", "req">>,
          "CallsBadge", "CallsBadge")

OnRequest_MsgReq ==
    Timed("online", <<"message", "message", "req">>, "Msg", "Msg")
OnRequest_MsgCnf == Silent("online", <<"message", "message", "rsp">>)
(* Mutant: the refusal of the handler it was copied from. *)
OnRequest_RepReq_Pasted ==
    Timed("online", <<"message", "report", "req">>, "Rep", "Msg")
OnRequest_RepReq ==
    Timed("online", <<"message", "report", "req">>, "Rep", "Rep")
OnRequest_RepCnf == Silent("online", <<"message", "report", "rsp">>)
OnRequest_DelMsgReq ==
    Timed("online", <<"message", "del_msg", "req">>, "DelMsg", "DelMsg")
OnRequest_TypingReq == Silent("online", <<"message", "typing", "req">>)

OnRequest_BL_Add_Req ==
    Timed("online", <<"bl", "add", "req">>, "BL_Add", "BL_Add")
OnRequest_BL_Del_Req ==
    Timed("online", <<"bl", "del", "req">>, "BL_Del", "BL_Del")
OnRequest_BL_Get_Req ==
    Timed("online", <<"bl", "get", "req">>, "BL_Get", "BL_Get")

OnRequest_CS_PutMe ==
    Timed("online", <<"cs", "put_me", "req">>, "CS_PutMe", "CS_PutMe")
OnRequest_CS_GetMe ==
    Timed("online", <<"cs", "get_me", "req">>, "CS_GetMe", "CS_GetMe")
OnRequest_CS_PutContacts ==
    Timed("online", <<"cs", "put_contacts", "req">>,
          "CS_PutContacts", "CS_PutContacts")
OnRequest_CS_DelContacts ==
    Timed("online", <<"cs", "contacts_del", "req">>,
          "CS_DelContacts", "CS_DelContacts")
OnRequest_CS_GetProfiles ==
    Timed("online", <<"cs", "get_profiles", "req">>,
          "CS_GetProfiles", "CS_GetProfiles")
OnRequest_CS_GetContactsHistory ==
    Timed("online", <<"cs", "get_contacts_history", "req">>,
          "CS_GetContactsHistory", "CS_GetContactsHistory")
OnRequest_CS_GetContacts ==
    Timed("online", <<"cs", "get_contacts", "req">>,
          "CS_GetContacts", "CS_GetContacts")

OnRequest_Chat_CheckList ==
    Timed("online", <<"chats", "chat_check_list", "req">>,
          "Chat_CheckList", "Chat_CheckList")
OnRequest_Chat_GetList ==
    Timed("online", <<"chats", "chat_get_list", "req">>,
          "Chat_GetList", "Chat_GetList")
OnRequest_Chat_GetInfo ==
    Timed("online", <<"chats", "chat_get_info_ex", "req">>,
          "Chat_GetInfo", "Chat_GetInfo")
OnRequest_Chat_Create_Private ==
    Timed("online", <<"chats", "chat_create_private", "req">>,
          "Chat_CreatePrivate", "Chat_CreatePrivate")
OnRequest_Chat_Create_Group ==
    Timed("online", <<"chats", "chat_create_group", "req">>,
          "Chat_CreateGroup", "Chat_CreateGroup")
OnRequest_Chat_Delete ==
    Timed("online", <<"chats", "chat_del", "req">>,
          "Chat_Delete", "Chat_Delete")
OnRequest_Chat_AddNum ==
    Timed("online", <<"chats", "chat_add_num", "req">>,
          "Chat_AddNum", "Chat_AddNum")
OnRequest_Chat_DelNum ==
    Timed("online", <<"chats", "chat_del_num", "req">>,
          "Chat_DelNum", "Chat_DelNum")
OnRequest_Chat_SetName ==
    Timed("online", <<"chats", "chat_set_name", "req">>,
          "Chat_SetName", "Chat_SetName")
OnRequest_Chat_SetAvatar ==
    Timed("online", <<"chats", "chat_set_avatar", "req">>,
          "Chat_SetAvatar", "Chat_SetAvatar")
OnRequest_Chat_GetMsgs ==
    Timed("online", <<"chats", "get_msg", "req">>,
          "Chat_GetMsgs", "Chat_GetMsgs")
OnRequest_Chat_GetMsgsDel ==
    Timed("online", <<"chats", "get_msg_del", "req">>,
          "Chat_GetMsgsDel", "Chat_GetMsgsDel")
OnRequest_Chat_GetMsgsRepFinal ==
    Timed("online", <<"chats", "get_repd", "req">>,
          "Chat_GetMsgsRepFinal", "Chat_GetMsgsRepFinal")
OnRequest_Chat_GetMsgsRepRead ==
    Timed("online", <<"chats", "get_repv", "req">>,
          "Chat_GetMsgsRepRead", "Chat_GetMsgsRepRead")
OnRequest_Chat_NotRead ==
    Timed("online", <<"chats", "chat_get_unread", "req">>,
          "Chat_NotRead", "Chat_NotRead")
OnRequest_Chat_ReadAllReq ==
    Timed("online", <<"chats", "set_read", "req">>,
          "Chat_ReadAll", "Chat_ReadAll")

OnRequest_FS_PutAvatar ==
    Timed("online", <<"fs", "put_avatar", "req">>,
          "FS_PutAvatar", "FS_PutAvatar")
OnRequest_FS_GetAvatar ==
    Timed("online", <<"fs", "get_avatar", "req">>,
          "FS_GetAvatar", "FS_GetAvatar")
OnRequest_FS_PutChatAvatar ==
    Timed("online", <<"fs", "put_chat_avatar", "req">>,
          "FS_PutChatAvatar", "FS_PutChatAvatar")
OnRequest_FS_GetChatAvatar ==
    Timed("online", <<"fs", "get_chat_avatar", "req">>,
          "FS_GetChatAvatar", "FS_GetChatAvatar")
OnRequest_FS_PutFile ==
    Timed("online", <<"fs", "put_file", "req">>,
          "FS_PutMsgFile", "FS_PutMsgFile")
OnRequest_FS_GetFile ==
    Timed("online", <<"fs", "get_file", "req">>,
          "FS_GetMsgFile", "FS_GetMsgFile")

OnRequest_Billing_Balance ==
    Timed("online", <<"billing", "balance", "req">>,
          "Billing_Balance", "Billing_Balance")

(* The dispatch of Client::Impl::OnRequest, by MessengerAPI_Req. *)
OnRequest_Calls ==
    [Logout |-> OnLogout_Req,
     LogoutAll |-> OnLogoutAll_Req,
     PushToken |-> OnPushToken_Req,
     GetSubsribersStatus |-> OnGetSubsribersStatus_Req,
     SetUserStatus |-> OnSetUserStatus_Req,
     GetRouteDirection |-> OnGetRouteDirectionReq,
     SetRouteDirection |-> OnSetRouteDirectionReq,
     Ping |-> OnRequest_PingReq,
     Ping_Cnf |-> OnRequest_PingCnf,
     TestMsg |-> OnRequest_TestMsgReq,
     TestMsg_Cnf |-> OnRequest_TestMsgCnf,
     Dial |-> OnRequest_DialReq,
     Dial_Cnf |-> OnRequest_DialCnf,
     Cancel |-> OnRequest_CancelReq,
     PushClearCalls |-> OnRequest_PushClearCallsReq,
     CallsBadge |-> OnRequest_CallsBadgeReq,
     Msg |-> OnRequest_MsgReq,
     Msg_Cnf |-> OnRequest_MsgCnf,
     Rep |-> OnRequest_RepReq,
     Rep_Cnf |-> OnRequest_RepCnf,
     DelMsg |-> OnRequest_DelMsgReq,
     Typing |-> OnRequest_TypingReq]

OnRequest_Lists ==
    [CS_PutMe |-> OnRequest_CS_PutMe,
     CS_GetMe |-> OnRequest_CS_GetMe,
     CS_PutContacts |-> OnRequest_CS_PutContacts,
     CS_DelContacts |-> OnRequest_CS_DelContacts,
     CS_GetProfiles |-> OnRequest_CS_GetProfiles,
     CS_GetContactsHistory |-> OnRequest_CS_GetContactsHistory,
     CS_GetContacts |-> OnRequest_CS_GetContacts,
     Chat_CheckList |-> OnRequest_Chat_CheckList,
     Chat_GetList |-> OnRequest_Chat_GetList,
     Chat_GetInfo |-> OnRequest_Chat_GetInfo,
     Chat_CreatePrivate |-> OnRequest_Chat_Create_Private,
     Chat_CreateGroup |-> OnRequest_Chat_Create_Group,
     Chat_Delete |-> OnRequest_Chat_Delete,
     Chat_AddNum |-> OnRequest_Chat_AddNum,
     Chat_DelNum |-> OnRequest_Chat_DelNum,
     Chat_SetName |-> OnRequest_Chat_SetName,
     Chat_SetAvatar |-> OnRequest_Chat_SetAvatar,
     Chat_GetMsgs |-> OnRequest_Chat_GetMsgs,
     Chat_GetMsgsDel |-> OnRequest_Chat_GetMsgsDel,
     Chat_GetMsgsRepFinal |-> OnRequest_Chat_GetMsgsRepFinal,
     Chat_GetMsgsRepRead |-> OnRequest_Chat_GetMsgsRepRead,
     Chat_NotRead |-> OnRequest_Chat_NotRead,
     Chat_ReadAll |-> OnRequest_Chat_ReadAllReq]

OnRequest_Files ==
    [BL_Add |-> OnRequest_BL_Add_Req,
     BL_Del |-> OnRequest_BL_Del_Req,
     BL_Get |-> OnRequest_BL_Get_Req,
     FS_PutAvatar |-> OnRequest_FS_PutAvatar,
     FS_GetAvatar |-> OnRequest_FS_GetAvatar,
     FS_PutChatAvatar |-> OnRequest_FS_PutChatAvatar,
     FS_GetChatAvatar |-> OnRequest_FS_GetChatAvatar,
     FS_PutMsgFile |-> OnRequest_FS_PutFile,
     FS_GetMsgFile |-> OnRequest_FS_GetFile,
     Billing_Balance |-> OnRequest_Billing_Balance]

OnRequest == OnRequest_Calls @@ OnRequest_Lists @@ OnRequest_Files

-----------------------------------------------------------------------------
(* Handlers of what the server sends: the object each hands to SendResp.   *)
(* What OnLogoutRsp and OnLogoutAllRsp then do to the connection, and the  *)
(* registrar's init_rsp, auth_rsp and reg_rsp, are in Connection.          *)

Rsp(stem) == [class |-> stem, kind |-> "Rsp"]
Ind(stem) == [class |-> stem, kind |-> "Ind"]
Nothing   == [class |-> None, kind |-> "Nothing"]

OnLogoutRsp == Rsp("Logout")
OnLogoutAllRsp == Rsp("LogoutAll")
OnPushTokenRsp == Rsp("PushToken")
OnContactStatusInd == Ind("ContactStatus")
OnContactUserStatusInd == Ind("ContactUserStatus")
OnGetSubsribersStatus_Rsp == Rsp("GetSubsribersStatus")
OnSetUserStatus_Rsp == Rsp("SetUserStatus")
OnGetRouteDirection_Rsp == Rsp("GetRouteDirection")
OnSetRouteDirection_Rsp == Rsp("SetRouteDirection")

OnPingRsp == Rsp("Ping")
OnPingInd == Ind("Ping")
OnPingExInd == Nothing
OnTestMsgRsp == Rsp("TestMsg")
OnTestMsgInd == Ind("TestMsg")
OnTestMsgExInd == Nothing

OnDialRsp == Rsp("Dial")
OnDialInd == Ind("Dial")
OnCancelRsp == Rsp("Cancel")
OnPushClearCallsRsp == Rsp("PushClearCalls")
OnCallsBadgeRsp == Rsp("CallsBadge")

OnMsgRsp == Rsp("Msg")
OnMsgReq == Ind("Msg")
OnRepRsp == Rsp("Rep")
OnRepReq == Ind("Rep")
OnDelMsgRsp == Rsp("DelMsg")
OnTypingReq == Ind("Typing")

OnCS_PutMe_Rsp == Rsp("CS_PutMe")
OnCS_GetMe_Rsp == Rsp("CS_GetMe")
OnCS_GetProfileRsp_Rsp == Rsp("CS_GetProfiles")
OnCS_PutContacts_Rsp == Rsp("CS_PutContacts")
OnCS_DelContacts_Rsp == Rsp("CS_DelContacts")
OnCS_GetContactsRsp_Rsp == Rsp("CS_GetContacts")
OnCS_GetContactsHistoryRsp_Rsp == Rsp("CS_GetContactsHistory")

OnChatCheckListRsp == Rsp("Chat_CheckList")
OnChatGetListRsp == Rsp("Chat_GetList")
OnChatGetInfoRsp == Rsp("Chat_GetInfo")

(* The answer to both kinds of chat creation: its chat_private parameter   *)
(* picks the class.                                                        *)
OnChatCreateRsp(private) == Rsp(IF private THEN "Chat_CreatePrivate" ELSE "Chat_CreateGroup")

OnChatDelRsp == Rsp("Chat_Delete")
OnChatAddNumRsp == Rsp("Chat_AddNum")
OnChatDelNumRsp == Rsp("Chat_DelNum")
OnChatSetNameRsp == Rsp("Chat_SetName")
OnChatSetAvatarRsp == Rsp("Chat_SetAvatar")
OnChatGetMsgsRsp == Rsp("Chat_GetMsgs")
OnChatGetMsgsDelRsp == Rsp("Chat_GetMsgsDel")
OnChatGetMsgsRepFinalRsp == Rsp("Chat_GetMsgsRepFinal")
OnChatGetMsgsRepReadRsp == Rsp("Chat_GetMsgsRepRead")
OnChatChangeInfoInd == Ind("Chat_ChangeInfo")
OnChatNotReadRsp == Rsp("Chat_NotRead")
OnChatReadAllRsp == Rsp("Chat_ReadAll")

OnBL_Add_Rsp == Rsp("BL_Add")
OnBL_Del_Rsp == Rsp("BL_Del")
OnBL_Get_Rsp == Rsp("BL_Get")

OnFSPutAvaterRsp == Rsp("FS_PutAvatar")
OnFSGetAvaterRsp == Rsp("FS_GetAvatar")
OnFSPutChatAvaterRsp == Rsp("FS_PutChatAvatar")
OnFSGetChatAvaterRsp == Rsp("FS_GetChatAvatar")
OnFSPutFileRsp == Rsp("FS_PutMsgFile")
OnFSGetFileRsp == Rsp("FS_GetMsgFile")

OnBillingBalanceRsp == Rsp("Billing_Balance")

(* The switches of BinStream, one per service. *)
BinStream_registrar ==
       <<"logout", "rsp">> :> OnLogoutRsp
    @@ <<"logout_all", "rsp">> :> OnLogoutAllRsp
    @@ <<"push_token", "rsp">> :> OnPushTokenRsp
    @@ <<"status", "ind">> :> OnContactStatusInd
    @@ <<"user_status", "ind">> :> OnContactUserStatusInd
    @@ <<"get_susbs_status", "rsp">> :> OnGetSubsribersStatus_Rsp
    @@ <<"set_user_status", "rsp">> :> OnSetUserStatus_Rsp
    @@ <<"get_route_direction", "rsp">> :> OnGetRouteDirection_Rsp
    @@ <<"set_route_direction", "rsp">> :> OnSetRouteDirection_Rsp

BinStream_service ==
       <<"ping", "rsp">> :> OnPingRsp
    @@ <<"ping", "req">> :> OnPingInd
    @@ <<"ping_ex", "req">> :> OnPingExInd
    @@ <<"test_msg", "rsp">> :> OnTestMsgRsp
    @@ <<"test_msg", "req">> :> OnTestMsgInd
    @@ <<"test_msg_ex", "req">> :> OnTestMsgExInd

BinStream_dial ==
       <<"dial", "rsp">> :> OnDialRsp
    @@ <<"dial", "req">> :> OnDialInd
    @@ <<"cancel", "req">> :> OnCancelRsp
    @@ <<"push_clear_calls", "rsp">> :> OnPushClearCallsRsp
    @@ <<"calls_badge", "rsp">> :> OnCallsBadgeRsp

BinStream_message ==
       <<"message", "rsp">> :> OnMsgRsp
    @@ <<"message", "req">> :> OnMsgReq
    @@ <<"report", "rsp">> :> OnRepRsp
    @@ <<"report", "req">> :> OnRepReq
    @@ <<"del_msg", "rsp">> :> OnDelMsgRsp
    @@ <<"typing", "req">> :> OnTypingReq

BinStream_cs ==
       <<"put_me", "rsp">> :> OnCS_PutMe_Rsp
    @@ <<"get_me", "rsp">> :> OnCS_GetMe_Rsp
    @@ <<"get_profiles", "rsp">> :> OnCS_GetProfileRsp_Rsp
    @@ <<"put_contacts", "rsp">> :> OnCS_PutContacts_Rsp
    @@ <<"contacts_del", "rsp">> :> OnCS_DelContacts_Rsp
    @@ <<"get_contacts", "rsp">> :> OnCS_GetContactsRsp_Rsp
    @@ <<"get_contacts_history", "rsp">> :> OnCS_GetContactsHistoryRsp_Rsp

BinStream_chats ==
       <<"chat_check_list", "rsp">> :> OnChatCheckListRsp
    @@ <<"chat_get_list", "rsp">> :> OnChatGetListRsp
    @@ <<"chat_get_info_ex", "rsp">> :> OnChatGetInfoRsp
    @@ <<"chat_create_private", "rsp">> :> OnChatCreateRsp(TRUE)
    @@ <<"chat_create_group", "rsp">> :> OnChatCreateRsp(FALSE)
    @@ <<"chat_del", "rsp">> :> OnChatDelRsp
    @@ <<"chat_add_num", "rsp">> :> OnChatAddNumRsp
    @@ <<"chat_del_num", "rsp">> :> OnChatDelNumRsp
    @@ <<"chat_set_name", "rsp">> :> OnChatSetNameRsp
    @@ <<"chat_set_avatar", "rsp">> :> OnChatSetAvatarRsp
    @@ <<"get_msg", "rsp">> :> OnChatGetMsgsRsp
    @@ <<"get_msg_del", "rsp">> :> OnChatGetMsgsDelRsp
    @@ <<"get_repd", "rsp">> :> OnChatGetMsgsRepFinalRsp
    @@ <<"get_repv", "rsp">> :> OnChatGetMsgsRepReadRsp
    @@ <<"chat_change", "req">> :> OnChatChangeInfoInd
    @@ <<"chat_get_unread", "rsp">> :> OnChatNotReadRsp
    @@ <<"set_read", "rsp">> :> OnChatReadAllRsp

BinStream_bl ==
       <<"add", "rsp">> :> OnBL_Add_Rsp
    @@ <<"del", "rsp">> :> OnBL_Del_Rsp
    @@ <<"get", "rsp">> :> OnBL_Get_Rsp

BinStream_fs ==
       <<"put_avatar", "rsp">> :> OnFSPutAvaterRsp
    @@ <<"get_avatar", "rsp">> :> OnFSGetAvaterRsp
    @@ <<"put_chat_avatar", "rsp">> :> OnFSPutChatAvaterRsp
    @@ <<"get_chat_avatar", "rsp">> :> OnFSGetChatAvaterRsp
    @@ <<"put_file", "rsp">> :> OnFSPutFileRsp
    @@ <<"get_file", "rsp">> :> OnFSGetFileRsp

BinStream_billing ==
       <<"balance", "rsp">> :> OnBillingBalanceRsp

(* A service or command that no case names falls through the switches. *)
BinStream(wire) ==
    LET table == CASE wire[1] = "registrar" -> BinStream_registrar
                   [] wire[1] = "service" -> BinStream_service
                   [] wire[1] = "dial" -> BinStream_dial
                   [] wire[1] = "message" -> BinStream_message
                   [] wire[1] = "cs" -> BinStream_cs
                   [] wire[1] = "chats" -> BinStream_chats
                   [] wire[1] = "bl" -> BinStream_bl
                   [] wire[1] = "fs" -> BinStream_fs
                   [] wire[1] = "billing" -> BinStream_billing
        command == <<wire[2], wire[3]>>
    IN  IF command \in DOMAIN table THEN table[command] ELSE Nothing

-----------------------------------------------------------------------------
(* Mutant: the case of the service that came last is missing. *)
OnTimer_Cases_Old ==
    {"Logout", "LogoutAll", "PushToken", "GetSubsribersStatus",
     "SetUserStatus", "GetRouteDirection", "SetRouteDirection", "Dial",
     "Cancel", "PushClearCalls", "CallsBadge", "Msg", "Rep", "DelMsg",
     "BL_Add", "BL_Del", "BL_Get", "CS_PutMe", "CS_GetMe", "CS_PutContacts",
     "CS_DelContacts", "CS_GetProfiles", "CS_GetContacts",
     "CS_GetContactsHistory", "Chat_CheckList", "Chat_GetList",
     "Chat_GetInfo", "Chat_CreatePrivate", "Chat_CreateGroup", "Chat_Delete",
     "Chat_AddNum", "Chat_DelNum", "Chat_SetName", "Chat_SetAvatar",
     "Chat_GetMsgs", "Chat_GetMsgsRepFinal", "Chat_GetMsgsRepRead",
     "Chat_GetMsgsDel", "Chat_NotRead", "Chat_ReadAll", "FS_PutAvatar",
     "FS_GetAvatar", "FS_PutChatAvatar", "FS_GetChatAvatar", "FS_PutMsgFile",
     "FS_GetMsgFile"}

(* The stems n with a CASE(n) in OnTimer: an expired n_Req is answered with *)
(* n_Rsp and 0xfffe, any other expires in silence.                         *)
OnTimer_Cases ==
    {"Logout", "LogoutAll", "PushToken", "GetSubsribersStatus",
     "SetUserStatus", "GetRouteDirection", "SetRouteDirection", "Dial",
     "Cancel", "PushClearCalls", "CallsBadge", "Msg", "Rep", "DelMsg",
     "BL_Add", "BL_Del", "BL_Get", "CS_PutMe", "CS_GetMe", "CS_PutContacts",
     "CS_DelContacts", "CS_GetProfiles", "CS_GetContacts",
     "CS_GetContactsHistory", "Chat_CheckList", "Chat_GetList",
     "Chat_GetInfo", "Chat_CreatePrivate", "Chat_CreateGroup", "Chat_Delete",
     "Chat_AddNum", "Chat_DelNum", "Chat_SetName", "Chat_SetAvatar",
     "Chat_GetMsgs", "Chat_GetMsgsRepFinal", "Chat_GetMsgsRepRead",
     "Chat_GetMsgsDel", "Chat_NotRead", "Chat_ReadAll", "FS_PutAvatar",
     "FS_GetAvatar", "FS_PutChatAvatar", "FS_GetChatAvatar", "FS_PutMsgFile",
     "FS_GetMsgFile", "Billing_Balance"}

=============================================================================
