----------------------------- MODULE ApiObjects -----------------------------
(***************************************************************************)
(* The classes of pl_api.h: for each the members and how many bytes they   *)
(* hold.  A Function is what the application sends, an Object what it      *)
(* receives.  Strings and vectors hold as much as they are given.          *)
(***************************************************************************)
EXTENDS Integers, TLC

CONSTANTS
    TxMax,  \* PAPI_TxFileFragmetMaxSize: 30000
    RxMax   \* PAPI_RxFileFragmetMaxSize, PAPI_TestFragmetMaxSize: 60000

Text == -1
List == -2

None == << >>
JustRsp == [rsp |-> 2]

-----------------------------------------------------------------------------
(* Structures inside the objects *)

Msg == [msg_index |-> 8, sm_id |-> 8, sour_num |-> Text, dest_num |-> Text,
        submit_date_time |-> Text, done_date_time |-> Text, view_date_time |-> Text,
        state |-> 1, type |-> 1, status |-> 1, file_type |-> 1, file_hash |-> 4,
        service |-> 1, channel |-> 1, text |-> Text]

Chat == [hindex |-> 8, del |-> 1, state |-> 1, name |-> Text, avatar |-> Text,
         chat_private |-> 1, chat_id |-> 8, msg_index_last |-> 8, start_msg_index |-> 8,
         msgs_count |-> 8, msgs_del |-> 8, msgs_rep_final |-> 8, msgs_rep_read |-> 8,
         not_viewed |-> 4, nums |-> List, nums_del |-> List, msgs |-> List]

Contact == [num |-> Text, rnum |-> Text, name |-> Text, fname |-> Text, lname |-> Text,
            avatar |-> Text, messenger |-> 1, hindex |-> 8]

-----------------------------------------------------------------------------
(* Functions *)

FS_PutFile_Req == [full_size |-> 8, offset |-> 8, file_ext |-> Text, hash |-> 4, len |-> 8,
                   bin |-> TxMax]
FS_GetFile_Req == [offset |-> 8, hash |-> 4, thumbnail |-> 1, len |-> 8]

RegistrarFunctions ==
    [Logout_Req |-> None, LogoutAll_Req |-> None,
     PushToken_Req |-> [token |-> Text, token_voip |-> Text],
     GetSubsribersStatus_Req |-> None, SetUserStatus_Req |-> [status |-> 2]]

RouteFunctions == [GetRouteDirection_Req |-> None, SetRouteDirection_Req |-> [direction |-> 1]]

ServiceFunctions ==
    [Ping_Req |-> None, Ping_Cnf |-> JustRsp,
     TestMsg_Req |-> [req_id |-> 4, len |-> 4, data |-> RxMax, loop |-> 1],
     TestMsg_Cnf |-> [rsp |-> 2, req_id |-> 4, len |-> 4, data |-> RxMax]]

DialFunctions ==
    [Dial_Req |-> [snum |-> Text, dnum |-> Text, call_id |-> Text, channel |-> 1],
     Dial_Cnf |-> [rsp |-> 2, snum |-> Text, dnum |-> Text, call_id |-> Text],
     Cancel_Req |-> [snum |-> Text, dnum |-> Text, call_id |-> Text],
     PushClearCalls_Req |-> None, CallsBadge_Req |-> None]

MessageFunctions ==
    LET cnf == [rsp |-> 2, chat_id |-> 8, sm_id |-> 8, msg_index |-> 8, snum |-> Text,
                dnum |-> Text]
    IN  [Msg_Req |-> [chat_id |-> 8, chat_private |-> 1, snum |-> Text, dnum |-> Text,
                      text |-> Text, channel |-> 1, file_type |-> 1, file_hash |-> 4,
                      repeat |-> 1],
         Msg_Cnf |-> cnf,
         Rep_Req |-> [chat_id |-> 8, chat_private |-> 1, snum |-> Text, dnum |-> Text,
                      sm_id |-> 8, msg_index |-> 8, status |-> 1],
         Rep_Cnf |-> cnf @@ [status |-> 1],
         DelMsg_Req |-> [chat_id |-> 8, sm_id |-> 8, msg_index |-> 8, type |-> 1],
         Typing_Req |-> [chat_id |-> 8, chat_private |-> 1, dnum |-> Text, type |-> 1]]

CSFunctions ==
    [CS_PutMe_Req |-> [name |-> Text, avatar |-> Text, lang |-> Text, pinbot |-> 1],
     CS_GetMe_Req |-> None,
     CS_PutContacts_Req |-> [contacts |-> List], CS_DelContacts_Req |-> [contacts |-> List],
     CS_GetProfiles_Req |-> [index |-> 8], CS_GetContacts_Req |-> [index |-> 8],
     CS_GetContactsHistory_Req |-> [index |-> 8]]

ChatFunctions ==
    [Chat_CheckList_Req |-> [index |-> 8], Chat_GetList_Req |-> [index |-> 8],
     Chat_GetInfo_Req |-> [chat_id |-> 8],
     Chat_CreatePrivate_Req |-> [number |-> Text],
     Chat_CreateGroup_Req |-> [name |-> Text, numbers |-> List],
     Chat_Delete_Req |-> [chat_id |-> 8],
     Chat_AddNum_Req |-> [chat_id |-> 8, numbers |-> List],
     Chat_DelNum_Req |-> [chat_id |-> 8, numbers |-> List]]

ChatMsgsFunctions ==
    LET which == [chat_id |-> 8, msg_index |-> 8, msg_index_stop |-> 8, count |-> 4, dir |-> 1]
        dates == [dt_start |-> Text, dt_stop |-> Text]
    IN  [Chat_SetName_Req |-> [chat_id |-> 8, name |-> Text],
         Chat_SetAvatar_Req |-> [chat_id |-> 8, avatar |-> Text],
         Chat_GetMsgs_Req |-> which, Chat_GetMsgsDel_Req |-> which @@ dates,
         Chat_GetMsgsRepFinal_Req |-> which @@ dates @@ [full_msg |-> 1],
         Chat_GetMsgsRepRead_Req |-> which @@ dates @@ [full_msg |-> 1],
         Chat_NotRead_Req |-> [chat_id |-> 8],
         Chat_ReadAll_Req |-> [chat_id |-> 8, msg_index |-> 8]]

BlackListFunctions ==
    [BL_Add_Req |-> [block_user |-> Text], BL_Del_Req |-> [block_user |-> Text],
     BL_Get_Req |-> None]

FSFunctions ==
    [FS_PutAvatar_Req |-> FS_PutFile_Req, FS_GetAvatar_Req |-> FS_GetFile_Req @@ [number |-> Text],
     FS_PutChatAvatar_Req |-> FS_PutFile_Req @@ [chat_id |-> 8],
     FS_GetChatAvatar_Req |-> FS_GetFile_Req @@ [chat_id |-> 8],
     FS_PutMsgFile_Req |-> FS_PutFile_Req @@ [sm_id |-> 8],
     FS_GetMsgFile_Req |-> FS_GetFile_Req @@ [sm_id |-> 8],
     Billing_Balance_Req |-> None]

Functions_ == RegistrarFunctions @@ RouteFunctions @@ ServiceFunctions @@ DialFunctions
              @@ MessageFunctions @@ CSFunctions @@ ChatFunctions @@ ChatMsgsFunctions
              @@ BlackListFunctions @@ FSFunctions

-----------------------------------------------------------------------------
(* Objects *)

FS_PutFile_Rsp == [rsp |-> 2, file_ext |-> Text, post_size |-> 8, offset |-> 8]

FS_GetFile_Rsp == [rsp |-> 2, full_size |-> 8, offset |-> 8, file_ext |-> Text, len |-> 2,
                   bin |-> RxMax]

RegistrarObjects ==
    [Logout_Rsp |-> JustRsp, LogoutAll_Rsp |-> JustRsp, PushToken_Rsp |-> JustRsp,
     GetSubsribersStatus_Rsp |-> JustRsp,
     ContactStatus_Ind |-> [num |-> Text, status |-> 1, status_data_time |-> Text],
     ContactUserStatus_Ind |-> [num |-> Text, user_status |-> 1, user_status_data_time |-> Text],
     SetUserStatus_Rsp |-> JustRsp]

ServiceObjects ==
    [Ping_Rsp |-> JustRsp, Ping_Ind |-> None,
     TestMsg_Rsp |-> [rsp |-> 2, req_id |-> 4, len |-> 4, data |-> RxMax],
     TestMsg_Ind |-> [req_id |-> 4, len |-> 4, data |-> RxMax, loop |-> 1],
     GetRouteDirection_Rsp |-> [rsp |-> 2, direction |-> 1], SetRouteDirection_Rsp |-> JustRsp]

(* Mutant: the number of calls is kept in a byte. *)
DialObjects_Narrow ==
    [Dial_Rsp |-> [rsp |-> 2, snum |-> Text, dnum |-> Text, voice_server |-> Text,
                   call_id |-> Text],
     Dial_Ind |-> [snum |-> Text, dnum |-> Text, voice_server |-> Text, call_id |-> Text],
     Cancel_Rsp |-> [rsp |-> 2, snum |-> Text, dnum |-> Text, call_id |-> Text],
     PushClearCalls_Rsp |-> JustRsp, CallsBadge_Rsp |-> [rsp |-> 2, badge |-> 1]]

DialObjects ==
    [Dial_Rsp |-> [rsp |-> 2, snum |-> Text, dnum |-> Text, voice_server |-> Text,
                   call_id |-> Text],
     Dial_Ind |-> [snum |-> Text, dnum |-> Text, voice_server |-> Text, call_id |-> Text],
     Cancel_Rsp |-> [rsp |-> 2, snum |-> Text, dnum |-> Text, call_id |-> Text],
     PushClearCalls_Rsp |-> JustRsp, CallsBadge_Rsp |-> [rsp |-> 2, badge |-> 4]]

MessageObjects ==
    LET ids == [chat_id |-> 8, sm_id |-> 8, msg_index |-> 8]
        nums == [snum |-> Text, dnum |-> Text]
    IN  [Msg_Rsp |-> JustRsp @@ ids @@ nums @@ [submit_date_time |-> Text, channel |-> 1],
         Msg_Ind |-> ids @@ nums @@ [chat_private |-> 1, text |-> Text,
                     submit_date_time |-> Text, channel |-> 1, file_type |-> 1,
                     file_hash |-> 4, buttons |-> List],
         Rep_Rsp |-> JustRsp @@ ids @@ nums @@ [status |-> 1],
         Rep_Ind |-> ids @@ nums @@ [status |-> 1, date_time |-> Text],
         DelMsg_Rsp |-> JustRsp @@ ids,
         Typing_Ind |-> [chat_id |-> 8, snum |-> Text, type |-> 1]]

CSObjects ==
    LET contacts == [rsp |-> 2, contacts |-> List, last |-> 1]
    IN  [CS_PutMe_Rsp |-> JustRsp,
         CS_GetMe_Rsp |-> [rsp |-> 2, name |-> Text, avatar |-> Text, pinbot |-> 1],
         CS_PutContacts_Rsp |-> [rsp |-> 2, contacts |-> List], CS_DelContacts_Rsp |-> JustRsp,
         CS_GetProfiles_Rsp |-> contacts, CS_GetContacts_Rsp |-> contacts,
         CS_GetContactsHistory_Rsp |-> contacts]

ChatObjects ==
    LET changed == [rsp |-> 2, chat_id |-> 8, hindex |-> 8]
    IN  [Chat_CheckList_Rsp |-> JustRsp,
         Chat_GetList_Rsp |-> [rsp |-> 2, chats |-> List, server_dt |-> Text],
         Chat_GetInfo_Rsp |-> [rsp |-> 2, chat_id |-> 8, chats |-> List],
         Chat_CreatePrivate_Rsp |-> changed @@ [start_msg_ibdex |-> 8, numbers |-> List],
         Chat_CreateGroup_Rsp |-> changed @@ [numbers |-> List],
         Chat_Delete_Rsp |-> changed, Chat_AddNum_Rsp |-> changed]

ChatMsgsObjects ==
    LET changed == [rsp |-> 2, chat_id |-> 8, hindex |-> 8]
        msgs == [rsp |-> 2, chat_id |-> 8, msgs |-> List]
    IN  [Chat_DelNum_Rsp |-> changed, Chat_SetName_Rsp |-> changed,
         Chat_SetAvatar_Rsp |-> changed, Chat_GetMsgs_Rsp |-> msgs,
         Chat_GetMsgsDel_Rsp |-> msgs, Chat_GetMsgsRepFinal_Rsp |-> msgs,
         Chat_GetMsgsRepRead_Rsp |-> msgs,
         Chat_ChangeInfo_Ind |-> [index |-> 8, chat_id |-> 8, change_type |-> 1,
                                  chat_info |-> 1, chat |-> List],
         Chat_NotRead_Rsp |-> [rsp |-> 2, chat_id |-> 8, not_read |-> 4],
         Chat_ReadAll_Rsp |-> [rsp |-> 2, chat_id |-> 8]]

BlackListObjects ==
    [BL_Add_Rsp |-> JustRsp, BL_Del_Rsp |-> JustRsp, BL_Get_Rsp |-> [rsp |-> 2, list |-> List]]

FSObjects ==
    [FS_PutAvatar_Rsp |-> FS_PutFile_Rsp, FS_GetAvatar_Rsp |-> FS_GetFile_Rsp,
     FS_PutChatAvatar_Rsp |-> FS_PutFile_Rsp @@ [chat_id |-> 8],
     FS_GetChatAvatar_Rsp |-> FS_GetFile_Rsp @@ [chat_id |-> 8],
     FS_PutMsgFile_Rsp |-> FS_PutFile_Rsp @@ [sm_id |-> 8],
     FS_GetMsgFile_Rsp |-> FS_GetFile_Rsp @@ [sm_id |-> 8],
     Billing_Balance_Rsp |-> [rsp |-> 2, balance |-> Text]]

Objects == RegistrarObjects @@ ServiceObjects @@ DialObjects @@ MessageObjects @@ CSObjects
           @@ ChatObjects @@ ChatMsgsObjects @@ BlackListObjects @@ FSObjects
           @@ [Msg |-> Msg, Chat |-> Chat, Contact |-> Contact]

=============================================================================
