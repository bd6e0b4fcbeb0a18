---------------------------- MODULE MCTimerTables ----------------------------
(* MCRequestTimers with the hypothesis of the theorems AnswersMatch and     *)
(* PendingAreTimed of RequestTimersProofs, for every request of the API:    *)
(* the handlers, BinStream and OnTimer name the same answer.                *)
EXTENDS MCRequestTimers

ASSUME TablesAgreeHere == TablesAgree(AllNames)
=============================================================================
