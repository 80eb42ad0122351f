--------------------------- MODULE ResolveNewUser ---------------------------
(* Resolves a new user account, src/plugins/helpers/                       *)
(* access_management_req_resolv_new_user_account.py: an AD id is chosen    *)
(* for the user first, and the user is added to the user list last.        *)
EXTENDS ApprovedRequest

NewUserCreateAdid(f) == Fetches(f, "adid", "approved")
NewUserFetchActivity(f) == Fetches(f, "fetch", "adid")
NewUserAdProcess(f) == RunsScript(f, {"finished", "garbled"})
NewUserRsUpdate(f) == Completes(f)
NewUserNotification(f) == Tells(f, "rs_update")
NewUserCheckShift(f) == LooksUpShift(f, "notify")
NewUserFoMail(f) == TellsShift(f)
NewUserWoComment(f) == Comments(f, "fo_mail")
NewUserWoStatus(f) == Closes(f)

\* Never raises but for the worklog: the user may be missing in the list.
NewUserInsertUser(f) ==
  LET t == "user_list"
      d == xcom[f]["wo_status"]
  IN  /\ Branched(f, t, "wo_status", "last", "updated")
      /\ \/ Stops(f, t, "wo_status") /\ UNCHANGED users
         \/ users' = TRUE /\ Returns(f, t, d)
         \/ Returns(f, t, NoData) /\ UNCHANGED users      \* fields missing
         \/ /\ users' = TRUE \/ UNCHANGED users
            /\ \/ Faults \cap {"db", "worklog"} # {} /\ Returns(f, t, d)
               \/ Breaks(f, t)
      /\ UNCHANGED <<row, age, ad, noted, closed, mails>>

NewUserWoCommentErrStatus(f) ==
  RecordsError(f, "comment_err_status", "wo_comment", "comment remarks")
NewUserWoCommentErrMail(f) ==
  TellsError(f, "comment_err_mail", "comment_err_status", {"status remarks"})
NewUserWoStatusErrStatus(f) ==
  RecordsError(f, "status_err_status", "wo_status", "status remarks")
NewUserWoStatusErrMail(f) ==
  TellsError(f, "status_err_mail", "status_err_status", {"status remarks"})

NewUserNonFinishedMail(f) == TellsAdError(f)
NewUserNonFinishedStatus(f) == RecordsAdError(f)
NewUserDecryptionFailedStatus(f) == RecordsGarbled(f, "Error in Process")
NewUserDecryptionFailedMail(f) == TellsGarbled(f)

NewUserStep(f) ==
  \/ Approved(f) \/ NewUserCreateAdid(f) \/ NewUserFetchActivity(f)
  \/ NewUserAdProcess(f)
  \/ NewUserRsUpdate(f) \/ NewUserNotification(f) \/ NewUserCheckShift(f)
  \/ NewUserFoMail(f)
  \/ NewUserWoComment(f) \/ NewUserWoStatus(f) \/ NewUserInsertUser(f)
  \/ NewUserWoCommentErrStatus(f) \/ NewUserWoCommentErrMail(f)
  \/ NewUserWoStatusErrStatus(f) \/ NewUserWoStatusErrMail(f)
  \/ NewUserNonFinishedMail(f) \/ NewUserNonFinishedStatus(f)
  \/ NewUserDecryptionFailedStatus(f) \/ NewUserDecryptionFailedMail(f)
=============================================================================
