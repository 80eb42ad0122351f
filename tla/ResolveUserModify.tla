-------------------------- MODULE ResolveUserModify --------------------------
(* Resolves the modification of a user account, src/plugins/helpers/       *)
(* access_management_req_resolv_user_account_modification.py: a role is    *)
(* given or taken away, there is no password and the FO is not told.       *)
EXTENDS ApprovedRequest

ModifyFetchActivity(f) == Fetches(f, "fetch", "approved")
ModifyAdProcess(f) == RunsScript(f, {"finished"})
ModifyRsUpdate(f) == Completes(f)
ModifyNotification(f) == Tells(f, "rs_update")
ModifyWoComment(f) == Comments(f, "notify")
ModifyWoStatus(f) == Closes(f)

ModifyWoCommentErrStatus(f) ==
  RecordsError(f, "comment_err_status", "wo_comment", "comment remarks")
ModifyWoCommentErrMail(f) ==
  TellsError(f, "comment_err_mail", "comment_err_status", {"status remarks"})
ModifyWoStatusErrStatus(f) ==
  RecordsError(f, "status_err_status", "wo_status", "status remarks")
\* Wants no remarks, so that it is sent also when the row has no error.
ModifyWoStatusErrMail(f) ==
  TellsError(f, "status_err_mail", "status_err_status", {"status remarks", "failed"})

ModifyNonFinishedMail(f) == TellsAdError(f)
ModifyNonFinishedStatus(f) == RecordsAdError(f)

ModifyStep(f) ==
  \/ Approved(f) \/ ModifyFetchActivity(f) \/ ModifyAdProcess(f)
  \/ ModifyRsUpdate(f)
  \/ ModifyNotification(f) \/ ModifyWoComment(f) \/ ModifyWoStatus(f)
  \/ ModifyWoCommentErrStatus(f) \/ ModifyWoCommentErrMail(f)
  \/ ModifyWoStatusErrStatus(f) \/ ModifyWoStatusErrMail(f)
  \/ ModifyNonFinishedMail(f) \/ ModifyNonFinishedStatus(f)
=============================================================================
