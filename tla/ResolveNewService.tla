-------------------------- MODULE ResolveNewService --------------------------
(* Resolves a new service account, src/plugins/helpers/                    *)
(* access_management_req_resolv_new_service_account.py: the requester and  *)
(* the FO on shift get the password.                                       *)
EXTENDS ApprovedRequest

NewServiceFetchActivity(f) == Fetches(f, "fetch", "approved")
NewServiceAdProcess(f) == RunsScript(f, {"finished", "garbled"})
NewServiceRsUpdate(f) == Completes(f)
NewServiceNotification(f) == Tells(f, "rs_update")
NewServiceCheckShift(f) == LooksUpShift(f, "notify")
NewServiceFoMail(f) == TellsShift(f)
NewServiceWoComment(f) == Comments(f, "fo_mail")
NewServiceWoStatus(f) == Closes(f)

NewServiceWoCommentErrStatus(f) ==
  RecordsError(f, "comment_err_status", "wo_comment", "comment remarks")
NewServiceWoCommentErrMail(f) ==
  TellsError(f, "comment_err_mail", "comment_err_status", {"status remarks"})
NewServiceWoStatusErrStatus(f) ==
  RecordsError(f, "status_err_status", "wo_status", "status remarks")
NewServiceWoStatusErrMail(f) ==
  TellsError(f, "status_err_mail", "status_err_status", {"status remarks"})

NewServiceNonFinishedMail(f) == TellsAdError(f)
NewServiceNonFinishedStatus(f) == RecordsAdError(f)
NewServiceDecryptionFailedStatus(f) == RecordsGarbled(f, "Error in Process")
NewServiceDecryptionFailedMail(f) == TellsGarbled(f)

NewServiceStep(f) ==
  \/ Approved(f) \/ NewServiceFetchActivity(f) \/ NewServiceAdProcess(f)
  \/ NewServiceRsUpdate(f)
  \/ NewServiceNotification(f) \/ NewServiceCheckShift(f)
  \/ NewServiceFoMail(f) \/ NewServiceWoComment(f) \/ NewServiceWoStatus(f)
  \/ NewServiceWoCommentErrStatus(f) \/ NewServiceWoCommentErrMail(f)
  \/ NewServiceWoStatusErrStatus(f) \/ NewServiceWoStatusErrMail(f)
  \/ NewServiceNonFinishedMail(f) \/ NewServiceNonFinishedStatus(f)
  \/ NewServiceDecryptionFailedStatus(f) \/ NewServiceDecryptionFailedMail(f)
=============================================================================
