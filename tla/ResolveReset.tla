---------------------------- MODULE ResolveReset ----------------------------
(* Resolves a password reset, src/plugins/helpers/                         *)
(* access_management_req_resolv_user_passwd_reset.py: the requester is     *)
(* told by the FO, which gets the new password.                            *)
EXTENDS ApprovedRequest

ResetFetchActivity(f) == Fetches(f, "fetch", "approved")
ResetAdProcess(f) == RunsScript(f, {"finished", "garbled"})
ResetRsUpdate(f) == Completes(f)
ResetCheckShift(f) == LooksUpShift(f, "rs_update")
ResetFoMail(f) == TellsShift(f)
ResetWoComment(f) == Comments(f, "fo_mail")
ResetWoStatus(f) == Closes(f)

ResetWoCommentErrStatus(f) ==
  RecordsError(f, "comment_err_status", "wo_comment", "comment remarks")
ResetWoCommentErrMail(f) ==
  TellsError(f, "comment_err_mail", "comment_err_status", {"status remarks"})
ResetWoStatusErrStatus(f) ==
  RecordsError(f, "status_err_status", "wo_status", "status remarks")
ResetWoStatusErrMail(f) ==
  TellsError(f, "status_err_mail", "status_err_status", {"status remarks"})

ResetNonFinishedMail(f) == TellsAdError(f)
ResetNonFinishedStatus(f) == RecordsAdError(f)
ResetDecryptionFailedStatus(f) == RecordsGarbled(f, "Error in Decryption")
ResetDecryptionFailedMail(f) == TellsGarbled(f)

ResetStep(f) ==
  \/ Approved(f) \/ ResetFetchActivity(f) \/ ResetAdProcess(f)
  \/ ResetRsUpdate(f)
  \/ ResetCheckShift(f) \/ ResetFoMail(f) \/ ResetWoComment(f)
  \/ ResetWoStatus(f)
  \/ ResetWoCommentErrStatus(f) \/ ResetWoCommentErrMail(f)
  \/ ResetWoStatusErrStatus(f) \/ ResetWoStatusErrMail(f)
  \/ ResetNonFinishedMail(f) \/ ResetNonFinishedStatus(f)
  \/ ResetDecryptionFailedStatus(f) \/ ResetDecryptionFailedMail(f)
=============================================================================
