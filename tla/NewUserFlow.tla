----------------------------- MODULE NewUserFlow -----------------------------
(***************************************************************************)
(* The service-request flow of a new user account, src/plugins/helpers/    *)
(* access_management_sr_helper_new_user_acc_flow.py.  The AD script says   *)
(* whether the user exists already ("blocked"); if not, an SR is created,  *)
(* given its work info, recorded and announced to the requester and the    *)
(* approvers.  Unlike those of a password reset, most of these tasks       *)
(* return when they fail: what they did not do is only in their XCom.      *)
(***************************************************************************)
EXTENDS AccessRequest

NewUserFetchActivity(f) ==
  /\ Follows(f, "fetch", "intake")
  /\ Reads(f, "fetch")
  /\ UNCHANGED <<row, world, about>>

\* Asks whether there is such a user already.
NewUserAdConnect(f) ==
  /\ Follows(f, "ad_connect", "fetch")
  /\ Asks(f, "ad_connect", {"clear", "blocked", "error"})
  /\ UNCHANGED <<row, world, about>>

\* The notes are pushed first.  A call that fails, or whose answer makes no
\* sense, is pushed as such and the task returns, although the ticket system
\* may have created the SR.  No row, or one without a manager, is raised.
NewUserSrCreation(f) ==
  LET t == "sr_creation"
      d == xcom[f]["ad_connect"]
  IN  /\ Branched(f, t, "clear")
      /\ \/ /\ Opens(f, t, "ad_connect") \/ Raises(f, t, NoData)
            /\ UNCHANGED srs
         \/ /\ Given(f, "ad_connect") /\ HasRow(f)
            /\ Creates(f, t, d, NotesOnly)
      /\ UNCHANGED <<row, noted, mails, about>>

\* Mutant: the work info is written whatever became of the SR, and the flow
\* goes on with the number of the first try.
NewUserSrWorklogAnyway(f) ==
  LET t == "sr_worklog"
      d == xcom[f]["sr_creation"]
  IN  /\ Follows(f, t, "sr_creation")
      /\ Given(f, "sr_creation")
      /\ noted' = noted \cup (SrOf(f, 1) \cap srs)
      /\ Returns(f, t, [d EXCEPT !.sr = 1])
      /\ UNCHANGED <<row, srs, mails, about>>

\* The work info: a result without a number is a KeyError, and any failure
\* after that is pushed, and passed over.
NewUserSrWorklog(f) ==
  LET t == "sr_worklog"
      d == xcom[f]["sr_creation"]
  IN  /\ Follows(f, t, "sr_creation")
      /\ \/ /\ Stops(f, t, "sr_creation") \/ Breaks(f, t)
            /\ UNCHANGED noted
         \/ Given(f, "sr_creation") /\ WorkInfo(f, t, d, "return")
      /\ UNCHANGED <<row, srs, mails, about>>

\* Mutant: the row gets the number of the first try.
NewUserActivityUpdateFirst(f) ==
  LET t == "activity_update"
      d == xcom[f]["sr_worklog"]
  IN  /\ Follows(f, t, "sr_worklog")
      /\ \/ Stops(f, t, "sr_worklog") /\ UNCHANGED row
         \/ /\ Given(f, "sr_worklog")
            /\ Updates(f, t, d, "SR Submitted", SrOf(f, 1), "return")
      /\ UNCHANGED <<world, about>>

NewUserActivityUpdate(f) ==
  LET t == "activity_update"
      d == xcom[f]["sr_worklog"]
  IN  /\ Follows(f, t, "sr_worklog")
      /\ \/ /\ Stops(f, t, "sr_worklog") \/ Breaks(f, t)
            /\ UNCHANGED row
         \/ /\ Given(f, "sr_worklog")
            /\ Updates(f, t, d, "SR Submitted", SrOf(f, d.sr), "return")
      /\ UNCHANGED <<world, about>>

\* Approvers that are not found are pushed as such, and the flow goes on.
NewUserFetchApprover(f) ==
  LET t == "approver"
      d == xcom[f]["activity_update"]
  IN  /\ Follows(f, t, "activity_update")
      /\ \/ Opens(f, t, "activity_update")
         \/ Given(f, "activity_update") /\ Returns(f, t, d)
         \/ Breaks(f, t)
      /\ UNCHANGED <<row, world, about>>

\* An empty field of the request is enough for no mail to be sent.
NewUserSrMail(f) ==
  LET t == "sr_mail"
      d == xcom[f]["approver"]
  IN  /\ Follows(f, t, "approver")
      /\ \/ /\ Stops(f, t, "approver") \/ Returns(f, t, NoData)
            /\ UNCHANGED mails
         \/ Given(f, "approver") /\ Mails(f, t, d, "submitted", SrOf(f, d.sr))
      /\ UNCHANGED <<row, srs, noted, about>>

-----------------------------------------------------------------------------
(* The user exists: the requester is told, then the request is completed   *)

NewUserExistingUserMail(f) ==
  LET t == "blocked_mail"
      d == xcom[f]["ad_connect"]
  IN  /\ Branched(f, t, "blocked")
      /\ \/ Opens(f, t, "ad_connect") /\ UNCHANGED mails
         \/ Mails(f, t, d, "blocked", {})
      /\ UNCHANGED <<row, srs, noted, about>>

\* Mutant: the request is completed first.
NewUserExistingUserStatusFirst(f) ==
  LET t == "blocked_status"
      d == xcom[f]["ad_connect"]
  IN  /\ Branched(f, t, "blocked")
      /\ Updates(f, t, d, "Completed", srNo[about[f]], "return")
      /\ UNCHANGED <<world, about>>

NewUserExistingUserStatus(f) ==
  LET t == "blocked_status"
      d == xcom[f]["blocked_mail"]
  IN  /\ Follows(f, t, "blocked_mail")
      /\ \/ /\ Stops(f, t, "blocked_mail") \/ Breaks(f, t)
            /\ UNCHANGED row
         \/ /\ Given(f, "blocked_mail")
            /\ Updates(f, t, d, "Completed", srNo[about[f]], "return")
      /\ UNCHANGED <<world, about>>

(* The AD script failed                                                    *)

NewUserAdErrorStatus(f) ==
  LET t == "ad_error_status"
      d == xcom[f]["ad_connect"]
  IN  /\ Branched(f, t, "error")
      /\ \/ Stops(f, t, "ad_connect") /\ UNCHANGED row
         \/ Updates(f, t, d, "Error in check AD process", srNo[about[f]], "return")
      /\ UNCHANGED <<world, about>>

NewUserAdErrorMail(f) ==
  LET t == "ad_error_mail"
      d == xcom[f]["ad_error_status"]
  IN  /\ Follows(f, t, "ad_error_status")
      /\ \/ Opens(f, t, "ad_error_status") /\ UNCHANGED mails
         \/ Given(f, "ad_error_status") /\ Mails(f, t, d, "ad_error", {})
      /\ UNCHANGED <<row, srs, noted, about>>

(* The creation of the SR failed                                           *)

NewUserSrFailedStatus(f) ==
  LET t == "sr_failed_status"
      d == xcom[f]["sr_creation"]
  IN  /\ task[f][t] = "none"
      /\ task[f]["sr_creation"] = "failed" \/ d.sr = Failed
      /\ \/ Opens(f, t, "sr_creation") /\ UNCHANGED row
         \/ /\ Given(f, "sr_creation")
            /\ Updates(f, t, d, "Error in ITSM Process", srNo[about[f]], "raise")
      /\ UNCHANGED <<world, about>>

NewUserSrFailedMail(f) ==
  LET t == "sr_failed_mail"
      d == xcom[f]["sr_failed_status"]
  IN  /\ Follows(f, t, "sr_failed_status")
      /\ \/ Opens(f, t, "sr_failed_status") /\ UNCHANGED mails
         \/ Given(f, "sr_failed_status") /\ Mails(f, t, d, "sr_failed", {})
      /\ UNCHANGED <<row, srs, noted, about>>

-----------------------------------------------------------------------------
NewUserStep(f) ==
  \/ Intake(f) \/ NewUserFetchActivity(f) \/ NewUserAdConnect(f) \/ Branch(f)
  \/ NewUserSrCreation(f) \/ NewUserSrWorklog(f) \/ NewUserActivityUpdate(f)
  \/ NewUserFetchApprover(f)
  \/ NewUserSrMail(f)
  \/ NewUserExistingUserMail(f) \/ NewUserExistingUserStatus(f)
  \/ NewUserAdErrorStatus(f) \/ NewUserAdErrorMail(f)
  \/ NewUserSrFailedStatus(f) \/ NewUserSrFailedMail(f)
=============================================================================
