--------------------------- MODULE OtherRequestFlow ---------------------------
(***************************************************************************)
(* The service-request flow of a service account's password reset and of   *)
(* other requests, src/plugins/helpers/                                    *)
(* access_management_sr_helper_other_requests_flow.py.  Nobody asks the AD *)
(* script: an SR is created, given its work info, recorded and announced,  *)
(* and with that the request is completed.  Only the creation returns when *)
(* it fails; all other tasks raise.                                        *)
(***************************************************************************)
EXTENDS AccessRequest

OtherFetchActivity(f) ==
  /\ Follows(f, "fetch", "intake")
  /\ Reads(f, "fetch")
  /\ UNCHANGED <<row, world, about>>

\* No row, or a request without an approver or a manager, is raised.  What is
\* pushed before the call has no result.
OtherSrCreation(f) ==
  LET t == "sr_creation"
      d == xcom[f]["fetch"]
  IN  /\ Follows(f, t, "fetch")
      /\ \/ /\ Opens(f, t, "fetch") \/ Raises(f, t, NoData)
            /\ UNCHANGED srs
         \/ Given(f, "fetch") /\ HasRow(f) /\ Creates(f, t, d, NoResult)
      /\ UNCHANGED <<row, noted, mails, about>>

OtherSrWorklog(f) ==
  LET t == "sr_worklog"
      d == xcom[f]["sr_creation"]
  IN  /\ Follows(f, t, "sr_creation")
      /\ \/ /\ Opens(f, t, "sr_creation") \/ Breaks(f, t)
            /\ UNCHANGED noted
         \/ Given(f, "sr_creation") /\ WorkInfo(f, t, d, "raise")
      /\ UNCHANGED <<row, srs, mails, about>>

OtherActivityUpdate(f) ==
  LET t == "activity_update"
      d == xcom[f]["sr_worklog"]
  IN  /\ Follows(f, t, "sr_worklog")
      /\ \/ Opens(f, t, "sr_worklog") /\ UNCHANGED row
         \/ /\ Given(f, "sr_worklog")
            /\ Updates(f, t, d, "Completed", SrOf(f, d.sr), "raise")
      /\ UNCHANGED <<world, about>>

OtherSrMail(f) ==
  LET t == "sr_mail"
      d == xcom[f]["activity_update"]
  IN  /\ Follows(f, t, "activity_update")
      /\ \/ Opens(f, t, "activity_update") /\ UNCHANGED mails
         \/ /\ Given(f, "activity_update")
            /\ Mails(f, t, d, "filed", SrOf(f, d.sr))
      /\ UNCHANGED <<row, srs, noted, about>>

-----------------------------------------------------------------------------
(* The creation of the SR failed                                           *)

\* It looks at the process id only, so that it also goes on when the creation
\* left no result.
OtherSrFailedStatus(f) ==
  LET t == "sr_failed_status"
      d == xcom[f]["sr_creation"]
  IN  /\ task[f][t] = "none"
      /\ task[f]["sr_creation"] = "failed" \/ d.sr = Failed
      /\ \/ Opens(f, t, "sr_creation") /\ UNCHANGED row
         \/ /\ Given(f, "sr_creation")
            /\ Updates(f, t, d, "Error in ITSM Process", srNo[about[f]], "raise")
      /\ UNCHANGED <<world, about>>

OtherSrFailedMail(f) ==
  LET t == "sr_failed_mail"
      d == xcom[f]["sr_failed_status"]
  IN  /\ Follows(f, t, "sr_failed_status")
      /\ \/ Opens(f, t, "sr_failed_status") /\ UNCHANGED mails
         \/ Given(f, "sr_failed_status") /\ Mails(f, t, d, "sr_failed", {})
      /\ UNCHANGED <<row, srs, noted, about>>

-----------------------------------------------------------------------------
OtherStep(f) ==
  \/ Intake(f) \/ OtherFetchActivity(f)
  \/ OtherSrCreation(f) \/ OtherSrWorklog(f) \/ OtherActivityUpdate(f)
  \/ OtherSrMail(f)
  \/ OtherSrFailedStatus(f) \/ OtherSrFailedMail(f)
=============================================================================
