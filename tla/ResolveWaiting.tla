---------------------------- MODULE ResolveWaiting ----------------------------
(***************************************************************************)
(* A run that finds its request still waiting,                             *)
(* src/plugins/helpers/access_management_req_resolv_common.py: for an      *)
(* answer of the requester, for the approvers of its SR, or no longer,     *)
(* because they rejected it.  Every run mails a reminder and counts it in  *)
(* the remarks of the row, in a window of time of its own; with two of     *)
(* them counted, a later run hands the request over to the FO.             *)
(***************************************************************************)
EXTENDS RequestResolution

\* Task t follows u, and is on the branch for what is due.
IsDue(f, t, u, flag) == Follows(f, t, u) /\ xcom[f]["check"].flag = flag

\* UPDATE ... SET u_remarks = "Send Follow-up Email. " and the remarks that
\* have n - 1 of them.  The status is left alone.
SetRemarks(f, n) ==
  /\ emails' = n
  /\ written' = written \cup {[run |-> f, status |-> "reminded", pw |-> NoPw]}
  /\ UNCHANGED status

\* Mutant: the remarks are extended in the table, not from what was read.
RemindsAgain(f, t, u) ==
  LET d == xcom[f][u]
  IN  /\ Follows(f, t, u)
      /\ \/ SetRemarks(f, emails + 1) /\ Returns(f, t, d)
         \/ SetRemarks(f, emails + 1) /\ Breaks(f, t)
      /\ UNCHANGED <<age, ad, itsm, mails>>

\* The remarks are those that the run read first: to try again is to write the
\* same, and what another run wrote since is lost.
Reminds(f, t, u) ==
  LET d == xcom[f][u]
  IN  /\ Follows(f, t, u)
      /\ \/ Needs(f, t, u) /\ UNCHANGED row
         \/ Given(f, u) /\ SetRemarks(f, d.emails + 1) /\ Returns(f, t, d)
         \/ /\ Given(f, u)
            /\ SetRemarks(f, d.emails + 1) \/ UNCHANGED row
            /\ \/ Faults \cap {"db", "worklog"} # {} /\ Returns(f, t, d)
               \/ Breaks(f, t)
      /\ UNCHANGED <<age, ad, itsm, mails>>

HandsOver(f, t, u) ==
  LET d == xcom[f][u]
  IN  /\ Follows(f, t, u)
      /\ \/ Needs(f, t, u) /\ UNCHANGED row
         \/ Given(f, u) /\ Updates(f, t, "Completed", NoPw, 0, d, d, "return")
      /\ UNCHANGED <<age, ad, itsm, mails>>

-----------------------------------------------------------------------------
(* Waiting for an answer of the requester                                  *)

FetchForResponse(f) ==
  /\ Follows(f, "fetch_waiting", "check")
  /\ Reads(f, "fetch_waiting", "check", xcom[f]["check"])
  /\ UNCHANGED <<row, age, ad, itsm, mails>>

\* Mutant: the mail that fails is passed over.
ResponseMailLenient(f, t, flag, kind) ==
  /\ IsDue(f, t, "fetch_waiting", flag)
  /\ Sends(f, t, xcom[f]["fetch_waiting"], kind, "return")
  /\ UNCHANGED <<row, age, ad, itsm>>

\* A mail that fails is tried again; with nobody to send it to, the task
\* returns, and the row is left alone.
ResponseMail(f, t, flag, kind) ==
  LET u == "fetch_waiting"
  IN  /\ IsDue(f, t, u, flag)
      /\ \/ Stops(f, t, u) /\ UNCHANGED mails
         \/ Returns(f, t, NoData) /\ UNCHANGED mails
         \/ Sends(f, t, xcom[f][u], kind, "raise")
      /\ UNCHANGED <<row, age, ad, itsm>>

ResponseFlag1Mail(f) == ResponseMail(f, "follow_up_mail", 1, "follow_up")
ResponseFlag1Update(f) == Reminds(f, "follow_up", "follow_up_mail")
ResponseFlag2Mail(f) == ResponseMail(f, "handover_mail", 2, "handover")
ResponseFlag2Update(f) == HandsOver(f, "handover", "handover_mail")

AwaitingStep(f) ==
  \/ FetchForResponse(f)
  \/ ResponseFlag1Mail(f) \/ ResponseFlag1Update(f)
  \/ ResponseFlag2Mail(f) \/ ResponseFlag2Update(f)

-----------------------------------------------------------------------------
(* Waiting for the approvers of the SR                                     *)

FetchForReminder(f) ==
  LET u == "check_wo"
  IN  /\ Branched(f, "fetch_waiting", u, "wo", "false")
      /\ Reads(f, "fetch_waiting", u, xcom[f][u])
      /\ UNCHANGED <<row, age, ad, itsm, mails>>

\* Goes on without approvers when they cannot be looked up.  If only their
\* addresses are missing, or fields of the request, the next task gets nothing.
FetchApprover(f) ==
  LET t == "approver"
      u == "fetch_waiting"
  IN  /\ Follows(f, t, u)
      /\ \/ Stops(f, t, u)
         \/ Returns(f, t, xcom[f][u])
         \/ Returns(f, t, NoData)
         \/ Breaks(f, t)
      /\ UNCHANGED <<row, age, ad, itsm, mails>>

\* A mail that fails is reported and passed over.
ReminderMail(f, t, flag, kind) ==
  LET u == "approver"
  IN  /\ IsDue(f, t, u, flag)
      /\ \/ Stops(f, t, u) /\ UNCHANGED mails
         \/ Given(f, u) /\ Sends(f, t, xcom[f][u], kind, "return")
      /\ UNCHANGED <<row, age, ad, itsm>>

ReminderFlag1Mail(f) == ReminderMail(f, "follow_up_mail", 1, "follow_up")
ReminderFlag1Update(f) == Reminds(f, "follow_up", "follow_up_mail")
ReminderFlag2Mail(f) == ReminderMail(f, "handover_mail", 2, "handover")
ReminderFlag2Update(f) == HandsOver(f, "handover", "handover_mail")

WaitingStep(f) ==
  \/ FetchForReminder(f) \/ FetchApprover(f)
  \/ ReminderFlag1Mail(f) \/ ReminderFlag1Update(f)
  \/ ReminderFlag2Mail(f) \/ ReminderFlag2Update(f)

-----------------------------------------------------------------------------
(* The approvers rejected it                                               *)

CancelStatus(f) ==
  LET t == "cancel_status"
      u == "check_wo"
      d == xcom[f][u]
  IN  /\ Branched(f, t, u, "wo", "cancel")
      /\ \/ Opens(f, t, u) /\ UNCHANGED row
         \/ Updates(f, t, "SR approval Rejected.", NoPw, 0, d, d, "raise")
      /\ UNCHANGED <<age, ad, itsm, mails>>

CancelMail(f) ==
  /\ Follows(f, "cancel_mail", "cancel_status")
  /\ MailsOn(f, "cancel_mail", "cancel_status", "rejected", TRUE)
  /\ UNCHANGED <<row, age, ad, itsm>>

RejectedStep(f) == CancelStatus(f) \/ CancelMail(f)
===============================================================================
