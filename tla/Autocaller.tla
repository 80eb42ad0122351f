------------------------------ MODULE Autocaller ------------------------------
(***************************************************************************)
(* The autocaller: src/dags/trigger_autocaller_for_pulled_alerts.py, which *)
(* every five minutes takes the alerts that have a ticket out of Netcool,  *)
(* acknowledges them there and triggers one workflow for each, and         *)
(* src/dags/process_alert_initiate_autocaller.py, the workflow, which      *)
(* sends the mail that makes somebody's telephone ring.                    *)
(*                                                                         *)
(* Runs may overlap: nothing limits them to one.  Every task is tried      *)
(* twice, and what failed may have happened.  Netcool is external.  Of the *)
(* workflows a behaviour follows one, whichever: they share nothing.       *)
(***************************************************************************)
EXTENDS Integers, FiniteSets

CONSTANTS Alert,       \* alerts, of the severities and managers asked for
          Ticket,      \* their tickets
          Run,         \* runs of the trigger DAG
          MaxTries,    \* tries of a task (2 in the code)
          MaxFaults    \* bound: calls and tasks that fail

ASSUME BoundAssumption == MaxTries \in Nat \ {0} /\ MaxFaults \in Nat

VARIABLES
  ticket,    \* alert: its ticket; several alerts may have the same
  lacking,   \* alerts without a field that is needed
  padded,    \* alerts with blanks around the ticket number in their row
  present,   \* alerts that are in Netcool
  acked,     \* alerts whose Acknowledger is ENABLE
  pc,        \* run: where it stands
  tries,     \* run: tries of the present task that failed
  selected,  \* run: the alerts this try of the fetch has read
  alerts,    \* run: alerts, as pushed to XCom by the fetch
  todo,      \* run: alerts this try of the trigger has still to call
  taken,     \* history: alerts in a run's UPDATE, which it is to push
  lost,      \* history: those that no XCom has, as the try failed
  raced,     \* history: alerts in an UPDATE while another run had read them
  children,  \* workflows triggered
  watched,   \* the workflow that is followed
  step,      \* its next task
  ctries,    \* tries of that task that failed
  sent,      \* its mail was sent
  faults     \* bound: faults so far

netcool == <<ticket, lacking, padded, present, acked>>
runs    == <<pc, tries, selected, alerts, todo>>
history == <<taken, lost, raced>>
flows   == <<children, watched, step, ctries, sent>>
vars    == <<netcool, runs, history, flows, faults>>

\* A workflow is of an alert, and of the try of the run that triggered it.
Child == [run : Run, alert : Alert, try : 0 .. MaxTries - 1]

\* The tasks of a workflow before the one that sends count as one; one more
\* closes up.
Sending == 2
Green == 4
Red == 0

-----------------------------------------------------------------------------
Init ==
  /\ ticket \in [Alert -> Ticket]
  /\ lacking \in SUBSET Alert
  /\ padded \in SUBSET Alert
  /\ present = {}
  /\ acked = {}
  /\ pc = [r \in Run |-> "idle"]
  /\ tries = [r \in Run |-> 0]
  /\ selected = [r \in Run |-> {}]
  /\ alerts = [r \in Run |-> {}]
  /\ todo = [r \in Run |-> {}]
  /\ taken = [r \in Run |-> {}]
  /\ lost = [r \in Run |-> {}]
  /\ raced = {}
  /\ children = {}
  /\ watched \in Child
  /\ step = 1
  /\ ctries = 0
  /\ sent = FALSE
  /\ faults = 0

\* An alert gets into Netcool, or gets its ticket.
Arrive(a) ==
  /\ a \notin present
  /\ present' = present \cup {a}
  /\ UNCHANGED <<ticket, lacking, padded, acked, runs, history, flows, faults>>

-----------------------------------------------------------------------------
(* The tasks of a run                                                      *)

Goes(r, from, to) == pc[r] = from /\ pc' = [pc EXCEPT ![r] = to]

\* The task succeeds and the next one begins.
Done(r, from, to) == Goes(r, from, to) /\ tries' = [tries EXCEPT ![r] = 0]

CreateWorklog(r) ==
  /\ Done(r, "idle", "fetch")
  /\ UNCHANGED <<netcool, selected, alerts, todo, history, flows, faults>>

\* Mutant: every alert is read, whoever acknowledged it.
ReadsAll == present

\* ... upper(Acknowledger) NOT LIKE 'ENABLE': nobody has acknowledged them.
Reads == present \ acked

\* fetch_and_acknowledge_alerts: the SELECT.  Without rows it returns; alerts
\* that lack a field are passed over, and are read again by the next run.
Select(r) ==
  \/ /\ Reads = {}
     /\ Done(r, "fetch", "trigger")
     /\ UNCHANGED <<netcool, selected, alerts, todo, history, flows, faults>>
  \/ /\ Reads # {}
     /\ Goes(r, "fetch", "selected")
     /\ selected' = [selected EXCEPT ![r] = Reads \ lacking]
     /\ UNCHANGED <<netcool, tries, alerts, todo, history, flows, faults>>

\* The alerts that a number names in a WHERE TicketNumber = :1.  The numbers
\* were stripped of blanks when they were read: one that has blanks in its row
\* is not found by its own number.
WithNumber(n) == {a \in present \ padded : ticket[a] = n}

\* fetch_and_acknowledge_alerts: the UPDATE, by ticket number, and its commit.
Acknowledge(r) ==
  LET found == UNION {WithNumber(ticket[a]) : a \in selected[r]}
  IN  /\ Goes(r, "selected", "acknowledged")
      /\ acked' = acked \cup found
      /\ taken' = [taken EXCEPT ![r] = @ \cup selected[r]]
      /\ raced' = raced \cup
           {a \in selected[r] : \E q \in Run \ {r} : pc[q] = "selected" /\ a \in selected[q]}
      /\ UNCHANGED <<ticket, lacking, padded, present, tries, selected, alerts, todo, lost, flows, faults>>

\* fetch_and_acknowledge_alerts: the push, after an entry in the worklog.
PushAlerts(r) ==
  /\ Done(r, "acknowledged", "trigger")
  /\ alerts' = [alerts EXCEPT ![r] = selected[r]]
  /\ todo' = [todo EXCEPT ![r] = selected[r]]
  /\ selected' = [selected EXCEPT ![r] = {}]
  /\ UNCHANGED <<netcool, history, flows, faults>>

\* The workflow is started for the alert.
Started(r, a) == children' = children \cup {[run |-> r, alert |-> a, try |-> tries[r]]}

\* trigger_autocaller_dags: one call, answered with 200 or 201.
Trigger(r, a) ==
  /\ pc[r] = "trigger"
  /\ a \in todo[r]
  /\ Started(r, a)
  /\ todo' = [todo EXCEPT ![r] = @ \ {a}]
  /\ UNCHANGED <<netcool, pc, tries, selected, alerts, history, watched, step, ctries, sent,
                 faults>>

\* trigger_autocaller_dags: after the last call.
TriggerDone(r) ==
  /\ todo[r] = {}
  /\ Done(r, "trigger", "close")
  /\ UNCHANGED <<netcool, selected, alerts, todo, history, flows, faults>>

CloseWorklog(r) ==
  /\ Done(r, "close", "green")
  /\ UNCHANGED <<netcool, selected, alerts, todo, history, flows, faults>>

\* The task raises.  It is tried again from its beginning, or the run is red
\* and what comes after it is not done.
Raise(r) ==
  \/ /\ tries[r] + 1 < MaxTries
     /\ tries' = [tries EXCEPT ![r] = @ + 1]
     /\ pc' = [pc EXCEPT ![r] = IF @ \in {"selected", "acknowledged"} THEN "fetch" ELSE @]
     /\ selected' = [selected EXCEPT ![r] = {}]
     /\ todo' = [todo EXCEPT ![r] = IF pc[r] = "trigger" THEN alerts[r] ELSE {}]
  \/ /\ tries[r] + 1 = MaxTries
     /\ tries' = [tries EXCEPT ![r] = 0]
     /\ pc' = [pc EXCEPT ![r] = "red"]
     /\ selected' = [selected EXCEPT ![r] = {}]
     /\ todo' = [todo EXCEPT ![r] = {}]

Faulty == faults < MaxFaults /\ faults' = faults + 1

\* The worklog or the database fails, or the worker dies.  After the commit
\* of the fetch the retry finds the alerts acknowledged.
Break(r) ==
  /\ pc[r] \notin {"green", "red"}
  /\ Faulty
  /\ Raise(r)
  /\ lost' = IF pc[r] = "acknowledged" THEN [lost EXCEPT ![r] = @ \cup selected[r]] ELSE lost
  /\ UNCHANGED <<netcool, alerts, taken, raced, flows>>

\* Mutant: an alert that cannot be called is passed over.
GoOn(r, a) ==
  /\ todo' = [todo EXCEPT ![r] = @ \ {a}]
  /\ UNCHANGED <<pc, tries, selected, alerts>>

\* A call that is not answered with 200 or 201 ends the try.
GiveUp(r, a) == Raise(r) /\ UNCHANGED alerts

\* The id that the call asks for has the ticket and the second: that of
\* another alert with the same ticket may be taken.
IdTaken(a) == \E c \in children : c.alert # a /\ ticket[c.alert] = ticket[a]

\* A call that is refused, or fails when its workflow was started.
TriggerFails(r, a) ==
  /\ pc[r] = "trigger"
  /\ a \in todo[r]
  /\ \/ Faulty /\ (Started(r, a) \/ UNCHANGED children)
     \/ IdTaken(a) /\ UNCHANGED <<faults, children>>
  /\ GiveUp(r, a)
  /\ UNCHANGED <<netcool, history, watched, step, ctries, sent>>

-----------------------------------------------------------------------------
(* The tasks of a workflow: create_worklog,                                *)
(* receive_alert_prepare_email_config, format_email_content,               *)
(* send_email_autocaller and close_worklog                                 *)

Active == watched \in children /\ step \in 1 .. Green - 1

\* The mail is sent, if this is the task that does.
Sends == sent' = (sent \/ step = Sending)

ChildTask ==
  /\ Active
  /\ step' = step + 1
  /\ ctries' = 0
  /\ Sends
  /\ UNCHANGED <<netcool, runs, history, children, watched, faults>>

\* A task raises.  The mail may have been sent: then it is sent once more.
ChildTaskFails ==
  /\ Active
  /\ Faulty
  /\ Sends \/ UNCHANGED sent
  /\ \/ /\ ctries + 1 < MaxTries
        /\ ctries' = ctries + 1
        /\ UNCHANGED step
     \/ /\ ctries + 1 = MaxTries
        /\ ctries' = 0
        /\ step' = Red
  /\ UNCHANGED <<netcool, runs, history, children, watched>>

-----------------------------------------------------------------------------
RunStep(r) ==
  \/ CreateWorklog(r) \/ Select(r) \/ Acknowledge(r) \/ PushAlerts(r)
  \/ \E a \in Alert : Trigger(r, a) \/ TriggerFails(r, a)
  \/ TriggerDone(r) \/ CloseWorklog(r) \/ Break(r)

Next ==
  \/ \E a \in Alert : Arrive(a)
  \/ \E r \in Run : RunStep(r)
  \/ ChildTask
  \/ ChildTaskFails

Spec == Init /\ [][Next]_vars

-----------------------------------------------------------------------------
(* Properties                                                              *)

\* Every variable keeps the values that the code can give it.
TypeOK ==
  /\ ticket \in [Alert -> Ticket]
  /\ lacking \subseteq Alert /\ padded \subseteq Alert
  /\ acked \subseteq present /\ present \subseteq Alert
  /\ pc \in [Run -> {"idle", "fetch", "selected", "acknowledged", "trigger", "close",
                     "green", "red"}]
  /\ tries \in [Run -> 0 .. MaxTries - 1]
  /\ selected \in [Run -> SUBSET Alert] /\ alerts \in [Run -> SUBSET Alert]
  /\ todo \in [Run -> SUBSET Alert]
  /\ taken \in [Run -> SUBSET Alert] /\ lost \in [Run -> SUBSET Alert]
  /\ raced \subseteq Alert
  /\ children \subseteq Child
  /\ watched \in Child
  /\ step \in 0 .. Green /\ ctries \in 0 .. MaxTries - 1
  /\ sent \in BOOLEAN
  /\ faults \in 0 .. MaxFaults

\* A green run has started a workflow for each alert that it committed to
\* Netcool as acknowledged, where no later run finds it, unless a try failed
\* between the commit and the push; and a green workflow has sent its mail.
GreenIsCalled ==
  /\ \A r \in Run : pc[r] = "green" =>
       \A a \in taken[r] \ lost[r] : \E c \in children : c.run = r /\ c.alert = a
  /\ step = Green => sent

\* Two runs call for the same alert only if the second had read it when the
\* first acknowledged it: otherwise the acknowledgement keeps an alert to one
\* run, which calls again only when its trigger task is tried again.  Not so
\* for a ticket number with blanks around it: its UPDATE finds no row, and
\* every run calls again.
CalledOnce ==
  \A c, d \in children :
    c.alert = d.alert /\ c.run # d.run => c.alert \in raced \cup padded
===============================================================================
