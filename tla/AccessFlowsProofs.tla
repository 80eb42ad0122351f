--------------------------- MODULE AccessFlowsProofs ---------------------------
(***************************************************************************)
(* What holds of all five service-request flows, for any number of runs,   *)
(* requests and tries, and whatever fails.                                 *)
(*                                                                         *)
(* None of the properties is inductive: a mail is sent by a task that      *)
(* looks at one XCom, and what it says is true because of what the tasks   *)
(* before it did.  The invariant says of each task                         *)
(*   - Guard:     where the run was when it started,                       *)
(*   - Rests:     what the data it pushed tell of the tasks before it,     *)
(*   - Effective: what it has done if it is a success and pushed data,     *)
(* and of each mail and each update of a row what it rests on (Grounded,   *)
(* Recorded).  A task that has ended never changes again, so that all of   *)
(* these survive the steps of other tasks and runs; what a task does has   *)
(* one of a few shapes, and for each of them a lemma.                      *)
(***************************************************************************)
EXTENDS AccessFlows, AccessRequestProofs

\* The flows whose tasks raise when they fail.
Raising == kind \in {"reset", "other"}

(* How far a run has come *)

Answered(f, a) ==
  /\ kind # "other"
  /\ task[f]["ad_connect"] = "success"
  /\ xcom[f]["ad_connect"].ad = a

Created(f) ==
  /\ task[f]["sr_creation"] = "success"
  /\ xcom[f]["sr_creation"].sr > 0

Number(f) == SrOf(f, xcom[f]["sr_creation"].sr)

NotCreated(f) ==
  \/ task[f]["sr_creation"] = "failed"
  \/ xcom[f]["sr_creation"].sr = Failed

Unnamed(f) ==
  /\ kind = "new service"
  /\ task[f]["name_check"] = "success"
  /\ xcom[f]["name_check"].ad = "unnamed"

(* What it has left *)

Wrote(f, s) == \E w \in written : w.run = f /\ w.status = s
WroteNumber(f, s) == \E w \in written : w.run = f /\ w.status = s /\ w.sr = Number(f)
ToldBlocked(f) == \E m \in mails : m.run = f /\ m.kind = "blocked"

(* What is known of a task, of a mail, of an update *)

Guard(f, t) ==
  /\ t = "fetch" /\ kind = "new service" =>
       task[f]["name_check"] = "success" /\ xcom[f]["name_check"].ad # "unnamed"
  /\ t = "ad_connect" => task[f]["fetch"] # "none"
  /\ t = "branch" => task[f]["ad_connect"] = "success"
  /\ t = "sr_creation" => /\ task[f]["fetch"] # "none"
                          /\ kind # "other" => Answered(f, "clear")

Numbering == {"sr_worklog", "activity_update", "approver"}

Rests(f, t, d) ==
  /\ t \in Numbering => Created(f) /\ d.sr = xcom[f]["sr_creation"].sr
  /\ t \in {"blocked_mail", "blocked_status"} => Answered(f, "blocked")
  /\ t = "ad_error_status" => Answered(f, "error")
  /\ t = "sr_failed_status" => NotCreated(f)

Effective(f, t) ==
  /\ Raising =>
       /\ t \in {"sr_worklog", "activity_update"} => Number(f) \subseteq noted
       /\ t = "activity_update" => WroteNumber(f, Submitted)
       /\ t = "blocked_status" => Wrote(f, "Completed")
       /\ t = "ad_error_status" => Wrote(f, "Error in check AD process")
  /\ t = "sr_failed_status" => Wrote(f, "Error in ITSM Process")
  /\ t = "blocked_mail" /\ kind = "new user" => ToldBlocked(f)

Grounded(m) ==
  /\ m.kind \in {"name", "blocked", "ad_error", "sr_failed", "submitted", "filed"}
  /\ m.kind = "name" => Unnamed(m.run)
  /\ m.kind = "blocked" => Answered(m.run, "blocked")
  /\ m.kind = "ad_error" => Answered(m.run, "error")
  /\ m.kind = "sr_failed" => NotCreated(m.run)
  /\ m.kind = "submitted" => kind # "other"
  /\ m.kind = "filed" => kind = "other"
  /\ IF m.kind \in {"submitted", "filed"}
       THEN Created(m.run) /\ m.sr = Number(m.run)
       ELSE m.sr = {}

Told(m) ==
  /\ m.kind \in (IF Raising THEN DOMAIN Verdict ELSE {"sr_failed"}) =>
       \E w \in written : /\ w.run = m.run
                          /\ w.status = Verdict[m.kind]
                          /\ m.sr = {} \/ w.sr = m.sr
  /\ Raising /\ m.kind \in {"submitted", "filed"} => m.sr \subseteq noted

Recorded(w) ==
  /\ w.status = Submitted => Created(w.run) /\ w.sr = Number(w.run)
  /\ kind = "new user" /\ w.status = "Completed" => ToldBlocked(w.run)

(* The invariant *)

Clean == \A f \in Run, t \in Task : task[f][t] = "none" => xcom[f][t] = NoData
Guarded == \A f \in Run, t \in Task : task[f][t] # "none" => Guard(f, t)
Resting == \A f \in Run, t \in Task : xcom[f][t] # NoData => Rests(f, t, xcom[f][t])
Effected ==
  \A f \in Run, t \in Task :
    task[f][t] = "success" /\ xcom[f][t] # NoData => Effective(f, t)
MailsHold == \A m \in mails : Grounded(m) /\ Told(m)
RowsHold == \A w \in written : Recorded(w)

FlowsInv == Clean /\ Guarded /\ Resting /\ Effected /\ MailsHold /\ RowsHold
IInv == Inv /\ FlowsInv /\ kind \in FlowKind

-----------------------------------------------------------------------------
(* What survives the steps of other tasks                                  *)

\* Task t of f is tried, over a world that only grows.
Tried(f, t, d) ==
  /\ f \in Run /\ t \in Task
  /\ task[f][t] = "none"
  /\ Ends(f, t, d) \/ Ends(f, t, NoData)
  /\ written \subseteq written'
  /\ mails \subseteq mails'
  /\ noted \subseteq noted'
  /\ UNCHANGED kind

\* A task that has ended stays as it is, and so does any task but the one
\* that is tried, which pushes its data, or nothing.
LEMMA EndedStays ==
  ASSUME FlowOK, NEW f, NEW t, NEW d, Tried(f, t, d)
  PROVE  /\ \A g \in Run, u \in Task :
              task[g][u] # "none" \/ u # t \/ g # f =>
                task'[g][u] = task[g][u] /\ xcom'[g][u] = xcom[g][u]
         /\ xcom'[f][t] \in {xcom[f][t], d, NoData}
         /\ task'[f][t] = "none" => xcom'[f][t] = xcom[f][t]
<1> USE DEF FlowOK, Tried
<1>1. CASE Returns(f, t, d) \/ Returns(f, t, NoData)
  BY <1>1 DEF Returns
<1>2. CASE Raises(f, t, d) \/ Raises(f, t, NoData)
  BY <1>2 DEF Raises
<1> QED
  BY <1>1, <1>2 DEF Ends

\* How far a run has come is not taken back.
LEMMA FactsStay ==
  ASSUME FlowOK, Clean, NEW f, NEW t, NEW d, Tried(f, t, d), NEW g \in Run
  PROVE  /\ \A a : Answered(g, a) => Answered(g, a)'
         /\ Created(g) => Created(g)' /\ Number(g)' = Number(g)
         /\ NotCreated(g) => NotCreated(g)'
         /\ Unnamed(g) => Unnamed(g)'
         /\ \A s : Wrote(g, s) => Wrote(g, s)'
         /\ ToldBlocked(g) => ToldBlocked(g)'
<1>1. {"ad_connect", "sr_creation", "name_check"} \subseteq Task
  BY DEF Task
<1>2. kind' = kind
  BY DEF Tried
<1>3. \A u \in Task : task[g][u] # "none" =>
        task'[g][u] = task[g][u] /\ xcom'[g][u] = xcom[g][u]
  BY EndedStays
<1>4. \A a : Answered(g, a) => Answered(g, a)'
  BY <1>1, <1>2, <1>3 DEF Answered
<1>5. Created(g) => Created(g)' /\ Number(g)' = Number(g)
  BY <1>1, <1>3 DEF Created, Number
<1>6. NotCreated(g) => NotCreated(g)'
  <2>1. CASE task[g]["sr_creation"] = "failed"
    BY <1>1, <1>3, <2>1 DEF NotCreated
  <2>2. CASE xcom[g]["sr_creation"].sr = Failed
    <3>1. xcom[g]["sr_creation"] # NoData
      BY <2>2, NoDataHasNoNumber DEF Failed
    <3>2. task[g]["sr_creation"] # "none"
      BY <1>1, <3>1 DEF Clean
    <3> QED
      BY <1>1, <1>3, <2>2, <3>2 DEF NotCreated
  <2> QED
    BY <2>1, <2>2 DEF NotCreated
<1>7. Unnamed(g) => Unnamed(g)'
  BY <1>1, <1>2, <1>3 DEF Unnamed
<1>8. \A s : Wrote(g, s) => Wrote(g, s)'
  BY DEF Wrote, Tried
<1>9. ToldBlocked(g) => ToldBlocked(g)'
  BY DEF ToldBlocked, Tried
<1> QED
  BY <1>4, <1>5, <1>6, <1>7, <1>8, <1>9

\* Nor is what is known of tasks, mails and updates.
LEMMA GroundsStay ==
  ASSUME FlowOK, Clean, NEW f, NEW t, NEW d, Tried(f, t, d), NEW g \in Run
  PROVE  /\ \A u \in Task : Guard(g, u) => Guard(g, u)'
         /\ \A u \in Task : \A e : Rests(g, u, e) => Rests(g, u, e)'
         /\ \A u \in Task : Rests(g, u, xcom[g][u]) /\ Effective(g, u) => Effective(g, u)'
         /\ \A m : m.run = g /\ Grounded(m) /\ Told(m) => (Grounded(m) /\ Told(m))'
         /\ \A w : w.run = g /\ Recorded(w) => Recorded(w)'
<1>1. {"name_check", "fetch", "ad_connect", "sr_creation"} \subseteq Task
  BY DEF Task
<1>2. kind' = kind
  BY DEF Tried
<1>3. \A u \in Task : task[g][u] # "none" =>
        task'[g][u] = task[g][u] /\ xcom'[g][u] = xcom[g][u]
  BY EndedStays
<1>4. \A u \in Task : Guard(g, u) => Guard(g, u)'
  <2> SUFFICES ASSUME NEW u \in Task, Guard(g, u)
               PROVE  Guard(g, u)'
    OBVIOUS
  <2>1. Answered(g, "clear") => Answered(g, "clear")'
    BY FactsStay
  <2> QED
    BY <1>1, <1>2, <1>3, <2>1 DEF Guard
<1>5. \A u \in Task : \A e : Rests(g, u, e) => Rests(g, u, e)'
  <2> SUFFICES ASSUME NEW u \in Task, NEW e, Rests(g, u, e)
               PROVE  Rests(g, u, e)'
    OBVIOUS
  <2>1. Created(g) => Created(g)' /\ xcom'[g]["sr_creation"] = xcom[g]["sr_creation"]
    BY <1>1, <1>3, FactsStay DEF Created
  <2>2. Answered(g, "blocked") => Answered(g, "blocked")'
    BY FactsStay
  <2>3. Answered(g, "error") => Answered(g, "error")'
    BY FactsStay
  <2>4. NotCreated(g) => NotCreated(g)'
    BY FactsStay
  <2> QED
    BY <2>1, <2>2, <2>3, <2>4 DEF Rests
<1>6. \A u \in Task : Rests(g, u, xcom[g][u]) /\ Effective(g, u) => Effective(g, u)'
  <2> SUFFICES ASSUME NEW u \in Task, Rests(g, u, xcom[g][u]), Effective(g, u)
               PROVE  Effective(g, u)'
    OBVIOUS
  <2>1. Raising' <=> Raising
    BY <1>2 DEF Raising
  <2>2. Submitted' = Submitted
    BY <1>2 DEF Submitted
  <2>3. u \in {"sr_worklog", "activity_update"} => Number(g)' = Number(g)
    BY FactsStay DEF Rests, Numbering
  <2>4. noted \subseteq noted' /\ written \subseteq written'
    BY DEF Tried
  <2>5. u = "activity_update" /\ WroteNumber(g, Submitted) => WroteNumber(g, Submitted)'
    BY <2>2, <2>3, <2>4 DEF WroteNumber
  <2>6. Wrote(g, "Completed") => Wrote(g, "Completed")'
    BY FactsStay
  <2>7. Wrote(g, "Error in check AD process") => Wrote(g, "Error in check AD process")'
    BY FactsStay
  <2>8. Wrote(g, "Error in ITSM Process") => Wrote(g, "Error in ITSM Process")'
    BY FactsStay
  <2>9. ToldBlocked(g) => ToldBlocked(g)'
    BY FactsStay
  <2>10. u \in {"sr_worklog", "activity_update"} /\ Number(g) \subseteq noted
           => Number(g)' \subseteq noted'
    BY <2>3, <2>4
  <2> QED
    BY <1>2, <2>1, <2>5, <2>6, <2>7, <2>8, <2>9, <2>10, Zenon DEF Effective
<1>7. \A m : m.run = g /\ Grounded(m) /\ Told(m) => (Grounded(m) /\ Told(m))'
  <2> SUFFICES ASSUME NEW m, m.run = g, Grounded(m), Told(m)
               PROVE  Grounded(m)' /\ Told(m)'
    OBVIOUS
  <2>1. Answered(g, "blocked") => Answered(g, "blocked")'
    BY FactsStay
  <2>2. Answered(g, "error") => Answered(g, "error")'
    BY FactsStay
  <2>3. /\ NotCreated(g) => NotCreated(g)'
        /\ Unnamed(g) => Unnamed(g)'
        /\ Created(g) => Created(g)' /\ Number(g)' = Number(g)
    BY FactsStay
  <2>4. Grounded(m)'
    BY <1>2, <2>1, <2>2, <2>3 DEF Grounded
  <2>5. Told(m)'
    BY <1>2 DEF Told, Tried, Raising
  <2> QED
    BY <2>4, <2>5
<1>8. \A w : w.run = g /\ Recorded(w) => Recorded(w)'
  <2> SUFFICES ASSUME NEW w, w.run = g, Recorded(w)
               PROVE  Recorded(w)'
    OBVIOUS
  <2>1. /\ Created(g) => Created(g)' /\ Number(g)' = Number(g)
        /\ ToldBlocked(g) => ToldBlocked(g)'
    BY FactsStay
  <2>2. Submitted' = Submitted
    BY <1>2 DEF Submitted
  <2> QED
    BY <1>2, <2>1, <2>2 DEF Recorded
<1> QED
  BY <1>4, <1>5, <1>6, <1>7, <1>8

\* A task keeps the invariant if what it pushes rests on what was there, if it
\* has done what its success says, and if what it tells and writes is so.
LEMMA TaskKeeps ==
  ASSUME IInv, Inv', NEW f, NEW t, NEW d, Tried(f, t, d), Guard(f, t),
         d # NoData => Rests(f, t, d),
         Returns(f, t, d) /\ d # NoData => Effective(f, t)',
         \A m \in mails' \ mails : m.run = f /\ Grounded(m) /\ Told(m),
         \A w \in written' \ written : w.run = f /\ Recorded(w)
  PROVE  IInv'
<1>1. FlowOK /\ Clean
  BY DEF IInv, Inv, TypeOK, FlowsInv
<1>2. f \in Run /\ t \in Task /\ task[f][t] = "none" /\ xcom[f][t] = NoData
  BY <1>1 DEF Tried, Clean
<1>3. /\ \A g \in Run, u \in Task :
            task[g][u] # "none" \/ u # t \/ g # f =>
              task'[g][u] = task[g][u] /\ xcom'[g][u] = xcom[g][u]
      /\ xcom'[f][t] \in {d, NoData}
      /\ task'[f][t] = "none" => xcom'[f][t] = NoData
  BY <1>1, <1>2, EndedStays
<1>4. Clean'
  BY <1>1, <1>2, <1>3 DEF Clean
<1>5. Guarded'
  <2> SUFFICES ASSUME NEW g \in Run, NEW u \in Task, task'[g][u] # "none"
               PROVE  Guard(g, u)'
    BY DEF Guarded
  <2>1. Guard(g, u)
    BY <1>3 DEF IInv, FlowsInv, Guarded
  <2> QED
    BY <1>1, <2>1, GroundsStay
<1>6. Resting'
  <2> SUFFICES ASSUME NEW g \in Run, NEW u \in Task, xcom'[g][u] # NoData
               PROVE  Rests(g, u, xcom[g][u])'
    BY DEF Resting
  <2>1. Rests(g, u, xcom'[g][u])
    BY <1>3 DEF IInv, FlowsInv, Resting
  <2>2. \A e : Rests(g, u, e) => Rests(g, u, e)'
    BY <1>1, GroundsStay
  <2> QED
    BY <2>1, <2>2 DEF Rests
<1>7. Effected'
  <2> SUFFICES ASSUME NEW g \in Run, NEW u \in Task,
                      task'[g][u] = "success", xcom'[g][u] # NoData
               PROVE  Effective(g, u)'
    BY DEF Effected
  <2>1. CASE g = f /\ u = t
    <3>1. Returns(f, t, d) /\ d # NoData
      BY <1>1, <1>2, <2>1 DEF Tried, Ends, Returns, Raises, FlowOK
    <3> QED
      BY <2>1, <3>1
  <2>2. CASE g # f \/ u # t
    <3>1. Effective(g, u) /\ Rests(g, u, xcom[g][u])
      BY <1>3, <2>2 DEF IInv, FlowsInv, Effected, Resting
    <3> QED
      BY <1>1, <3>1, GroundsStay
  <2> QED
    BY <2>1, <2>2
<1>8. MailsHold'
  <2> SUFFICES ASSUME NEW m \in mails'
               PROVE  (Grounded(m) /\ Told(m))'
    BY DEF MailsHold
  <2>1. Grounded(m) /\ Told(m)
    BY DEF IInv, FlowsInv, MailsHold
  <2>2. m.run \in Run
    BY <1>2 DEF IInv, Inv, TypeOK, WorldOK
  <2> QED
    BY <1>1, <2>1, <2>2, GroundsStay
<1>9. RowsHold'
  <2> SUFFICES ASSUME NEW w \in written'
               PROVE  Recorded(w)'
    BY DEF RowsHold
  <2>1. Recorded(w)
    BY DEF IInv, FlowsInv, RowsHold
  <2>2. w.run \in Run
    BY <1>2 DEF IInv, Inv, TypeOK, RowOK
  <2> QED
    BY <1>1, <2>1, <2>2, GroundsStay
<1> QED
  BY <1>4, <1>5, <1>6, <1>7, <1>8, <1>9 DEF IInv, FlowsInv, Tried

-----------------------------------------------------------------------------
(* The shapes of a task                                                    *)

\* A try that returns leaves a success, and one that raises does not.
LEMMA EndsDiffer ==
  ASSUME FlowOK, NEW f \in Run, NEW t \in Task, task[f][t] = "none"
  PROVE  /\ \A d : Returns(f, t, d) => task'[f][t] = "success"
         /\ \A d : Raises(f, t, d) => task'[f][t] # "success"
BY DEF FlowOK, Returns, Raises

\* Tasks whose success means that they have done something.
Doing == {"sr_worklog", "activity_update", "blocked_mail", "blocked_status",
          "ad_error_status", "sr_failed_status"}

\* A task that hands on its data, and does nothing else.
LEMMA IdleTask ==
  ASSUME IInv, NEW f \in Run, NEW t \in Task \ {"intake"}, task[f][t] = "none",
         NEW d \in Data \cup {NoData}, SoundData(f, d),
         Ends(f, t, d) \/ Ends(f, t, NoData),
         UNCHANGED <<row, world, about, kind>>, Guard(f, t),
         d # NoData => Rests(f, t, d) /\ t \notin Doing
  PROVE  IInv'
<1>1. Inv'
  BY IdleKeeps DEF IInv
<1>2. Tried(f, t, d)
  BY DEF Tried, row, world
<1>3. written' = written /\ mails' = mails
  BY DEF row, world
<1>4. d # NoData => Effective(f, t)'
  BY DEF Effective, Doing
<1> QED
  BY <1>1, <1>2, <1>3, <1>4, TaskKeeps

\* A task that pushes nothing, and does nothing.
LEMMA SilentTask ==
  ASSUME IInv, NEW f \in Run, NEW t \in Task \ {"intake"}, task[f][t] = "none",
         Ends(f, t, NoData), UNCHANGED <<row, world, about, kind>>, Guard(f, t)
  PROVE  IInv'
BY IdleTask, NoDataHasNoNumber

\* The status that a task sets.
StatusOf(t) ==
  CASE t = "activity_update" -> Submitted
    [] t = "blocked_status" -> "Completed"
    [] t = "ad_error_status" -> "Error in check AD process"
    [] t = "sr_failed_status" -> "Error in ITSM Process"

StatusTasks == {"activity_update", "blocked_status", "ad_error_status",
                "sr_failed_status"}

\* What a run may write with task t, given d: its own number, or that which
\* the row has.
NumberFor(f, t, d) ==
  IF t = "activity_update" THEN SrOf(f, d.sr) ELSE srNo[about[f]]

\* A task that sets the row.
LEMMA StatusTask ==
  ASSUME IInv, NEW f \in Run, NEW t \in StatusTasks, task[f][t] = "none",
         NEW u \in Task, NEW how,
         xcom[f][u] # NoData => Rests(f, t, xcom[f][u]),
         how = "return" => ~Raising /\ t # "sr_failed_status",
         t = "activity_update" /\ Raising /\ xcom[f][u] # NoData =>
           Number(f) \subseteq noted,
         t = "blocked_status" /\ kind = "new user" /\ xcom[f][u] # NoData =>
           ToldBlocked(f),
         UNCHANGED <<world, about, kind>>,
         \/ Ends(f, t, NoData) /\ UNCHANGED row
         \/ /\ xcom[f][u] # NoData
            /\ Updates(f, t, xcom[f][u], StatusOf(t),
                       NumberFor(f, t, xcom[f][u]), how)
  PROVE  IInv'
<1> DEFINE d == xcom[f][u]
           s == StatusOf(t)
           n == NumberFor(f, t, d)
           w == [run |-> f, status |-> s, sr |-> n]
<1>1. /\ d \in Data \cup {NoData} /\ SoundData(f, d)
      /\ t \in Task \ {"intake"}
  BY PulledIsSound DEF IInv, StatusTasks, Task
<1>2. Guard(f, t)
  BY DEF Guard, StatusTasks
<1>3. CASE Ends(f, t, NoData) /\ UNCHANGED row
  BY <1>1, <1>2, <1>3, SilentTask
<1>4. CASE d # NoData /\ Updates(f, t, d, s, n, how)
  <2>1. Rests(f, t, d)
    BY <1>4
  <2>2. s \in Status
    BY DEF StatusOf, StatusTasks, Submitted, Status, Verdict
  <2>3. d \in Data /\ about[f] \in Request
    BY <1>1, <1>4 DEF SoundData
  <2>4. n \in SUBSET (SR \cup {Foreign})
    <3>1. CASE t = "activity_update"
      <4>1. d.sr > 0
        BY <2>1, <3>1 DEF Rests, Numbering, Created
      <4>2. SrOf(f, d.sr) \subseteq srs
        BY <1>1, <4>1 DEF SoundData
      <4> QED
        BY <3>1, <4>2 DEF NumberFor, IInv, Inv, TypeOK, WorldOK
    <3>2. CASE t # "activity_update"
      BY <2>3, <3>2 DEF NumberFor, IInv, Inv, TypeOK, RowOK
    <3> QED
      BY <3>1, <3>2
  <2> HIDE DEF s, n
  <2>5. Inv'
    BY <1>1, <1>4, <2>2, <2>3, <2>4, UpdatesKeeps DEF IInv
  <2>6. Ends(f, t, d) \/ Ends(f, t, NoData)
    BY <1>4 DEF Updates, Fails, Breaks, Ends
  <2>7. written' = written \/ written' = written \cup {w}
    BY <1>4 DEF Updates, SetRow, row
  <2>8. Tried(f, t, d)
    BY <1>1, <2>6, <2>7 DEF Tried, world
  <2>9. t = "activity_update" => Created(f) /\ n = Number(f)
    BY <2>1 DEF n, NumberFor, Rests, Numbering, Number
  <2>10. t = "blocked_status" => kind # "other"
    BY <2>1 DEF Rests, Answered
  <2>11. Recorded(w)
    BY <1>4, <2>9, <2>10 DEF Recorded, s, StatusOf, StatusTasks, Submitted
  <2>12. ASSUME Returns(f, t, d)
         PROVE  Effective(f, t)'
    <3>1. CASE how = "return"
      BY <2>8, <3>1 DEF Effective, Raising, StatusTasks, Tried
    <3>2. CASE how # "return"
      <4>1. SetRow(f, s, n)
        <5>1. FlowOK
          BY DEF IInv, Inv, TypeOK
        <5>2. ~Raises(f, t, d) /\ ~Raises(f, t, NoData)
          BY <1>1, <2>12, <5>1, EndsDiffer
        <5> QED
          BY <1>4, <3>2, <5>2 DEF Updates, Fails, Breaks
      <4>2. w \in written'
        BY <4>1 DEF SetRow
      <4>3. Number(f)' = Number(f) \/ t # "activity_update"
        BY <2>8, <2>9, FactsStay DEF IInv, Inv, TypeOK, FlowsInv
      <4>4. Submitted' = Submitted
        BY DEF Submitted
      <4>5. t = "activity_update" => WroteNumber(f, Submitted)'
        <5>1. t = "activity_update" => w.status = Submitted /\ w.sr = Number(f)
          BY <2>9 DEF s, StatusOf
        <5> QED
          BY <4>2, <4>3, <4>4, <5>1 DEF WroteNumber
      <4>6. t = "activity_update" /\ Raising => Number(f)' \subseteq noted'
        BY <1>4, <4>3 DEF world
      <4>7. /\ t = "blocked_status" => Wrote(f, "Completed")'
            /\ t = "ad_error_status" => Wrote(f, "Error in check AD process")'
            /\ t = "sr_failed_status" => Wrote(f, "Error in ITSM Process")'
        BY <4>2 DEF Wrote, s, StatusOf
      <4> QED
        BY <4>5, <4>6, <4>7 DEF Effective, StatusTasks, Raising
    <3> QED
      BY <3>1, <3>2
  <2>13. \A x \in written' \ written : x.run = f /\ Recorded(x)
    <3> SUFFICES ASSUME NEW x \in written' \ written
                 PROVE  x.run = f /\ Recorded(x)
      OBVIOUS
    <3>1. x = w /\ w.run = f
      BY <2>7
    <3> HIDE DEF w
    <3> QED
      BY <2>11, <3>1, Zenon
  <2>14. mails' = mails
    BY DEF world
  <2> QED
    BY <1>2, <2>1, <2>5, <2>8, <2>12, <2>13, <2>14, TaskKeeps
<1> QED
  BY <1>3, <1>4

\* A task that sends a mail.
LEMMA MailTask ==
  ASSUME IInv, NEW f \in Run, NEW u \in Task, NEW k \in MailKind,
         NEW n \in SUBSET SR, NEW how,
         NEW t \in {"sr_mail", "blocked_mail", "ad_error_mail",
                    "sr_failed_mail", "name_mail"},
         task[f][t] = "none",
         xcom[f][u] # NoData => /\ Rests(f, t, xcom[f][u])
                                /\ Grounded([run |-> f, kind |-> k, sr |-> n])
                                /\ Told([run |-> f, kind |-> k, sr |-> n]),
         t = "blocked_mail" /\ kind = "new user" => how = "raise" /\ k = "blocked",
         UNCHANGED <<row, srs, noted, about, kind>>,
         \/ Ends(f, t, NoData) /\ UNCHANGED mails
         \/ xcom[f][u] # NoData /\ Sends(f, t, xcom[f][u], k, n, how)
  PROVE  IInv'
<1> DEFINE d == xcom[f][u]
           m == [run |-> f, kind |-> k, sr |-> n]
<1>1. /\ d \in Data \cup {NoData} /\ SoundData(f, d)
      /\ t \in Task \ {"intake"}
  BY PulledIsSound DEF IInv, Task
<1>2. Guard(f, t)
  BY DEF Guard
<1>3. CASE Ends(f, t, NoData) /\ UNCHANGED mails
  BY <1>1, <1>2, <1>3, SilentTask DEF world
<1>4. CASE d # NoData /\ Sends(f, t, d, k, n, how)
  <2>1. Inv'
    BY <1>1, <1>4, SendsKeeps DEF IInv
  <2>2. Ends(f, t, d) \/ Ends(f, t, NoData)
    BY <1>4 DEF Sends, Fails, Breaks, Ends
  <2>3. mails' = mails \/ mails' = mails \cup {m}
    BY <1>4 DEF Sends
  <2>4. Tried(f, t, d)
    BY <1>1, <2>2, <2>3 DEF Tried, row
  <2>5. ASSUME Returns(f, t, d)
        PROVE  Effective(f, t)'
    <3>1. ASSUME t = "blocked_mail", kind = "new user"
          PROVE  ToldBlocked(f)'
      <4>1. FlowOK
        BY DEF IInv, Inv, TypeOK
      <4>2. ~Raises(f, t, d) /\ ~Raises(f, t, NoData)
        BY <1>1, <2>5, <4>1, EndsDiffer
      <4>3. m \in mails'
        BY <1>4, <3>1, <4>2 DEF Sends, Fails, Breaks
      <4> QED
        BY <3>1, <4>3 DEF ToldBlocked
    <3> QED
      BY <3>1 DEF Effective
  <2>6. \A x \in mails' \ mails : x.run = f /\ Grounded(x) /\ Told(x)
    <3> SUFFICES ASSUME NEW x \in mails' \ mails
                 PROVE  x.run = f /\ Grounded(x) /\ Told(x)
      OBVIOUS
    <3>1. x = m /\ m.run = f
      BY <2>3
    <3>2. Grounded(m) /\ Told(m)
      BY <1>4, Zenon
    <3> HIDE DEF m
    <3> QED
      BY <3>1, <3>2, Zenon
  <2>7. written' = written
    BY DEF row
  <2> QED
    BY <1>2, <1>4, <2>1, <2>4, <2>5, <2>6, <2>7, TaskKeeps
<1> QED
  BY <1>3, <1>4

-----------------------------------------------------------------------------
(* The tasks, as the flows share them                                      *)

\* What the data of a task of f tell.
LEMMA Known ==
  ASSUME IInv, NEW f \in Run, NEW u \in Task
  PROVE  /\ xcom[f][u] # NoData => Rests(f, u, xcom[f][u])
         /\ xcom[f][u] # NoData /\ task[f][u] = "success" => Effective(f, u)
         /\ task[f][u] # "none" => Guard(f, u)
BY DEF IInv, FlowsInv, Resting, Effected, Guarded

\* The kinds of mail that have a verdict, and which it is.
LEMMA Verdicts ==
  /\ DOMAIN Verdict = {"submitted", "filed", "blocked", "missing", "ad_error",
                       "sr_failed"}
  /\ Verdict["submitted"] = "SR Submitted"
  /\ Verdict["filed"] = "Completed"
  /\ Verdict["blocked"] = "Completed"
  /\ Verdict["ad_error"] = "Error in check AD process"
  /\ Verdict["sr_failed"] = "Error in ITSM Process"
BY DEF Verdict

\* The first task.
LEMMA IntakeTask ==
  ASSUME IInv, NEW f \in Run, Intake(f), UNCHANGED kind
  PROVE  IInv'
<1>1. Inv'
  BY IntakeKeeps DEF IInv
<1>2. Ends(f, "intake", Begun) \/ Ends(f, "intake", NoData)
  BY DEF Intake, Ends, Breaks
<1>3. written' = written /\ mails' = mails /\ noted' = noted
  BY DEF Intake, NewRequest, UpdateRequest, row, world
<1>4. Tried(f, "intake", Begun)
  BY <1>2, <1>3 DEF Tried, Intake, Task
<1>5. Guard(f, "intake") /\ Rests(f, "intake", Begun) /\ Effective(f, "intake")'
  BY DEF Guard, Rests, Effective, Numbering
<1> QED
  BY <1>1, <1>3, <1>4, <1>5, TaskKeeps

\* The task that reads the row.
LEMMA FetchTask ==
  ASSUME IInv, NEW f \in Run, NEW u \in Task, task[f]["fetch"] = "none",
         Guard(f, "fetch"), ReadsFrom(f, "fetch", u),
         UNCHANGED <<row, world, about, kind>>
  PROVE  IInv'
<1>1. "fetch" \in Task \ {"intake"}
  BY DEF Task
<1>2. Ends(f, "fetch", xcom[f][u]) \/ Ends(f, "fetch", NoData)
  BY DEF ReadsFrom, Ends, Breaks
<1>3. Rests(f, "fetch", xcom[f][u])
  BY DEF Rests, Numbering
<1> QED
  BY <1>1, <1>2, <1>3, PulledIsSound, IdleTask DEF IInv, Doing

\* The AD check.
LEMMA AskTask ==
  ASSUME IInv, NEW f \in Run, Follows(f, "ad_connect", "fetch"),
         NEW answers \in SUBSET AdAnswer, Asks(f, "ad_connect", answers),
         UNCHANGED <<row, world, about, kind>>
  PROVE  IInv'
<1> DEFINE t == "ad_connect"
           d == xcom[f]["fetch"]
<1>1. t \in Task \ {"intake"} /\ "fetch" \in Task /\ task[f][t] = "none" /\ t \notin Doing
  BY DEF Task, Follows, Doing
<1>2. d \in Data \cup {NoData} /\ SoundData(f, d)
  BY <1>1, PulledIsSound DEF IInv
<1>3. Guard(f, t)
  BY DEF Guard, Follows
<1>4. CASE Ends(f, t, NoData)
  BY <1>1, <1>3, <1>4, SilentTask
<1>5. ASSUME NEW a \in AdAnswer, d # NoData, Ends(f, t, [d EXCEPT !.ad = a])
      PROVE  IInv'
  <2>1. [d EXCEPT !.ad = a] \in Data /\ [d EXCEPT !.ad = a].sr = d.sr
    BY <1>2, <1>5 DEF Data
  <2>2. SoundData(f, [d EXCEPT !.ad = a])
    BY <1>2, <1>5, <2>1 DEF SoundData
  <2>3. Rests(f, t, [d EXCEPT !.ad = a])
    BY DEF Rests, Numbering
  <2> QED
    BY <1>1, <1>3, <1>5, <2>1, <2>2, <2>3, IdleTask
<1> QED
  BY <1>4, <1>5 DEF Asks, Opens, Given, Breaks, Ends

\* The branch operator.
LEMMA BranchTask ==
  ASSUME IInv, NEW f \in Run, Branch(f), UNCHANGED kind
  PROVE  IInv'
<1>1. /\ "branch" \in Task \ {"intake"} /\ task[f]["branch"] = "none"
      /\ UNCHANGED <<row, world, about>>
  BY DEF Branch, Follows, Task
<1>2. Ends(f, "branch", NoData)
  BY DEF Branch, Ends
<1>3. Guard(f, "branch")
  BY DEF Branch, Follows, Guard
<1> QED
  BY <1>1, <1>2, <1>3, SilentTask

\* The creation of the SR: there may be one more of this run, and its number
\* is pushed only then.
LEMMA CreateTask ==
  ASSUME IInv, NEW f \in Run, NEW u \in Task, task[f]["sr_creation"] = "none",
         Guard(f, "sr_creation"), UNCHANGED <<row, noted, mails, about, kind>>,
         \/ Ends(f, "sr_creation", NoData) /\ UNCHANGED srs
         \/ /\ xcom[f][u] # NoData
            /\ \/ UNCHANGED srs
               \/ srs' = srs \cup SrOf(f, tries[f]["sr_creation"] + 1)
            /\ \/ Ends(f, "sr_creation", NoData)
               \/ Ends(f, "sr_creation", xcom[f][u])
               \/ \E x \in {NoResult, Failed, NotesOnly} :
                    Ends(f, "sr_creation", [xcom[f][u] EXCEPT !.sr = x])
         \/ /\ xcom[f][u] # NoData
            /\ srs' = srs \cup SrOf(f, tries[f]["sr_creation"] + 1)
            /\ Ends(f, "sr_creation",
                    [xcom[f][u] EXCEPT !.sr = tries[f]["sr_creation"] + 1])
  PROVE  IInv'
<1> DEFINE t == "sr_creation"
           d == xcom[f][u]
           n == tries[f][t] + 1
<1>1. t \in Task \ {"intake"} /\ t \notin Doing
  BY DEF Task, Doing
<1>2. d \in Data \cup {NoData} /\ SoundData(f, d)
  BY PulledIsSound DEF IInv
<1>3. n \in 1 .. MaxTries
  BY <1>1, TriesAssumption DEF IInv, Inv, TypeOK, FlowOK, Bounded
<1>4. CASE Ends(f, t, NoData) /\ UNCHANGED srs
  BY <1>1, <1>4, SilentTask DEF world
<1>5. ASSUME NEW e \in Data, d # NoData, Ends(f, t, e) \/ Ends(f, t, NoData),
             srs' = srs \/ srs' = srs \cup SrOf(f, n),
             e.sr > 0 => SrOf(f, e.sr) \subseteq srs'
      PROVE  IInv'
  <2>1. task[f]["intake"] = "success" /\ about[f] \in Request
    BY <1>2, <1>5 DEF SoundData
  <2>2. Moves(f, t)
    BY <1>1, <1>5, <2>1, NoDataHasNoNumber DEF Moves, Ends
  <2>4. WorldOK'
    <3>1. SrOf(f, n) \subseteq SR
      BY <1>3 DEF SrOf, SR
    <3> QED
      BY <1>5, <3>1 DEF IInv, Inv, TypeOK, WorldOK
  <2>5. Inv'
    BY <1>5, <2>2, <2>4, StepKeeps DEF IInv
  <2>6. Tried(f, t, e)
    BY <1>1, <1>5 DEF Tried, row
  <2>7. Rests(f, t, e) /\ Effective(f, t)'
    BY DEF Rests, Effective, Numbering
  <2>8. written' = written
    BY DEF row
  <2> QED
    BY <2>5, <2>6, <2>7, <2>8, TaskKeeps
<1>6. CASE /\ d # NoData
           /\ srs' = srs \/ srs' = srs \cup SrOf(f, n)
           /\ \/ Ends(f, t, NoData)
              \/ Ends(f, t, d)
              \/ \E x \in {NoResult, Failed, NotesOnly} :
                   Ends(f, t, [d EXCEPT !.sr = x])
  <2>1. d \in Data /\ (d.sr > 0 => SrOf(f, d.sr) \subseteq srs')
    BY <1>2, <1>6 DEF SoundData
  <2>2. \A x \in {NoResult, Failed, NotesOnly} :
          [d EXCEPT !.sr = x] \in Data /\ ~([d EXCEPT !.sr = x].sr > 0)
    <3>1. \A x \in {NoResult, Failed, NotesOnly} : x \in -2 .. MaxTries /\ ~(x > 0)
      BY TriesAssumption DEF NoResult, Failed, NotesOnly
    <3> QED
      BY <2>1, <3>1 DEF Data
  <2> QED
    BY <1>5, <1>6, <2>1, <2>2
<1>7. CASE d # NoData /\ srs' = srs \cup SrOf(f, n) /\ Ends(f, t, [d EXCEPT !.sr = n])
  <2>1. [d EXCEPT !.sr = n] \in Data /\ [d EXCEPT !.sr = n].sr = n
    <3>1. n \in -2 .. MaxTries /\ d \in Data
      BY <1>2, <1>3, <1>7, TriesAssumption
    <3> HIDE DEF n, d
    <3> QED
      BY <3>1 DEF Data
  <2> HIDE DEF n, d
  <2> QED
    BY <1>5, <1>7, <2>1
<1> QED
  BY <1>4, <1>6, <1>7

\* The work info is written to the SR that was created.
LEMMA NoteTask ==
  ASSUME IInv, NEW f \in Run, Follows(f, "sr_worklog", "sr_creation"),
         UNCHANGED <<row, srs, mails, about, kind>>,
         \/ Ends(f, "sr_worklog", NoData) /\ UNCHANGED noted
         \/ /\ xcom[f]["sr_creation"] # NoData
            /\ xcom[f]["sr_creation"].sr > 0
            /\ \/ Ends(f, "sr_worklog", xcom[f]["sr_creation"])
               \/ Ends(f, "sr_worklog", NoData)
            /\ \/ noted' = noted \cup SrOf(f, xcom[f]["sr_creation"].sr)
               \/ /\ UNCHANGED noted
                  /\ Raising => ~Returns(f, "sr_worklog", xcom[f]["sr_creation"])
  PROVE  IInv'
<1> DEFINE t == "sr_worklog"
           d == xcom[f]["sr_creation"]
<1>1. /\ t \in Task \ {"intake"} /\ "sr_creation" \in Task
      /\ task[f][t] = "none" /\ task[f]["sr_creation"] = "success"
  BY DEF Task, Follows
<1>2. d \in Data \cup {NoData} /\ SoundData(f, d)
  BY <1>1, PulledIsSound DEF IInv
<1>3. Guard(f, t)
  BY DEF Guard
<1>4. CASE Ends(f, t, NoData) /\ UNCHANGED noted
  BY <1>1, <1>3, <1>4, SilentTask DEF world
<1>5. CASE /\ d # NoData /\ d.sr > 0
           /\ Ends(f, t, d) \/ Ends(f, t, NoData)
           /\ \/ noted' = noted \cup SrOf(f, d.sr)
              \/ UNCHANGED noted /\ (Raising => ~Returns(f, t, d))
  <2>1. Created(f) /\ Number(f) = SrOf(f, d.sr)
    BY <1>1, <1>5 DEF Created, Number
  <2>2. SrOf(f, d.sr) \subseteq srs
    BY <1>2, <1>5 DEF SoundData
  <2>3. Moves(f, t)
    BY <1>1, <1>2, <1>5, EndMoves DEF IInv
  <2>5. WorldOK'
    BY <1>5, <2>2 DEF IInv, Inv, TypeOK, WorldOK
  <2>6. Inv'
    BY <2>3, <2>5, StepKeeps DEF IInv
  <2>7. Tried(f, t, d)
    BY <1>1, <1>5 DEF Tried, row
  <2>8. Rests(f, t, d)
    BY <2>1 DEF Rests
  <2>9. Number(f)' = Number(f)
    BY <2>1, <2>7, FactsStay DEF IInv, Inv, TypeOK, FlowsInv
  <2>10. ASSUME Returns(f, t, d)
         PROVE  Effective(f, t)'
    <3>1. Raising => Number(f)' \subseteq noted'
      BY <1>5, <2>1, <2>9, <2>10
    <3>2. Raising' <=> Raising
      BY DEF Raising
    <3> QED
      BY <3>1, <3>2, Zenon DEF Effective
  <2>11. written' = written /\ mails' = mails
    BY DEF row
  <2> QED
    BY <1>3, <2>6, <2>7, <2>8, <2>10, <2>11, TaskKeeps
<1> QED
  BY <1>4, <1>5

\* The row is set to the number of the SR.
LEMMA UpdateTask ==
  ASSUME IInv, NEW f \in Run, NEW how, NEW s,
         Follows(f, "activity_update", "sr_worklog"), s = Submitted,
         how = "return" => ~Raising, UNCHANGED <<world, about, kind>>,
         \/ Ends(f, "activity_update", NoData) /\ UNCHANGED row
         \/ /\ xcom[f]["sr_worklog"] # NoData
            /\ Updates(f, "activity_update", xcom[f]["sr_worklog"], s,
                       SrOf(f, xcom[f]["sr_worklog"].sr), how)
  PROVE  IInv'
<1> DEFINE t == "activity_update"
           d == xcom[f]["sr_worklog"]
<1>1. /\ t \in StatusTasks /\ "sr_worklog" \in Task
      /\ task[f][t] = "none" /\ task[f]["sr_worklog"] = "success"
  BY DEF Task, StatusTasks, Follows
<1>2. d # NoData => Rests(f, "sr_worklog", d) /\ Effective(f, "sr_worklog")
  BY <1>1, Known
<1>3. d # NoData => Rests(f, t, d)
  BY <1>2 DEF Rests, Numbering
<1>4. d # NoData /\ Raising => Number(f) \subseteq noted
  BY <1>2 DEF Effective
<1>5. StatusOf(t) = s /\ NumberFor(f, t, d) = SrOf(f, d.sr)
  BY DEF StatusOf, NumberFor
<1>6. how = "return" => ~Raising /\ t # "sr_failed_status"
  OBVIOUS
<1>7. \/ Ends(f, t, NoData) /\ UNCHANGED row
      \/ d # NoData /\ Updates(f, t, d, StatusOf(t), NumberFor(f, t, d), how)
  BY <1>5
<1> QED
  BY <1>1, <1>3, <1>4, <1>6, <1>7, StatusTask

\* The approvers are looked up.
LEMMA ApproverTask ==
  ASSUME IInv, NEW f \in Run, Follows(f, "approver", "activity_update"),
         UNCHANGED <<row, world, about, kind>>,
         \/ Ends(f, "approver", NoData)
         \/ Ends(f, "approver", xcom[f]["activity_update"])
  PROVE  IInv'
<1> DEFINE t == "approver"
           d == xcom[f]["activity_update"]
<1>1. /\ t \in Task \ {"intake"} /\ "activity_update" \in Task
      /\ task[f][t] = "none" /\ t \notin Doing
  BY DEF Task, Follows, Doing
<1>2. d # NoData => Rests(f, "activity_update", d)
  BY <1>1, Known
<1>3. d # NoData => Rests(f, t, d)
  BY <1>2 DEF Rests, Numbering
<1>4. Guard(f, t)
  BY DEF Guard
<1> QED
  BY <1>1, <1>3, <1>4, PulledIsSound, IdleTask DEF IInv

\* The SR is announced.
LEMMA SrMailTask ==
  ASSUME IInv, NEW f \in Run, NEW u \in {"activity_update", "approver"},
         Follows(f, "sr_mail", u), Raising => u = "activity_update",
         NEW k, k = IF kind = "other" THEN "filed" ELSE "submitted", NEW how,
         UNCHANGED <<row, srs, noted, about, kind>>,
         \/ Ends(f, "sr_mail", NoData) /\ UNCHANGED mails
         \/ /\ xcom[f][u] # NoData
            /\ Sends(f, "sr_mail", xcom[f][u], k, SrOf(f, xcom[f][u].sr), how)
  PROVE  IInv'
<1> DEFINE t == "sr_mail"
           d == xcom[f][u]
           n == SrOf(f, d.sr)
           m == [run |-> f, kind |-> k, sr |-> n]
<1>1. u \in Task /\ task[f][t] = "none" /\ task[f][u] = "success"
  BY DEF Task, Follows
<1>2. d \in Data \cup {NoData} /\ SoundData(f, d)
  BY <1>1, PulledIsSound DEF IInv
<1>3. k \in MailKind /\ k \in {"filed", "submitted"}
  BY Verdicts DEF MailKind
<1>4. CASE d = NoData
  <2>1. {} \in SUBSET SR
    OBVIOUS
  <2>2. t # "blocked_mail"
    OBVIOUS
  <2> QED
    BY <1>1, <1>3, <1>4, <2>1, <2>2, MailTask
<1>5. CASE d # NoData
  <2>1. Rests(f, u, d) /\ Effective(f, u)
    BY <1>1, <1>5, Known
  <2>2. Created(f) /\ n = Number(f) /\ d.sr > 0
    BY <2>1 DEF Rests, Numbering, Number, Created
  <2>3. n \in SUBSET SR
    BY <1>2, <2>2 DEF SoundData, IInv, Inv, TypeOK, WorldOK
  <2>4. Grounded(m)
    BY <1>3, <2>2 DEF Grounded
  <2>5. Told(m)
    <3>1. CASE ~Raising
      BY <1>3, <3>1 DEF Told
    <3>2. CASE Raising
      <4>1. n \subseteq noted /\ WroteNumber(f, Submitted)
        BY <2>1, <2>2, <3>2 DEF Effective
      <4>2. Verdict[k] = Submitted
        BY Verdicts DEF Submitted
      <4> QED
        BY <2>2, <4>1, <4>2 DEF Told, WroteNumber
    <3> QED
      BY <3>1, <3>2
  <2>6. Rests(f, t, d)
    BY DEF Rests, Numbering
  <2>7. \/ Ends(f, t, NoData) /\ UNCHANGED mails
        \/ d # NoData /\ Sends(f, t, d, k, n, how)
    OBVIOUS
  <2>8. t # "blocked_mail"
    OBVIOUS
  <2> HIDE DEF n
  <2> QED
    BY <1>1, <1>3, <2>3, <2>4, <2>5, <2>6, <2>7, <2>8, MailTask
<1> QED
  BY <1>4, <1>5

\* A branch is taken after the AD check.
LEMMA BranchHasAnswer ==
  ASSUME IInv, NEW f \in Run
  PROVE  task[f]["branch"] = "success" => task[f]["ad_connect"] = "success"
BY Known DEF Guard, Task

\* The AD script knows the account, or failed: the row is set.
LEMMA AnswerStatusTask ==
  ASSUME IInv, NEW f \in Run, NEW u \in {"ad_connect", "blocked_mail"}, NEW how,
         NEW t \in {"blocked_status", "ad_error_status"}, task[f][t] = "none",
         kind # "other",
         IF u = "ad_connect"
           THEN /\ Branched(f, t, IF t = "blocked_status" THEN "blocked" ELSE "error")
                /\ kind # "new user" \/ t = "ad_error_status"
           ELSE Follows(f, t, u) /\ t = "blocked_status" /\ kind = "new user",
         how = "return" => ~Raising, UNCHANGED <<world, about, kind>>,
         \/ Ends(f, t, NoData) /\ UNCHANGED row
         \/ /\ xcom[f][u] # NoData
            /\ Updates(f, t, xcom[f][u], StatusOf(t), srNo[about[f]], how)
  PROVE  IInv'
<1> DEFINE d == xcom[f][u]
<1>1. t \in StatusTasks /\ u \in Task /\ t \notin {"activity_update", "sr_failed_status"}
  BY DEF Task, StatusTasks
<1>2. d # NoData /\ u = "blocked_mail" => Rests(f, u, d) /\ Effective(f, u)
  BY <1>1, Known DEF Follows
<1>3. d # NoData => Rests(f, t, d)
  <2>1. CASE u = "ad_connect"
    <3>1. CASE t = "blocked_status"
      BY BranchHasAnswer, <2>1, <3>1 DEF Branched, Follows, Rests, Numbering, Answered
    <3>2. CASE t = "ad_error_status"
      BY BranchHasAnswer, <2>1, <3>2 DEF Branched, Follows, Rests, Numbering, Answered
    <3> QED
      BY <3>1, <3>2
  <2>2. CASE u = "blocked_mail"
    BY <1>2, <2>2 DEF Rests, Numbering
  <2> QED
    BY <2>1, <2>2
<1>4. t = "blocked_status" /\ kind = "new user" /\ d # NoData => ToldBlocked(f)
  BY <1>2 DEF Effective
<1>5. NumberFor(f, t, d) = srNo[about[f]]
  BY <1>1 DEF NumberFor
<1>6. \/ Ends(f, t, NoData) /\ UNCHANGED row
      \/ d # NoData /\ Updates(f, t, d, StatusOf(t), NumberFor(f, t, d), how)
  BY <1>5
<1> QED
  BY <1>1, <1>3, <1>4, <1>6, StatusTask

\* The requester is told so.
LEMMA AnswerMailTask ==
  ASSUME IInv, NEW f \in Run, NEW k \in {"blocked", "ad_error"},
         NEW t, t = IF k = "blocked" THEN "blocked_mail" ELSE "ad_error_mail",
         task[f][t] = "none", kind # "other",
         NEW u, IF kind = "new user" /\ k = "blocked"
                  THEN u = "ad_connect" /\ Branched(f, t, "blocked")
                  ELSE /\ u = IF k = "blocked" THEN "blocked_status" ELSE "ad_error_status"
                       /\ Follows(f, t, u),
         UNCHANGED <<row, srs, noted, about, kind>>,
         \/ Ends(f, t, NoData) /\ UNCHANGED mails
         \/ xcom[f][u] # NoData /\ Mails(f, t, xcom[f][u], k, {})
  PROVE  IInv'
<1> DEFINE d == xcom[f][u]
           m == [run |-> f, kind |-> k, sr |-> {}]
           a == IF k = "blocked" THEN "blocked" ELSE "error"
<1>1. /\ u \in Task /\ t \in {"blocked_mail", "ad_error_mail"}
      /\ {} \in SUBSET SR
  BY DEF Task
<1>2. k \in MailKind
  BY Verdicts DEF MailKind
<1>3. d # NoData /\ u # "ad_connect" => Rests(f, u, d) /\ Effective(f, u)
  BY <1>1, Known DEF Follows
<1>4. d # NoData => Answered(f, a)
  <2>1. CASE u = "ad_connect"
    BY BranchHasAnswer, <2>1 DEF Branched, Follows, Answered
  <2>2. CASE u # "ad_connect"
    BY <1>3, <2>2 DEF Rests
  <2> QED
    BY <2>1, <2>2
<1>5. d # NoData => Rests(f, t, d)
  BY <1>4 DEF Rests, Numbering
<1>6. d # NoData => Grounded(m)
  BY <1>4 DEF Grounded
<1>7. d # NoData => Told(m)
  <2>1. CASE ~Raising
    BY <2>1 DEF Told
  <2>2. CASE Raising
    <3>1. kind # "new user" /\ u # "ad_connect"
      BY <2>2 DEF Raising
    <3>2. d # NoData => Wrote(f, Verdict[k])
      BY <1>3, <2>2, <3>1, Verdicts DEF Effective
    <3> QED
      BY <3>2 DEF Told, Wrote
  <2> QED
    BY <2>1, <2>2
<1> QED
  BY <1>1, <1>2, <1>5, <1>6, <1>7, MailTask DEF Mails

\* The creation of the SR failed: the row is set.
LEMMA FailedStatusTask ==
  ASSUME IInv, NEW f \in Run, task[f]["sr_failed_status"] = "none",
         NotCreated(f), UNCHANGED <<world, about, kind>>,
         \/ Ends(f, "sr_failed_status", NoData) /\ UNCHANGED row
         \/ /\ xcom[f]["sr_creation"] # NoData
            /\ Updates(f, "sr_failed_status", xcom[f]["sr_creation"],
                       "Error in ITSM Process", srNo[about[f]], "raise")
  PROVE  IInv'
<1> DEFINE t == "sr_failed_status"
           d == xcom[f]["sr_creation"]
<1>1. t \in StatusTasks /\ "sr_creation" \in Task
  BY DEF Task, StatusTasks
<1>2. Rests(f, t, d)
  BY DEF Rests, Numbering
<1>3. StatusOf(t) = "Error in ITSM Process" /\ NumberFor(f, t, d) = srNo[about[f]]
  BY DEF StatusOf, NumberFor
<1>4. /\ t # "activity_update" /\ t # "blocked_status" /\ "raise" # "return"
  OBVIOUS
<1>5. \/ Ends(f, t, NoData) /\ UNCHANGED row
      \/ d # NoData /\ Updates(f, t, d, StatusOf(t), NumberFor(f, t, d), "raise")
  BY <1>3
<1> QED
  BY <1>1, <1>2, <1>4, <1>5, StatusTask

\* The requester is told so.
LEMMA FailedMailTask ==
  ASSUME IInv, NEW f \in Run, Follows(f, "sr_failed_mail", "sr_failed_status"),
         UNCHANGED <<row, srs, noted, about, kind>>,
         \/ Ends(f, "sr_failed_mail", NoData) /\ UNCHANGED mails
         \/ /\ xcom[f]["sr_failed_status"] # NoData
            /\ Mails(f, "sr_failed_mail", xcom[f]["sr_failed_status"], "sr_failed", {})
  PROVE  IInv'
<1> DEFINE t == "sr_failed_mail"
           u == "sr_failed_status"
           d == xcom[f][u]
           m == [run |-> f, kind |-> "sr_failed", sr |-> {}]
<1>1. /\ u \in Task /\ task[f][t] = "none" /\ task[f][u] = "success"
      /\ {} \in SUBSET SR
  BY DEF Task, Follows
<1>2. "sr_failed" \in MailKind
  BY Verdicts DEF MailKind
<1>3. d # NoData => Rests(f, u, d) /\ Effective(f, u)
  BY <1>1, Known
<1>4. Rests(f, t, d)
  BY DEF Rests, Numbering
<1>5. d # NoData => Grounded(m)
  BY <1>3 DEF Grounded, Rests
<1>6. d # NoData => Told(m)
  <2>1. d # NoData => Wrote(f, "Error in ITSM Process")
    BY <1>3 DEF Effective
  <2> QED
    BY <2>1, Verdicts DEF Told, Wrote
<1>7. t # "blocked_mail"
  OBVIOUS
<1> QED
  BY <1>1, <1>2, <1>4, <1>5, <1>6, <1>7, MailTask DEF Mails

-----------------------------------------------------------------------------
(* The flows                                                               *)

\* What stands for missing data is no answer of the AD script.
LEMMA NoDataIsNoAnswer ==
  \A a \in {"clear", "blocked", "missing", "error", "unnamed"} : NoData.ad # a
BY DEF NoData

\* The branch that creates the SR starts where Guard says.
LEMMA ClearGuards ==
  ASSUME IInv, NEW f \in Run, kind # "other", Branched(f, "sr_creation", "clear")
  PROVE  Guard(f, "sr_creation")
<1>1. task[f]["branch"] = "success" /\ xcom[f]["ad_connect"].ad = "clear"
  BY DEF Branched, Follows
<1>2. task[f]["ad_connect"] = "success"
  BY <1>1, Known DEF Guard, Task
<1>3. task[f]["fetch"] # "none"
  BY <1>2, Known DEF Guard, Task
<1> QED
  BY <1>1, <1>2, <1>3 DEF Guard, Answered

\* Every task of the password-reset flow keeps the invariant.
LEMMA ResetKeeps ==
  ASSUME IInv, NEW f \in Run, kind = "reset", ResetStep(f), UNCHANGED kind
  PROVE  IInv'
<1>1. CASE Intake(f)
  BY <1>1, IntakeTask
<1>2. CASE ResetFetchActivity(f)
  BY <1>2, FetchTask DEF ResetFetchActivity, Reads, Follows, Guard, Task
<1>3. CASE ResetAdConnect(f)
  BY <1>3, AskTask DEF ResetAdConnect, AdAnswer
<1>4. CASE Branch(f)
  BY <1>4, BranchTask
<1>5. CASE ResetSrCreation(f)
  <2> DEFINE t == "sr_creation"
             d == xcom[f]["ad_connect"]
             n == tries[f][t] + 1
  <2>1. /\ "ad_connect" \in Task /\ task[f][t] = "none"
        /\ UNCHANGED <<row, noted, mails, about, kind>>
    BY <1>5 DEF ResetSrCreation, Branched, Follows, Task
  <2>2. xcom[f]["ad_connect"] # NoData
    BY <1>5, NoDataIsNoAnswer DEF ResetSrCreation, Branched
  <2>3. Guard(f, "sr_creation")
    BY <1>5, ClearGuards DEF ResetSrCreation
  <2>4. \/ Ends(f, t, NoData) /\ UNCHANGED srs
        \/ /\ d # NoData
           /\ UNCHANGED srs \/ srs' = srs \cup SrOf(f, n)
           /\ \/ Ends(f, t, NoData)
              \/ Ends(f, t, d)
              \/ \E x \in {NoResult, Failed, NotesOnly} : Ends(f, t, [d EXCEPT !.sr = x])
        \/ /\ d # NoData
           /\ srs' = srs \cup SrOf(f, n)
           /\ Ends(f, t, [d EXCEPT !.sr = n])
    BY <1>5, <2>2 DEF ResetSrCreation, Creates, Opens, Given, Breaks, Ends
  <2> QED
    BY <2>1, <2>3, <2>4, CreateTask
<1>6. CASE ResetSrWorklog(f)
  <2> DEFINE t == "sr_worklog"
             d == xcom[f]["sr_creation"]
  <2>1. Follows(f, t, "sr_creation") /\ UNCHANGED <<row, srs, mails, about, kind>>
    BY <1>6 DEF ResetSrWorklog
  <2>2. \A e : Raises(f, t, e) => ~Returns(f, t, d)
    BY <2>1, EndsDiffer DEF IInv, Inv, TypeOK, Follows, Task
  <2>3. \/ Ends(f, t, NoData) /\ UNCHANGED noted
        \/ /\ d # NoData /\ d.sr > 0
           /\ Ends(f, t, d) \/ Ends(f, t, NoData)
           /\ \/ noted' = noted \cup SrOf(f, d.sr)
              \/ UNCHANGED noted /\ (Raising => ~Returns(f, t, d))
    BY <1>6, <2>2 DEF ResetSrWorklog, WorkInfo, Opens, Stops, Given, Fails, Breaks, Ends, Raising
  <2> QED
    BY <2>1, <2>3, NoteTask
<1>7. CASE ResetActivityUpdate(f)
  <2>1. /\ Follows(f, "activity_update", "sr_worklog")
        /\ UNCHANGED <<world, about, kind>>
        /\ "SR Submitted" = Submitted
        /\ "raise" = "return" => ~Raising
    BY <1>7 DEF ResetActivityUpdate, Submitted, Raising
  <2>2. \/ Ends(f, "activity_update", NoData) /\ UNCHANGED row
        \/ /\ xcom[f]["sr_worklog"] # NoData
           /\ Updates(f, "activity_update", xcom[f]["sr_worklog"], "SR Submitted",
                      SrOf(f, xcom[f]["sr_worklog"].sr), "raise")
    BY <1>7 DEF ResetActivityUpdate, Opens, Stops, Given, Breaks, Ends
  <2> QED
    BY <2>1, <2>2, UpdateTask
<1>8. CASE ResetSrMail(f)
  <2>1. /\ Follows(f, "sr_mail", "activity_update") /\ UNCHANGED <<row, srs, noted, about, kind>>
        /\ "submitted" = IF kind = "other" THEN "filed" ELSE "submitted"
        /\ "activity_update" \in {"activity_update", "approver"}
        /\ Raising => "activity_update" = "activity_update"
    BY <1>8 DEF ResetSrMail, Raising
  <2>2. \/ Ends(f, "sr_mail", NoData) /\ UNCHANGED mails
        \/ /\ xcom[f]["activity_update"] # NoData
           /\ Sends(f, "sr_mail", xcom[f]["activity_update"], "submitted",
                    SrOf(f, xcom[f]["activity_update"].sr), "raise")
    BY <1>8 DEF ResetSrMail, Mails, Opens, Stops, Given, Ends
  <2> QED
    BY <2>1, <2>2, SrMailTask
<1>9. CASE ResetInactiveStatus(f)
  <2> DEFINE t == "blocked_status"
             u == "ad_connect"
  <2>1. /\ task[f][t] = "none" /\ UNCHANGED <<world, about, kind>>
        /\ Branched(f, t, "blocked")
        /\ u \in {"ad_connect", "blocked_mail"}
        /\ t \in {"blocked_status", "ad_error_status"}
        /\ "raise" = "return" => ~Raising
    BY <1>9 DEF ResetInactiveStatus, Branched, Follows, Raising
  <2>2. \/ Ends(f, t, NoData) /\ UNCHANGED row
        \/ /\ xcom[f][u] # NoData
           /\ Updates(f, t, xcom[f][u], StatusOf(t), srNo[about[f]], "raise")
    BY <1>9, <2>1, NoDataIsNoAnswer
       DEF ResetInactiveStatus, StatusOf, Opens, Stops, Given, Breaks, Ends, Branched
  <2> HIDE DEF t, u
  <2> QED
    BY <2>1, <2>2, AnswerStatusTask DEF t, u
<1>10. CASE ResetInactiveMail(f)
  <2> DEFINE t == "blocked_mail"
             u == "blocked_status"
  <2>1. /\ task[f][t] = "none" /\ UNCHANGED <<row, srs, noted, about, kind>>
        /\ Follows(f, t, u)
    BY <1>10 DEF ResetInactiveMail, Branched, Follows
  <2>2. \/ Ends(f, t, NoData) /\ UNCHANGED mails
        \/ xcom[f][u] # NoData /\ Mails(f, t, xcom[f][u], "blocked", {})
    BY <1>10, <2>1, NoDataIsNoAnswer DEF ResetInactiveMail, Opens, Given, Ends, Branched
  <2> QED
    BY <2>1, <2>2, AnswerMailTask
<1>11. CASE ResetAdErrorStatus(f)
  <2> DEFINE t == "ad_error_status"
             u == "ad_connect"
  <2>1. /\ task[f][t] = "none" /\ UNCHANGED <<world, about, kind>>
        /\ Branched(f, t, "error")
        /\ u \in {"ad_connect", "blocked_mail"}
        /\ t \in {"blocked_status", "ad_error_status"}
        /\ "raise" = "return" => ~Raising
    BY <1>11 DEF ResetAdErrorStatus, Branched, Follows, Raising
  <2>2. \/ Ends(f, t, NoData) /\ UNCHANGED row
        \/ /\ xcom[f][u] # NoData
           /\ Updates(f, t, xcom[f][u], StatusOf(t), srNo[about[f]], "raise")
    BY <1>11, <2>1, NoDataIsNoAnswer
       DEF ResetAdErrorStatus, StatusOf, Opens, Stops, Given, Breaks, Ends, Branched
  <2> HIDE DEF t, u
  <2> QED
    BY <2>1, <2>2, AnswerStatusTask DEF t, u
<1>12. CASE ResetAdErrorMail(f)
  <2> DEFINE t == "ad_error_mail"
             u == "ad_error_status"
  <2>1. /\ task[f][t] = "none" /\ UNCHANGED <<row, srs, noted, about, kind>>
        /\ Follows(f, t, u)
    BY <1>12 DEF ResetAdErrorMail, Branched, Follows
  <2>2. \/ Ends(f, t, NoData) /\ UNCHANGED mails
        \/ xcom[f][u] # NoData /\ Mails(f, t, xcom[f][u], "ad_error", {})
    BY <1>12, <2>1, NoDataIsNoAnswer DEF ResetAdErrorMail, Opens, Given, Ends, Branched
  <2> QED
    BY <2>1, <2>2, AnswerMailTask
<1>13. CASE ResetSrFailedStatus(f)
  <2>1. /\ task[f]["sr_failed_status"] = "none" /\ NotCreated(f)
        /\ UNCHANGED <<world, about, kind>>
    BY <1>13 DEF ResetSrFailedStatus, NotCreated
  <2>2. \/ Ends(f, "sr_failed_status", NoData) /\ UNCHANGED row
        \/ /\ xcom[f]["sr_creation"] # NoData
           /\ Updates(f, "sr_failed_status", xcom[f]["sr_creation"],
                      "Error in ITSM Process", srNo[about[f]], "raise")
    BY <1>13, NoDataHasNoNumber DEF ResetSrFailedStatus, Opens, Given, Ends, Failed
  <2> QED
    BY <2>1, <2>2, FailedStatusTask
<1>14. CASE ResetSrFailedMail(f)
  <2>1. \/ Ends(f, "sr_failed_mail", NoData) /\ UNCHANGED mails
        \/ /\ xcom[f]["sr_failed_status"] # NoData
           /\ Mails(f, "sr_failed_mail", xcom[f]["sr_failed_status"], "sr_failed", {})
    BY <1>14 DEF ResetSrFailedMail, Opens, Given, Ends
  <2> QED
    BY <1>14, <2>1, FailedMailTask DEF ResetSrFailedMail
<1> QED
  BY <1>1, <1>2, <1>3, <1>4, <1>5, <1>6, <1>7, <1>8, <1>9, <1>10, <1>11,
     <1>12, <1>13, <1>14 DEF ResetStep

\* So does every task of the flow of a new user.
LEMMA NewUserKeeps ==
  ASSUME IInv, NEW f \in Run, kind = "new user", NewUserStep(f), UNCHANGED kind
  PROVE  IInv'
<1>1. CASE Intake(f)
  BY <1>1, IntakeTask
<1>2. CASE NewUserFetchActivity(f)
  BY <1>2, FetchTask DEF NewUserFetchActivity, Reads, Follows, Guard, Task
<1>3. CASE NewUserAdConnect(f)
  BY <1>3, AskTask DEF NewUserAdConnect, AdAnswer
<1>4. CASE Branch(f)
  BY <1>4, BranchTask
<1>5. CASE NewUserSrCreation(f)
  <2> DEFINE t == "sr_creation"
             d == xcom[f]["ad_connect"]
             n == tries[f][t] + 1
  <2>1. /\ "ad_connect" \in Task /\ task[f][t] = "none"
        /\ UNCHANGED <<row, noted, mails, about, kind>>
    BY <1>5 DEF NewUserSrCreation, Branched, Follows, Task
  <2>2. xcom[f]["ad_connect"] # NoData
    BY <1>5, NoDataIsNoAnswer DEF NewUserSrCreation, Branched
  <2>3. Guard(f, "sr_creation")
    BY <1>5, ClearGuards DEF NewUserSrCreation
  <2>4. \/ Ends(f, t, NoData) /\ UNCHANGED srs
        \/ /\ d # NoData
           /\ UNCHANGED srs \/ srs' = srs \cup SrOf(f, n)
           /\ \/ Ends(f, t, NoData)
              \/ Ends(f, t, d)
              \/ \E x \in {NoResult, Failed, NotesOnly} : Ends(f, t, [d EXCEPT !.sr = x])
        \/ /\ d # NoData
           /\ srs' = srs \cup SrOf(f, n)
           /\ Ends(f, t, [d EXCEPT !.sr = n])
    BY <1>5, <2>2 DEF NewUserSrCreation, Creates, Opens, Given, Breaks, Ends
  <2> QED
    BY <2>1, <2>3, <2>4, CreateTask
<1>6. CASE NewUserSrWorklog(f)
  <2> DEFINE t == "sr_worklog"
             d == xcom[f]["sr_creation"]
  <2>1. Follows(f, t, "sr_creation") /\ UNCHANGED <<row, srs, mails, about, kind>>
    BY <1>6 DEF NewUserSrWorklog
  <2>2. \A e : Raises(f, t, e) => ~Returns(f, t, d)
    BY <2>1, EndsDiffer DEF IInv, Inv, TypeOK, Follows, Task
  <2>3. \/ Ends(f, t, NoData) /\ UNCHANGED noted
        \/ /\ d # NoData /\ d.sr > 0
           /\ Ends(f, t, d) \/ Ends(f, t, NoData)
           /\ \/ noted' = noted \cup SrOf(f, d.sr)
              \/ UNCHANGED noted /\ (Raising => ~Returns(f, t, d))
    BY <1>6, <2>2 DEF NewUserSrWorklog, WorkInfo, Opens, Stops, Given, Fails, Breaks, Ends, Raising
  <2> QED
    BY <2>1, <2>3, NoteTask
<1>7. CASE NewUserActivityUpdate(f)
  <2>1. /\ Follows(f, "activity_update", "sr_worklog")
        /\ UNCHANGED <<world, about, kind>>
        /\ "SR Submitted" = Submitted
        /\ "return" = "return" => ~Raising
    BY <1>7 DEF NewUserActivityUpdate, Submitted, Raising
  <2>2. \/ Ends(f, "activity_update", NoData) /\ UNCHANGED row
        \/ /\ xcom[f]["sr_worklog"] # NoData
           /\ Updates(f, "activity_update", xcom[f]["sr_worklog"], "SR Submitted",
                      SrOf(f, xcom[f]["sr_worklog"].sr), "return")
    BY <1>7 DEF NewUserActivityUpdate, Opens, Stops, Given, Breaks, Ends
  <2> QED
    BY <2>1, <2>2, UpdateTask
<1>8. CASE NewUserFetchApprover(f)
  BY <1>8, ApproverTask DEF NewUserFetchApprover, Opens, Stops, Breaks, Ends
<1>9. CASE NewUserSrMail(f)
  <2>1. /\ Follows(f, "sr_mail", "approver") /\ UNCHANGED <<row, srs, noted, about, kind>>
        /\ "submitted" = IF kind = "other" THEN "filed" ELSE "submitted"
        /\ "approver" \in {"activity_update", "approver"}
        /\ Raising => "approver" = "activity_update"
    BY <1>9 DEF NewUserSrMail, Raising
  <2>2. \/ Ends(f, "sr_mail", NoData) /\ UNCHANGED mails
        \/ /\ xcom[f]["approver"] # NoData
           /\ Sends(f, "sr_mail", xcom[f]["approver"], "submitted",
                    SrOf(f, xcom[f]["approver"].sr), "raise")
    BY <1>9 DEF NewUserSrMail, Mails, Opens, Stops, Given, Ends
  <2> QED
    BY <2>1, <2>2, SrMailTask
<1>10. CASE NewUserExistingUserMail(f)
  <2> DEFINE t == "blocked_mail"
             u == "ad_connect"
  <2>1. /\ task[f][t] = "none" /\ UNCHANGED <<row, srs, noted, about, kind>>
        /\ Branched(f, t, "blocked")
    BY <1>10 DEF NewUserExistingUserMail, Branched, Follows
  <2>2. \/ Ends(f, t, NoData) /\ UNCHANGED mails
        \/ xcom[f][u] # NoData /\ Mails(f, t, xcom[f][u], "blocked", {})
    BY <1>10, <2>1, NoDataIsNoAnswer DEF NewUserExistingUserMail, Opens, Given, Ends, Branched
  <2> QED
    BY <2>1, <2>2, AnswerMailTask
<1>11. CASE NewUserExistingUserStatus(f)
  <2> DEFINE t == "blocked_status"
             u == "blocked_mail"
  <2>1. /\ task[f][t] = "none" /\ UNCHANGED <<world, about, kind>>
        /\ Follows(f, t, u)
        /\ u \in {"ad_connect", "blocked_mail"}
        /\ t \in {"blocked_status", "ad_error_status"}
        /\ "return" = "return" => ~Raising
    BY <1>11 DEF NewUserExistingUserStatus, Branched, Follows, Raising
  <2>2. \/ Ends(f, t, NoData) /\ UNCHANGED row
        \/ /\ xcom[f][u] # NoData
           /\ Updates(f, t, xcom[f][u], StatusOf(t), srNo[about[f]], "return")
    BY <1>11, <2>1, NoDataIsNoAnswer
       DEF NewUserExistingUserStatus, StatusOf, Opens, Stops, Given, Breaks, Ends, Branched
  <2> HIDE DEF t, u
  <2> QED
    BY <2>1, <2>2, AnswerStatusTask DEF t, u
<1>12. CASE NewUserAdErrorStatus(f)
  <2> DEFINE t == "ad_error_status"
             u == "ad_connect"
  <2>1. /\ task[f][t] = "none" /\ UNCHANGED <<world, about, kind>>
        /\ Branched(f, t, "error")
        /\ u \in {"ad_connect", "blocked_mail"}
        /\ t \in {"blocked_status", "ad_error_status"}
        /\ "return" = "return" => ~Raising
    BY <1>12 DEF NewUserAdErrorStatus, Branched, Follows, Raising
  <2>2. \/ Ends(f, t, NoData) /\ UNCHANGED row
        \/ /\ xcom[f][u] # NoData
           /\ Updates(f, t, xcom[f][u], StatusOf(t), srNo[about[f]], "return")
    BY <1>12, <2>1, NoDataIsNoAnswer
       DEF NewUserAdErrorStatus, StatusOf, Opens, Stops, Given, Breaks, Ends, Branched
  <2> HIDE DEF t, u
  <2> QED
    BY <2>1, <2>2, AnswerStatusTask DEF t, u
<1>13. CASE NewUserAdErrorMail(f)
  <2> DEFINE t == "ad_error_mail"
             u == "ad_error_status"
  <2>1. /\ task[f][t] = "none" /\ UNCHANGED <<row, srs, noted, about, kind>>
        /\ Follows(f, t, u)
    BY <1>13 DEF NewUserAdErrorMail, Branched, Follows
  <2>2. \/ Ends(f, t, NoData) /\ UNCHANGED mails
        \/ xcom[f][u] # NoData /\ Mails(f, t, xcom[f][u], "ad_error", {})
    BY <1>13, <2>1, NoDataIsNoAnswer DEF NewUserAdErrorMail, Opens, Given, Ends, Branched
  <2> QED
    BY <2>1, <2>2, AnswerMailTask
<1>14. CASE NewUserSrFailedStatus(f)
  <2>1. /\ task[f]["sr_failed_status"] = "none" /\ NotCreated(f)
        /\ UNCHANGED <<world, about, kind>>
    BY <1>14 DEF NewUserSrFailedStatus, NotCreated
  <2>2. \/ Ends(f, "sr_failed_status", NoData) /\ UNCHANGED row
        \/ /\ xcom[f]["sr_creation"] # NoData
           /\ Updates(f, "sr_failed_status", xcom[f]["sr_creation"],
                      "Error in ITSM Process", srNo[about[f]], "raise")
    BY <1>14, NoDataHasNoNumber DEF NewUserSrFailedStatus, Opens, Given, Ends, Failed
  <2> QED
    BY <2>1, <2>2, FailedStatusTask
<1>15. CASE NewUserSrFailedMail(f)
  <2>1. \/ Ends(f, "sr_failed_mail", NoData) /\ UNCHANGED mails
        \/ /\ xcom[f]["sr_failed_status"] # NoData
           /\ Mails(f, "sr_failed_mail", xcom[f]["sr_failed_status"], "sr_failed", {})
    BY <1>15 DEF NewUserSrFailedMail, Opens, Given, Ends
  <2> QED
    BY <1>15, <2>1, FailedMailTask DEF NewUserSrFailedMail
<1> QED
  BY <1>1, <1>2, <1>3, <1>4, <1>5, <1>6, <1>7, <1>8, <1>9, <1>10, <1>11,
     <1>12, <1>13, <1>14, <1>15 DEF NewUserStep

\* So does every task of the flow of a new service account.
LEMMA NewServiceKeeps ==
  ASSUME IInv, NEW f \in Run, kind = "new service", NewServiceStep(f), UNCHANGED kind
  PROVE  IInv'
<1>1. CASE Intake(f)
  BY <1>1, IntakeTask
<1>2. CASE NewServiceNameCheck(f)
  <2> DEFINE t == "name_check"
             d == xcom[f]["intake"]
             e == [d EXCEPT !.ad = "unnamed"]
  <2>1. /\ task[f][t] = "none" /\ t \in Task \ {"intake"} /\ "intake" \in Task
        /\ t \notin Doing /\ UNCHANGED <<row, world, about, kind>>
    BY <1>2 DEF NewServiceNameCheck, Follows, Task, Doing
  <2>2. d \in Data \cup {NoData} /\ SoundData(f, d)
    BY <2>1, PulledIsSound DEF IInv
  <2>3. Guard(f, t) /\ \A x : Rests(f, t, x)
    BY DEF Guard, Rests, Numbering
  <2>4. CASE Ends(f, t, d) \/ Ends(f, t, NoData)
    BY <2>1, <2>2, <2>3, <2>4, IdleTask
  <2>5. CASE d # NoData /\ Ends(f, t, e)
    <3>1. e \in Data /\ e.sr = d.sr
      BY <2>2, <2>5 DEF Data
    <3>2. SoundData(f, e)
      BY <2>2, <2>5, <3>1 DEF SoundData
    <3> QED
      BY <2>1, <2>3, <2>5, <3>1, <3>2, IdleTask
  <2> QED
    BY <1>2, <2>4, <2>5 DEF NewServiceNameCheck, Given, Breaks, Ends
<1>3. CASE NewServiceNameMail(f)
  <2> DEFINE t == "name_mail"
             d == xcom[f]["name_check"]
             m == [run |-> f, kind |-> "name", sr |-> {}]
  <2>1. /\ task[f][t] = "none" /\ task[f]["name_check"] = "success"
        /\ d.ad = "unnamed" /\ d # NoData
        /\ t \in Task \ {"intake"} /\ "name_check" \in Task
        /\ t \notin Doing /\ UNCHANGED <<row, srs, noted, about, kind>>
    BY <1>3, NoDataIsNoAnswer DEF NewServiceNameMail, Follows, Task, Doing
  <2>2. d \in Data \cup {NoData} /\ SoundData(f, d)
    BY <2>1, PulledIsSound DEF IInv
  <2>3. Guard(f, t) /\ Rests(f, t, d)
    BY DEF Guard, Rests, Numbering
  <2>4. CASE /\ Ends(f, t, d) \/ Ends(f, t, NoData)
             /\ UNCHANGED mails
    BY <2>1, <2>2, <2>3, <2>4, IdleTask DEF world
  <2>5. CASE Mails(f, t, d, "name", {})
    <3>1. Grounded(m) /\ Told(m)
      BY <2>1, Verdicts DEF Grounded, Told, Unnamed, Raising
    <3>2. "name" \in MailKind /\ {} \in SUBSET SR /\ t # "blocked_mail"
      BY DEF MailKind
    <3> QED
      BY <2>1, <2>3, <2>5, <3>1, <3>2, MailTask DEF Mails
  <2> QED
    BY <1>3, <2>4, <2>5 DEF NewServiceNameMail, Opens, Ends
<1>4. CASE NewServiceFetchActivity(f)
  <2>1. Guard(f, "fetch")
    BY <1>4 DEF NewServiceFetchActivity, Follows, Guard
  <2> QED
    BY <1>4, <2>1, FetchTask DEF NewServiceFetchActivity, Follows, Task
<1>5. CASE NewServiceAdConnect(f)
  BY <1>5, AskTask DEF NewServiceAdConnect, AdAnswer
<1>6. CASE Branch(f)
  BY <1>6, BranchTask
<1>7. CASE NewServiceSrCreation(f)
  <2> DEFINE t == "sr_creation"
             d == xcom[f]["ad_connect"]
             n == tries[f][t] + 1
  <2>1. /\ "ad_connect" \in Task /\ task[f][t] = "none"
        /\ UNCHANGED <<row, noted, mails, about, kind>>
    BY <1>7 DEF NewServiceSrCreation, Branched, Follows, Task
  <2>2. xcom[f]["ad_connect"] # NoData
    BY <1>7, NoDataIsNoAnswer DEF NewServiceSrCreation, Branched
  <2>3. Guard(f, "sr_creation")
    BY <1>7, ClearGuards DEF NewServiceSrCreation
  <2>4. \/ Ends(f, t, NoData) /\ UNCHANGED srs
        \/ /\ d # NoData
           /\ UNCHANGED srs \/ srs' = srs \cup SrOf(f, n)
           /\ \/ Ends(f, t, NoData)
              \/ Ends(f, t, d)
              \/ \E x \in {NoResult, Failed, NotesOnly} : Ends(f, t, [d EXCEPT !.sr = x])
        \/ /\ d # NoData
           /\ srs' = srs \cup SrOf(f, n)
           /\ Ends(f, t, [d EXCEPT !.sr = n])
    BY <1>7, <2>2 DEF NewServiceSrCreation, Creates, Opens, Given, Breaks, Ends
  <2> QED
    BY <2>1, <2>3, <2>4, CreateTask
<1>8. CASE NewServiceSrWorklog(f)
  <2> DEFINE t == "sr_worklog"
             d == xcom[f]["sr_creation"]
  <2>1. Follows(f, t, "sr_creation") /\ UNCHANGED <<row, srs, mails, about, kind>>
    BY <1>8 DEF NewServiceSrWorklog
  <2>2. \A e : Raises(f, t, e) => ~Returns(f, t, d)
    BY <2>1, EndsDiffer DEF IInv, Inv, TypeOK, Follows, Task
  <2>3. \/ Ends(f, t, NoData) /\ UNCHANGED noted
        \/ /\ d # NoData /\ d.sr > 0
           /\ Ends(f, t, d) \/ Ends(f, t, NoData)
           /\ \/ noted' = noted \cup SrOf(f, d.sr)
              \/ UNCHANGED noted /\ (Raising => ~Returns(f, t, d))
    BY <1>8, <2>2 DEF NewServiceSrWorklog, WorkInfo, Opens, Stops, Given, Fails, Breaks, Ends, Raising
  <2> QED
    BY <2>1, <2>3, NoteTask
<1>9. CASE NewServiceActivityUpdate(f)
  <2>1. /\ Follows(f, "activity_update", "sr_worklog")
        /\ UNCHANGED <<world, about, kind>>
        /\ "SR Submitted" = Submitted
        /\ "return" = "return" => ~Raising
    BY <1>9 DEF NewServiceActivityUpdate, Submitted, Raising
  <2>2. \/ Ends(f, "activity_update", NoData) /\ UNCHANGED row
        \/ /\ xcom[f]["sr_worklog"] # NoData
           /\ Updates(f, "activity_update", xcom[f]["sr_worklog"], "SR Submitted",
                      SrOf(f, xcom[f]["sr_worklog"].sr), "return")
    BY <1>9 DEF NewServiceActivityUpdate, Opens, Stops, Given, Breaks, Ends
  <2> QED
    BY <2>1, <2>2, UpdateTask
<1>10. CASE NewServiceFetchApprover(f)
  BY <1>10, ApproverTask DEF NewServiceFetchApprover, Opens, Stops, Breaks, Ends
<1>11. CASE NewServiceSrMail(f)
  <2>1. /\ Follows(f, "sr_mail", "approver") /\ UNCHANGED <<row, srs, noted, about, kind>>
        /\ "submitted" = IF kind = "other" THEN "filed" ELSE "submitted"
        /\ "approver" \in {"activity_update", "approver"}
        /\ Raising => "approver" = "activity_update"
    BY <1>11 DEF NewServiceSrMail, Raising
  <2>2. \/ Ends(f, "sr_mail", NoData) /\ UNCHANGED mails
        \/ /\ xcom[f]["approver"] # NoData
           /\ Sends(f, "sr_mail", xcom[f]["approver"], "submitted",
                    SrOf(f, xcom[f]["approver"].sr), "return")
    BY <1>11 DEF NewServiceSrMail, Mails, Opens, Stops, Given, Ends
  <2> QED
    BY <2>1, <2>2, SrMailTask
<1>12. CASE NewServiceExistingStatus(f)
  <2> DEFINE t == "blocked_status"
             u == "ad_connect"
  <2>1. /\ task[f][t] = "none" /\ UNCHANGED <<world, about, kind>>
        /\ Branched(f, t, "blocked")
        /\ u \in {"ad_connect", "blocked_mail"}
        /\ t \in {"blocked_status", "ad_error_status"}
        /\ "return" = "return" => ~Raising
    BY <1>12 DEF NewServiceExistingStatus, Branched, Follows, Raising
  <2>2. \/ Ends(f, t, NoData) /\ UNCHANGED row
        \/ /\ xcom[f][u] # NoData
           /\ Updates(f, t, xcom[f][u], StatusOf(t), srNo[about[f]], "return")
    BY <1>12, <2>1, NoDataIsNoAnswer
       DEF NewServiceExistingStatus, StatusOf, Opens, Stops, Given, Breaks, Ends, Branched
  <2> HIDE DEF t, u
  <2> QED
    BY <2>1, <2>2, AnswerStatusTask DEF t, u
<1>13. CASE NewServiceExistingMail(f)
  <2> DEFINE t == "blocked_mail"
             u == "blocked_status"
  <2>1. /\ task[f][t] = "none" /\ UNCHANGED <<row, srs, noted, about, kind>>
        /\ Follows(f, t, u)
    BY <1>13 DEF NewServiceExistingMail, Branched, Follows
  <2>2. \/ Ends(f, t, NoData) /\ UNCHANGED mails
        \/ xcom[f][u] # NoData /\ Mails(f, t, xcom[f][u], "blocked", {})
    BY <1>13, <2>1, NoDataIsNoAnswer DEF NewServiceExistingMail, Opens, Given, Ends, Branched
  <2> QED
    BY <2>1, <2>2, AnswerMailTask
<1>14. CASE NewServiceAdErrorStatus(f)
  <2>1. Ends(f, "ad_error_status", NoData) /\ UNCHANGED <<row, world, about, kind>>
    BY <1>14 DEF NewServiceAdErrorStatus, Opens, Stops, Ends
  <2>2. task[f]["ad_error_status"] = "none" /\ "ad_error_status" \in Task \ {"intake"}
    BY <1>14 DEF NewServiceAdErrorStatus, Branched, Follows, Task
  <2> QED
    BY <2>1, <2>2, SilentTask DEF Guard
<1>15. CASE NewServiceAdErrorMail(f)
  <2>1. Ends(f, "ad_error_mail", NoData) /\ UNCHANGED <<row, world, about, kind>>
    BY <1>15 DEF NewServiceAdErrorMail, Opens, Stops, Ends
  <2>2. task[f]["ad_error_mail"] = "none" /\ "ad_error_mail" \in Task \ {"intake"}
    BY <1>15 DEF NewServiceAdErrorMail, Branched, Follows, Task
  <2> QED
    BY <2>1, <2>2, SilentTask DEF Guard
<1>16. CASE NewServiceSrFailedStatus(f)
  <2>1. /\ task[f]["sr_failed_status"] = "none" /\ NotCreated(f)
        /\ UNCHANGED <<world, about, kind>>
    BY <1>16 DEF NewServiceSrFailedStatus, NotCreated
  <2>2. \/ Ends(f, "sr_failed_status", NoData) /\ UNCHANGED row
        \/ /\ xcom[f]["sr_creation"] # NoData
           /\ Updates(f, "sr_failed_status", xcom[f]["sr_creation"],
                      "Error in ITSM Process", srNo[about[f]], "raise")
    BY <1>16, NoDataHasNoNumber DEF NewServiceSrFailedStatus, Opens, Given, Ends, Failed
  <2> QED
    BY <2>1, <2>2, FailedStatusTask
<1>17. CASE NewServiceSrFailedMail(f)
  <2>1. \/ Ends(f, "sr_failed_mail", NoData) /\ UNCHANGED mails
        \/ /\ xcom[f]["sr_failed_status"] # NoData
           /\ Mails(f, "sr_failed_mail", xcom[f]["sr_failed_status"], "sr_failed", {})
    BY <1>17 DEF NewServiceSrFailedMail, Opens, Given, Ends
  <2> QED
    BY <1>17, <2>1, FailedMailTask DEF NewServiceSrFailedMail
<1> QED
  BY <1>1, <1>2, <1>3, <1>4, <1>5, <1>6, <1>7, <1>8, <1>9, <1>10, <1>11,
     <1>12, <1>13, <1>14, <1>15, <1>16, <1>17 DEF NewServiceStep

\* So does every task of the flow that modifies an account.
LEMMA ModifyKeeps ==
  ASSUME IInv, NEW f \in Run, kind = "modify", ModifyStep(f), UNCHANGED kind
  PROVE  IInv'
<1>1. CASE Intake(f)
  BY <1>1, IntakeTask
<1>2. CASE ModifyFetchActivity(f)
  BY <1>2, FetchTask DEF ModifyFetchActivity, Reads, Follows, Guard, Task
<1>3. CASE ModifyAdConnect(f)
  BY <1>3, AskTask DEF ModifyAdConnect, AdAnswer
<1>4. CASE Branch(f)
  BY <1>4, BranchTask
<1>5. CASE ModifySrCreation(f)
  <2> DEFINE t == "sr_creation"
             d == xcom[f]["ad_connect"]
             n == tries[f][t] + 1
  <2>1. /\ "ad_connect" \in Task /\ task[f][t] = "none"
        /\ UNCHANGED <<row, noted, mails, about, kind>>
    BY <1>5 DEF ModifySrCreation, Branched, Follows, Task
  <2>2. xcom[f]["ad_connect"] # NoData
    BY <1>5, NoDataIsNoAnswer DEF ModifySrCreation, Branched
  <2>3. Guard(f, "sr_creation")
    BY <1>5, ClearGuards DEF ModifySrCreation
  <2>4. \/ Ends(f, t, NoData) /\ UNCHANGED srs
        \/ /\ d # NoData
           /\ UNCHANGED srs \/ srs' = srs \cup SrOf(f, n)
           /\ \/ Ends(f, t, NoData)
              \/ Ends(f, t, d)
              \/ \E x \in {NoResult, Failed, NotesOnly} : Ends(f, t, [d EXCEPT !.sr = x])
        \/ /\ d # NoData
           /\ srs' = srs \cup SrOf(f, n)
           /\ Ends(f, t, [d EXCEPT !.sr = n])
    BY <1>5, <2>2 DEF ModifySrCreation, Creates, Opens, Given, Breaks, Ends
  <2> QED
    BY <2>1, <2>3, <2>4, CreateTask
<1>6. CASE ModifySrWorklog(f)
  <2> DEFINE t == "sr_worklog"
             d == xcom[f]["sr_creation"]
  <2>1. Follows(f, t, "sr_creation") /\ UNCHANGED <<row, srs, mails, about, kind>>
    BY <1>6 DEF ModifySrWorklog
  <2>2. \A e : Raises(f, t, e) => ~Returns(f, t, d)
    BY <2>1, EndsDiffer DEF IInv, Inv, TypeOK, Follows, Task
  <2>3. \/ Ends(f, t, NoData) /\ UNCHANGED noted
        \/ /\ d # NoData /\ d.sr > 0
           /\ Ends(f, t, d) \/ Ends(f, t, NoData)
           /\ \/ noted' = noted \cup SrOf(f, d.sr)
              \/ UNCHANGED noted /\ (Raising => ~Returns(f, t, d))
    BY <1>6, <2>2 DEF ModifySrWorklog, WorkInfo, Opens, Stops, Given, Fails, Breaks, Ends, Raising
  <2> QED
    BY <2>1, <2>3, NoteTask
<1>7. CASE ModifyActivityUpdate(f)
  <2>1. /\ Follows(f, "activity_update", "sr_worklog")
        /\ UNCHANGED <<world, about, kind>>
        /\ "SR Submitted" = Submitted
        /\ "return" = "return" => ~Raising
    BY <1>7 DEF ModifyActivityUpdate, Submitted, Raising
  <2>2. \/ Ends(f, "activity_update", NoData) /\ UNCHANGED row
        \/ /\ xcom[f]["sr_worklog"] # NoData
           /\ Updates(f, "activity_update", xcom[f]["sr_worklog"], "SR Submitted",
                      SrOf(f, xcom[f]["sr_worklog"].sr), "return")
    BY <1>7 DEF ModifyActivityUpdate, Opens, Stops, Given, Breaks, Ends
  <2> QED
    BY <2>1, <2>2, UpdateTask
<1>8. CASE ModifyFetchApprover(f)
  BY <1>8, ApproverTask DEF ModifyFetchApprover, Opens, Stops, Breaks, Ends
<1>9. CASE ModifySrMail(f)
  <2>1. /\ Follows(f, "sr_mail", "approver") /\ UNCHANGED <<row, srs, noted, about, kind>>
        /\ "submitted" = IF kind = "other" THEN "filed" ELSE "submitted"
        /\ "approver" \in {"activity_update", "approver"}
        /\ Raising => "approver" = "activity_update"
    BY <1>9 DEF ModifySrMail, Raising
  <2>2. \/ Ends(f, "sr_mail", NoData) /\ UNCHANGED mails
        \/ /\ xcom[f]["approver"] # NoData
           /\ Sends(f, "sr_mail", xcom[f]["approver"], "submitted",
                    SrOf(f, xcom[f]["approver"].sr), "raise")
    BY <1>9 DEF ModifySrMail, Mails, Opens, Stops, Given, Ends
  <2> QED
    BY <2>1, <2>2, SrMailTask
<1>10. CASE ModifyExistingStatus(f)
  <2> DEFINE t == "blocked_status"
             u == "ad_connect"
  <2>1. /\ task[f][t] = "none" /\ UNCHANGED <<world, about, kind>>
        /\ Branched(f, t, "blocked")
        /\ u \in {"ad_connect", "blocked_mail"}
        /\ t \in {"blocked_status", "ad_error_status"}
        /\ "return" = "return" => ~Raising
    BY <1>10 DEF ModifyExistingStatus, Branched, Follows, Raising
  <2>2. \/ Ends(f, t, NoData) /\ UNCHANGED row
        \/ /\ xcom[f][u] # NoData
           /\ Updates(f, t, xcom[f][u], StatusOf(t), srNo[about[f]], "return")
    BY <1>10, <2>1, NoDataIsNoAnswer
       DEF ModifyExistingStatus, StatusOf, Opens, Stops, Given, Breaks, Ends, Branched
  <2> HIDE DEF t, u
  <2> QED
    BY <2>1, <2>2, AnswerStatusTask DEF t, u
<1>11. CASE ModifyExistingMail(f)
  <2> DEFINE t == "blocked_mail"
             u == "blocked_status"
  <2>1. /\ task[f][t] = "none" /\ UNCHANGED <<row, srs, noted, about, kind>>
        /\ Follows(f, t, u)
    BY <1>11 DEF ModifyExistingMail, Branched, Follows
  <2>2. \/ Ends(f, t, NoData) /\ UNCHANGED mails
        \/ xcom[f][u] # NoData /\ Mails(f, t, xcom[f][u], "blocked", {})
    BY <1>11, <2>1, NoDataIsNoAnswer DEF ModifyExistingMail, Opens, Given, Ends, Branched
  <2> QED
    BY <2>1, <2>2, AnswerMailTask
<1>12. CASE ModifyNonExistingStatus(f)
  <2>1. Ends(f, "missing_status", NoData) /\ UNCHANGED <<row, world, about, kind>>
    BY <1>12 DEF ModifyNonExistingStatus, Opens, Stops, Ends
  <2>2. task[f]["missing_status"] = "none" /\ "missing_status" \in Task \ {"intake"}
    BY <1>12 DEF ModifyNonExistingStatus, Branched, Follows, Task
  <2> QED
    BY <2>1, <2>2, SilentTask DEF Guard
<1>13. CASE ModifyNonExistingMail(f)
  <2>1. Ends(f, "missing_mail", NoData) /\ UNCHANGED <<row, world, about, kind>>
    BY <1>13 DEF ModifyNonExistingMail, Opens, Stops, Ends
  <2>2. task[f]["missing_mail"] = "none" /\ "missing_mail" \in Task \ {"intake"}
    BY <1>13 DEF ModifyNonExistingMail, Branched, Follows, Task
  <2> QED
    BY <2>1, <2>2, SilentTask DEF Guard
<1>14. CASE ModifyAdErrorStatus(f)
  <2> DEFINE t == "ad_error_status"
             u == "ad_connect"
  <2>1. /\ task[f][t] = "none" /\ UNCHANGED <<world, about, kind>>
        /\ Branched(f, t, "error")
        /\ u \in {"ad_connect", "blocked_mail"}
        /\ t \in {"blocked_status", "ad_error_status"}
        /\ "return" = "return" => ~Raising
    BY <1>14 DEF ModifyAdErrorStatus, Branched, Follows, Raising
  <2>2. \/ Ends(f, t, NoData) /\ UNCHANGED row
        \/ /\ xcom[f][u] # NoData
           /\ Updates(f, t, xcom[f][u], StatusOf(t), srNo[about[f]], "return")
    BY <1>14, <2>1, NoDataIsNoAnswer
       DEF ModifyAdErrorStatus, StatusOf, Opens, Stops, Given, Breaks, Ends, Branched
  <2> HIDE DEF t, u
  <2> QED
    BY <2>1, <2>2, AnswerStatusTask DEF t, u
<1>15. CASE ModifyAdErrorMail(f)
  <2> DEFINE t == "ad_error_mail"
             u == "ad_error_status"
  <2>1. /\ task[f][t] = "none" /\ UNCHANGED <<row, srs, noted, about, kind>>
        /\ Follows(f, t, u)
    BY <1>15 DEF ModifyAdErrorMail, Branched, Follows
  <2>2. \/ Ends(f, t, NoData) /\ UNCHANGED mails
        \/ xcom[f][u] # NoData /\ Mails(f, t, xcom[f][u], "ad_error", {})
    BY <1>15, <2>1, NoDataIsNoAnswer DEF ModifyAdErrorMail, Opens, Given, Ends, Branched
  <2> QED
    BY <2>1, <2>2, AnswerMailTask
<1>16. CASE ModifySrFailedStatus(f)
  <2>1. /\ task[f]["sr_failed_status"] = "none" /\ NotCreated(f)
        /\ UNCHANGED <<world, about, kind>>
    BY <1>16 DEF ModifySrFailedStatus, NotCreated
  <2>2. xcom[f]["sr_creation"].sr = Failed => xcom[f]["sr_creation"] # NoData
    BY NoDataHasNoNumber DEF Failed
  <2>3. \/ Ends(f, "sr_failed_status", NoData) /\ UNCHANGED row
        \/ /\ xcom[f]["sr_creation"] # NoData
           /\ Updates(f, "sr_failed_status", xcom[f]["sr_creation"],
                      "Error in ITSM Process", srNo[about[f]], "raise")
    BY <1>16, <2>2 DEF ModifySrFailedStatus, Opens, Ends
  <2> QED
    BY <2>1, <2>3, FailedStatusTask
<1>17. CASE ModifySrFailedMail(f)
  <2>1. Ends(f, "sr_failed_mail", NoData) /\ UNCHANGED <<row, world, about, kind>>
    BY <1>17 DEF ModifySrFailedMail, Opens, Stops, Ends
  <2>2. task[f]["sr_failed_mail"] = "none" /\ "sr_failed_mail" \in Task \ {"intake"}
    BY <1>17 DEF ModifySrFailedMail, Branched, Follows, Task
  <2> QED
    BY <2>1, <2>2, SilentTask DEF Guard
<1> QED
  BY <1>1, <1>2, <1>3, <1>4, <1>5, <1>6, <1>7, <1>8, <1>9, <1>10, <1>11,
     <1>12, <1>13, <1>14, <1>15, <1>16, <1>17 DEF ModifyStep

\* So does every task of the flow of the other requests.
LEMMA OtherKeeps ==
  ASSUME IInv, NEW f \in Run, kind = "other", OtherStep(f), UNCHANGED kind
  PROVE  IInv'
<1>1. CASE Intake(f)
  BY <1>1, IntakeTask
<1>2. CASE OtherFetchActivity(f)
  BY <1>2, FetchTask DEF OtherFetchActivity, Reads, Follows, Guard, Task
<1>3. CASE OtherSrCreation(f)
  <2> DEFINE t == "sr_creation"
             d == xcom[f]["fetch"]
             n == tries[f][t] + 1
  <2>1. /\ "fetch" \in Task /\ task[f][t] = "none"
        /\ UNCHANGED <<row, noted, mails, about, kind>>
    BY <1>3 DEF OtherSrCreation, Branched, Follows, Task
  <2>3. Guard(f, "sr_creation")
    BY <1>3 DEF OtherSrCreation, Follows, Guard
  <2>4. \/ Ends(f, t, NoData) /\ UNCHANGED srs
        \/ /\ d # NoData
           /\ UNCHANGED srs \/ srs' = srs \cup SrOf(f, n)
           /\ \/ Ends(f, t, NoData)
              \/ Ends(f, t, d)
              \/ \E x \in {NoResult, Failed, NotesOnly} : Ends(f, t, [d EXCEPT !.sr = x])
        \/ /\ d # NoData
           /\ srs' = srs \cup SrOf(f, n)
           /\ Ends(f, t, [d EXCEPT !.sr = n])
    BY <1>3 DEF OtherSrCreation, Creates, Opens, Given, Breaks, Ends
  <2> QED
    BY <2>1, <2>3, <2>4, CreateTask
<1>4. CASE OtherSrWorklog(f)
  <2> DEFINE t == "sr_worklog"
             d == xcom[f]["sr_creation"]
  <2>1. Follows(f, t, "sr_creation") /\ UNCHANGED <<row, srs, mails, about, kind>>
    BY <1>4 DEF OtherSrWorklog
  <2>2. \A e : Raises(f, t, e) => ~Returns(f, t, d)
    BY <2>1, EndsDiffer DEF IInv, Inv, TypeOK, Follows, Task
  <2>3. \/ Ends(f, t, NoData) /\ UNCHANGED noted
        \/ /\ d # NoData /\ d.sr > 0
           /\ Ends(f, t, d) \/ Ends(f, t, NoData)
           /\ \/ noted' = noted \cup SrOf(f, d.sr)
              \/ UNCHANGED noted /\ (Raising => ~Returns(f, t, d))
    BY <1>4, <2>2 DEF OtherSrWorklog, WorkInfo, Opens, Stops, Given, Fails, Breaks, Ends, Raising
  <2> QED
    BY <2>1, <2>3, NoteTask
<1>5. CASE OtherActivityUpdate(f)
  <2>1. /\ Follows(f, "activity_update", "sr_worklog")
        /\ UNCHANGED <<world, about, kind>>
        /\ "Completed" = Submitted
        /\ "raise" = "return" => ~Raising
    BY <1>5 DEF OtherActivityUpdate, Submitted, Raising
  <2>2. \/ Ends(f, "activity_update", NoData) /\ UNCHANGED row
        \/ /\ xcom[f]["sr_worklog"] # NoData
           /\ Updates(f, "activity_update", xcom[f]["sr_worklog"], "Completed",
                      SrOf(f, xcom[f]["sr_worklog"].sr), "raise")
    BY <1>5 DEF OtherActivityUpdate, Opens, Stops, Given, Breaks, Ends
  <2> QED
    BY <2>1, <2>2, UpdateTask
<1>6. CASE OtherSrMail(f)
  <2>1. /\ Follows(f, "sr_mail", "activity_update") /\ UNCHANGED <<row, srs, noted, about, kind>>
        /\ "filed" = IF kind = "other" THEN "filed" ELSE "submitted"
        /\ "activity_update" \in {"activity_update", "approver"}
        /\ Raising => "activity_update" = "activity_update"
    BY <1>6 DEF OtherSrMail, Raising
  <2>2. \/ Ends(f, "sr_mail", NoData) /\ UNCHANGED mails
        \/ /\ xcom[f]["activity_update"] # NoData
           /\ Sends(f, "sr_mail", xcom[f]["activity_update"], "filed",
                    SrOf(f, xcom[f]["activity_update"].sr), "raise")
    BY <1>6 DEF OtherSrMail, Mails, Opens, Stops, Given, Ends
  <2> QED
    BY <2>1, <2>2, SrMailTask
<1>7. CASE OtherSrFailedStatus(f)
  <2>1. /\ task[f]["sr_failed_status"] = "none" /\ NotCreated(f)
        /\ UNCHANGED <<world, about, kind>>
    BY <1>7 DEF OtherSrFailedStatus, NotCreated
  <2>2. \/ Ends(f, "sr_failed_status", NoData) /\ UNCHANGED row
        \/ /\ xcom[f]["sr_creation"] # NoData
           /\ Updates(f, "sr_failed_status", xcom[f]["sr_creation"],
                      "Error in ITSM Process", srNo[about[f]], "raise")
    BY <1>7, NoDataHasNoNumber DEF OtherSrFailedStatus, Opens, Given, Ends, Failed
  <2> QED
    BY <2>1, <2>2, FailedStatusTask
<1>8. CASE OtherSrFailedMail(f)
  <2>1. \/ Ends(f, "sr_failed_mail", NoData) /\ UNCHANGED mails
        \/ /\ xcom[f]["sr_failed_status"] # NoData
           /\ Mails(f, "sr_failed_mail", xcom[f]["sr_failed_status"], "sr_failed", {})
    BY <1>8 DEF OtherSrFailedMail, Opens, Given, Ends
  <2> QED
    BY <1>8, <2>1, FailedMailTask DEF OtherSrFailedMail
<1> QED
  BY <1>1, <1>2, <1>3, <1>4, <1>5, <1>6, <1>7, <1>8 DEF OtherStep

-----------------------------------------------------------------------------
(* The invariant, and what it tells                                        *)

\* Every step of a run keeps the invariant, whichever flow it belongs to.
LEMMA StepIsInvariant ==
  ASSUME IInv, NEW f \in Run, Step(f)
  PROVE  IInv'
<1>1. UNCHANGED kind
  BY DEF Step
<1>2. CASE kind = "reset" /\ ResetStep(f)
  BY <1>1, <1>2, ResetKeeps
<1>3. CASE kind = "new user" /\ NewUserStep(f)
  BY <1>1, <1>3, NewUserKeeps
<1>4. CASE kind = "new service" /\ NewServiceStep(f)
  BY <1>1, <1>4, NewServiceKeeps
<1>5. CASE kind = "modify" /\ ModifyStep(f)
  BY <1>1, <1>5, ModifyKeeps
<1>6. CASE kind = "other" /\ OtherStep(f)
  BY <1>1, <1>6, OtherKeeps
<1> QED
  BY <1>2, <1>3, <1>4, <1>5, <1>6 DEF Step

\* So does a step that changes nothing.
LEMMA StutterKeeps ==
  ASSUME IInv, UNCHANGED <<vars, kind>>
  PROVE  IInv'
<1>1. Inv'
  BY DEF IInv, Inv, TypeOK, RowOK, WorldOK, FlowOK, Bounded, Sound, SoundData,
         RowsWritten, RowIsWritten, vars, row, world, flow
<1>2. UNCHANGED <<task, xcom, mails, noted, written, kind>>
  BY DEF vars, row, world, flow
<1>3. Clean'
  BY <1>2 DEF IInv, FlowsInv, Clean
<1>4. Guarded'
  BY <1>2 DEF IInv, FlowsInv, Guarded, Guard, Answered
<1>5. Resting'
  BY <1>2 DEF IInv, FlowsInv, Resting, Rests, Answered, Created, NotCreated
<1>6. Effected'
  <2> SUFFICES ASSUME NEW f \in Run, NEW t \in Task,
                      task[f][t] = "success", xcom[f][t] # NoData
               PROVE  Effective(f, t)'
    BY <1>2 DEF Effected
  <2>1. Effective(f, t)
    BY DEF IInv, FlowsInv, Effected
  <2> QED
    BY <1>2, <2>1 DEF Effective, Raising, Number, Wrote, WroteNumber, Submitted,
                      ToldBlocked
<1>7. MailsHold'
  <2> SUFFICES ASSUME NEW m \in mails
               PROVE  Grounded(m)' /\ Told(m)'
    BY <1>2 DEF MailsHold
  <2>1. Grounded(m) /\ Told(m)
    BY DEF IInv, FlowsInv, MailsHold
  <2>2. Grounded(m)'
    BY <1>2, <2>1 DEF Grounded, Answered, Unnamed, Created, NotCreated, Number
  <2>3. Told(m)'
    BY <1>2, <2>1 DEF Told, Raising
  <2> QED
    BY <2>2, <2>3
<1>8. RowsHold'
  <2> SUFFICES ASSUME NEW w \in written
               PROVE  Recorded(w)'
    BY <1>2 DEF RowsHold
  <2>1. Recorded(w)
    BY DEF IInv, FlowsInv, RowsHold
  <2> QED
    BY <1>2, <2>1 DEF Recorded, Submitted, Created, Number, ToldBlocked
<1> QED
  BY <1>1, <1>2, <1>3, <1>4, <1>5, <1>6, <1>7, <1>8 DEF IInv, FlowsInv

\* At first no task has begun, and nobody was told anything.
LEMMA InitIsInvariant == FlowsInit => IInv
<1> SUFFICES ASSUME FlowsInit PROVE IInv
  OBVIOUS
<1>1. Inv
  BY InitIsSound DEF FlowsInit
<1>2. /\ task = [f \in Run |-> [t \in Task |-> "none"]]
      /\ xcom = [f \in Run |-> [t \in Task |-> NoData]]
      /\ mails = {} /\ written = {}
  BY DEF FlowsInit, Init
<1>3. FlowsInv
  BY <1>2 DEF FlowsInv, Clean, Guarded, Resting, Effected, MailsHold, RowsHold
<1>4. kind \in FlowKind
  BY KindsAssumption DEF FlowsInit
<1> QED
  BY <1>1, <1>3, <1>4 DEF IInv

\* The invariant holds in every state.
LEMMA Invariance == Spec => []IInv
<1>1. IInv /\ [Next]_<<vars, kind>> => IInv'
  BY StepIsInvariant, StutterKeeps DEF Next
<1> QED
  BY <1>1, InitIsInvariant, PTL DEF Spec

\* Every variable keeps the values the code can give it: above all, no task
\* is tried again after its last try, and no work info is without its SR.
THEOREM TypeCorrect == Spec => []TypeOK
<1>1. IInv => TypeOK
  BY DEF IInv, Inv
<1> QED
  BY <1>1, Invariance, PTL

\* A row that announces an SR never tracks one that does not exist or belongs
\* to another request, in any flow, for any number of runs on a request and
\* whatever numbers the emails give.
THEOREM Tracked == Spec => []TrackedIsReal
<1>1. IInv => TrackedIsReal
  <2> SUFFICES ASSUME IInv, NEW q \in Request, status[q] = Submitted
               PROVE  srNo[q] # {} /\ \A n \in srNo[q] : n \in srs /\ about[n.run] = q
    BY DEF TrackedIsReal
  <2>1. PICK w \in written : /\ about[w.run] = q
                             /\ w.status = Submitted
                             /\ w.sr = srNo[q]
    <3>1. RowIsWritten(q)
      BY DEF IInv, Inv, RowsWritten
    <3>2. status[q] \notin {"absent", "Data Inserted", "Data updated"}
      BY DEF Submitted
    <3> QED
      BY <3>1, <3>2 DEF RowIsWritten
  <2>2. w.run \in Run /\ Created(w.run) /\ srNo[q] = Number(w.run)
    BY <2>1 DEF IInv, Inv, RowsWritten, FlowsInv, RowsHold, Recorded
  <2>3. SoundData(w.run, xcom[w.run]["sr_creation"])
    BY <2>2 DEF IInv, Inv, Sound, Task
  <2>4. Number(w.run) \subseteq srs
    BY <2>2, <2>3 DEF SoundData, Created, Number
  <2> QED
    BY <2>1, <2>2, <2>4 DEF Number, SrOf
<1> QED
  BY <1>1, Invariance, PTL

\* A mail about an outcome follows the update that records it: in the flows
\* that raise, for every kind of mail; in the others, for a failed SR.
THEOREM Written == Spec => []ToldIsWritten
<1>1. IInv => ToldIsWritten
  BY DEF IInv, FlowsInv, MailsHold, Told, ToldIsWritten, ToldAfterWriting, Raising
<1> QED
  BY <1>1, Invariance, PTL

\* In the flows that raise, an SR is announced only with its work info.
THEOREM Noted == Spec => []AnnouncedIsNoted
<1>1. IInv => AnnouncedIsNoted
  BY DEF IInv, FlowsInv, MailsHold, Told, AnnouncedIsNoted, Raising
<1> QED
  BY <1>1, Invariance, PTL

\* The number that is announced is the number that the table tracks, however
\* many SRs the tries of a run have created.
THEOREM SameNumber == Spec => []ToldIsTracked
<1>1. IInv => ToldIsTracked
  <2> SUFFICES ASSUME IInv, NEW m \in mails, NEW w \in written, m.run = w.run,
                      m.kind \in {"submitted", "filed"}, w.status = Verdict[m.kind]
               PROVE  m.sr = w.sr
    BY DEF ToldIsTracked
  <2>1. Grounded(m) /\ Recorded(w)
    BY DEF IInv, FlowsInv, MailsHold, RowsHold
  <2>2. Verdict["submitted"] = "SR Submitted" /\ Verdict["filed"] = "Completed"
    BY DEF Verdict
  <2>3. Verdict[m.kind] = Submitted
    BY <2>1, <2>2 DEF Grounded, Submitted
  <2> QED
    BY <2>1, <2>3 DEF Grounded, Recorded
<1> QED
  BY <1>1, Invariance, PTL

\* A new account is completed without an SR only after a mail to its
\* requester.
THEOREM CompletionTold == Spec => []CompletedIsTold
<1>1. IInv => CompletedIsTold
  BY DEF IInv, FlowsInv, RowsHold, Recorded, ToldBlocked, CompletedIsTold
<1> QED
  BY <1>1, Invariance, PTL

\* The ends of a flow exclude each other.
LEMMA OneEnd ==
  ASSUME IInv, NEW f \in Run
  PROVE  /\ \A a, b : Answered(f, a) /\ Answered(f, b) => a = b
         /\ ~(Created(f) /\ NotCreated(f))
         /\ \A a : Created(f) \/ NotCreated(f) => (Answered(f, a) => a = "clear")
         /\ Unnamed(f) => ~Created(f) /\ ~NotCreated(f) /\ \A a : ~Answered(f, a)
<1>1. {"name_check", "fetch", "ad_connect", "sr_creation"} \subseteq Task
  BY DEF Task
<1>2. \A t \in Task : task[f][t] # "none" => Guard(f, t)
  BY DEF IInv, FlowsInv, Guarded
<1>3. Created(f) \/ NotCreated(f) => task[f]["sr_creation"] # "none"
  <2>1. xcom[f]["sr_creation"].sr = Failed => xcom[f]["sr_creation"] # NoData
    BY NoDataHasNoNumber DEF Failed
  <2> QED
    BY <1>1, <2>1 DEF Created, NotCreated, IInv, FlowsInv, Clean
<1>4. \A a, b : Answered(f, a) /\ Answered(f, b) => a = b
  BY DEF Answered
<1>5. ~(Created(f) /\ NotCreated(f))
  BY DEF Created, NotCreated, Failed
<1>6. \A a : Created(f) \/ NotCreated(f) => (Answered(f, a) => a = "clear")
  <2> SUFFICES ASSUME NEW a, Created(f) \/ NotCreated(f), Answered(f, a)
               PROVE  a = "clear"
    OBVIOUS
  <2>1. kind # "other"
    BY DEF Answered
  <2>2. Answered(f, "clear")
    BY <1>1, <1>2, <1>3, <2>1 DEF Guard
  <2> QED
    BY <2>2 DEF Answered
<1>7. Unnamed(f) => ~Created(f) /\ ~NotCreated(f) /\ \A a : ~Answered(f, a)
  <2> SUFFICES ASSUME Unnamed(f)
               PROVE  ~Created(f) /\ ~NotCreated(f) /\ \A a : ~Answered(f, a)
    OBVIOUS
  <2>1. kind = "new service" /\ xcom[f]["name_check"].ad = "unnamed"
    BY DEF Unnamed
  <2>2. task[f]["fetch"] = "none"
    BY <1>1, <1>2, <2>1 DEF Guard
  <2>3. task[f]["ad_connect"] = "none" /\ task[f]["sr_creation"] = "none"
    BY <1>1, <1>2, <2>2 DEF Guard
  <2> QED
    BY <1>3, <2>3 DEF Answered
<1> QED
  BY <1>4, <1>5, <1>6, <1>7

\* A run tells its requester one thing, about one SR, in any of the flows and
\* whatever is tried again: two mails of a run are the same mail.
THEOREM OneVerdict == Spec => []OneVerdictTold
<1>1. IInv => OneVerdictTold
  <2> SUFFICES ASSUME IInv, NEW m \in mails, NEW n \in mails, m.run = n.run
               PROVE  m = n
    BY DEF OneVerdictTold
  <2>1. m \in [run : Run, sr : SUBSET SR, kind : MailKind]
        /\ n \in [run : Run, sr : SUBSET SR, kind : MailKind]
    BY DEF IInv, Inv, TypeOK, WorldOK
  <2>2. Grounded(m) /\ Grounded(n)
    BY DEF IInv, FlowsInv, MailsHold
  <2>3. m.run \in Run
    BY <2>1
  <2>4. m.kind = n.kind
    <3> DEFINE f == m.run
    <3>1. /\ \A a, b : Answered(f, a) /\ Answered(f, b) => a = b
          /\ ~(Created(f) /\ NotCreated(f))
          /\ \A a : Created(f) \/ NotCreated(f) => (Answered(f, a) => a = "clear")
          /\ Unnamed(f) => ~Created(f) /\ ~NotCreated(f) /\ \A a : ~Answered(f, a)
      BY <2>3, OneEnd
    <3>2. ~(Answered(f, "blocked") /\ Answered(f, "error"))
      BY <3>1
    <3>3. Created(f) \/ NotCreated(f) => ~Answered(f, "blocked") /\ ~Answered(f, "error")
      BY <3>1
    <3>4. Unnamed(f) => ~Answered(f, "blocked") /\ ~Answered(f, "error")
      BY <3>1
    <3> QED
      BY <2>2, <3>1, <3>2, <3>3, <3>4 DEF Grounded
  <2>5. m.sr = n.sr
    BY <2>2, <2>4 DEF Grounded
  <2> QED
    BY <2>1, <2>4, <2>5
<1> QED
  BY <1>1, Invariance, PTL
=============================================================================
