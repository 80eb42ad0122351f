-------------------------- MODULE ResolveFlowsProofs --------------------------
(***************************************************************************)
(* What holds of a request after its SR, whichever its kind is, for any    *)
(* number of runs and tries, and whatever fails.                           *)
(*                                                                         *)
(* A mail, an update or a closed work order rests on the data its task was *)
(* given, and these on what the tasks before it have done.  The invariant  *)
(* says what is Known when a task was a success and has pushed data, and   *)
(* that a run gets to a task only by what it found when it first looked at *)
(* the row (Guarded).  The reminders are counted: a row never tells of     *)
(* more of them than there are runs that wrote one (Counted), because what *)
(* a run writes is one more than it read before it wrote itself.           *)
(***************************************************************************)
EXTENDS ResolveFlows, FiniteSetTheorems, TLAPS

(* What was left *)

Wrote(f, statuses) == \E w \in written : w.run = f /\ w.status \in statuses
Completion(f, p) == [run |-> f, status |-> "Completed", pw |-> p]
ToldHandover(f) == \E m \in mails : m.run = f /\ m.kind = "handover"
Reminded == {v.run : v \in {x \in written : x.status = "reminded"}}

\* A request is completed with a password that the AD script has set, also when
\* a try of the script finds the output file of an earlier one, or of an
\* earlier run; or it is handed over, without one.
CompletedIsApplied ==
  \A w \in written : w.status = "Completed" => w.pw \in applied \cup {NoPw}

(* What is known of a task *)

\* Tasks that follow the completion of the row.
AfterCompletion == {"rs_update", "notify", "shift", "fo_mail", "wo_comment"}

Knows(f, t, d) ==
  /\ d.emails <= Cardinality(Reminded \ {f})
  /\ t = "check" /\ d.flag = 2 => Cardinality(Reminded) >= 2
  /\ t = "handover_mail" /\ kind = "awaiting" => ToldHandover(f)
  /\ t = "ad_process" /\ d.ad # "unfinished" => d.pw \in applied
  /\ t \in AfterCompletion => d.pw \in applied /\ Completion(f, d.pw) \in written
  /\ t = "wo_comment" /\ d.last = "created" => noted
  /\ t = "comment_err_status" => d.last # "status remarks"
  /\ t = "status_err_status" /\ d.last = "status remarks" =>
       Wrote(f, {"Error in ITSM Process"})
  /\ t = "wo_fail_status" => Wrote(f, {"Error in ITSM Process"})
  /\ t = "decrypt_status" => Wrote(f, Verdict["garbled"])
  /\ t = "cancel_status" => Wrote(f, {"SR approval Rejected."})

Guard(f, t) ==
  /\ t # "check" => task[f]["check"] = "success"
  /\ t = "handover_mail" => xcom[f]["check"].flag = 2

Told(m) ==
  m.kind \in DOMAIN Verdict \ (IF kind = "modify" THEN {"itsm"} ELSE {}) =>
    \E w \in written : /\ w.run = m.run
                       /\ w.status \in Verdict[m.kind]
                       /\ m.kind \in {"account", "fo"} => w.pw = m.pw

(* The invariant *)

FlowOK ==
  /\ task \in [Run -> [Task -> {"none", "success", "failed"}]]
  /\ tries \in [Run -> [Task -> 0 .. MaxTries]]
  /\ xcom \in [Run -> [Task -> Data \cup {NoData}]]

Bounded == \A f \in Run, t \in Task : task[f][t] = "none" => tries[f][t] < MaxTries

\* A task that read the row has pushed what it found.
Looking == {"check", "fetch_waiting"}
Looked ==
  \A f \in Run, t \in Looking : task[f][t] = "success" => xcom[f][t] # NoData
Guarded == \A f \in Run, t \in Task : task[f][t] # "none" => Guard(f, t)
Known ==
  \A f \in Run, t \in Task :
    task[f][t] = "success" /\ xcom[f][t] # NoData => Knows(f, t, xcom[f][t])

\* Only a run that looked at the row writes to it.
LookedFirst == \A w \in written : task[w.run]["check"] = "success"

RowOK ==
  /\ status \in Status
  /\ emails \in Nat
  /\ written \subseteq [run : Run, status : Status \cup {"reminded"},
                        pw : Pw \cup {NoPw}]

OthersOK ==
  /\ age \in Age
  /\ applied \subseteq Pw
  /\ noted \in BOOLEAN /\ users \in BOOLEAN
  /\ closed \in Pw \cup {NoPw}
  /\ mails \subseteq [run : Run, kind : MailKind, pw : Pw \cup {NoPw}]

Counted == emails <= Cardinality(Reminded)

\* A password in the output file of the script is set.
Scripted == output \in applied \cup {NoPw}

FlowInv == FlowOK /\ Bounded /\ Looked /\ Guarded /\ Known /\ LookedFirst
WorldInv ==
  /\ RowOK /\ OthersOK /\ Counted /\ Scripted
  /\ ToldIsWritten /\ CompletedIsApplied /\ ClosedIsDone
  /\ HandedOverAfterReminders /\ HandoverIsTold
IInv == FlowInv /\ WorldInv /\ kind \in RequestKind

-----------------------------------------------------------------------------
(* Counting the runs that reminded somebody                                *)

\* Sets of runs are finite, and so can be counted.
LEMMA RunsAreFinite ==
  ASSUME NEW S \in SUBSET Run
  PROVE  IsFiniteSet(S) /\ Cardinality(S) \in Nat /\ Cardinality(S) <= Runs
<1>1. IsFiniteSet(Run) /\ Cardinality(Run) = Runs
  BY FS_Interval, RunsAssumption DEF Run
<1>2. IsFiniteSet(S) /\ Cardinality(S) <= Cardinality(Run)
  BY <1>1, FS_Subset
<1> QED
  BY <1>1, <1>2, FS_CardinalityType

\* What grows does not count less, and one more is one more.
LEMMA CountGrows ==
  ASSUME NEW S \in SUBSET Run, NEW T \in SUBSET Run, S \subseteq T, NEW f \in Run
  PROVE  /\ Cardinality(S) <= Cardinality(T)
         /\ Cardinality(S \ {f}) <= Cardinality(T \ {f})
         /\ f \in T => Cardinality(S \ {f}) + 1 <= Cardinality(T)
<1>1. IsFiniteSet(T) /\ Cardinality(T) \in Nat
  BY RunsAreFinite
<1>2. Cardinality(S) <= Cardinality(T)
  BY <1>1, FS_Subset
<1>3. T \ {f} \in SUBSET Run /\ S \ {f} \in SUBSET (T \ {f})
  OBVIOUS
<1>4. IsFiniteSet(T \ {f}) /\ Cardinality(T \ {f}) \in Nat
  BY <1>3, RunsAreFinite
<1>5. Cardinality(S \ {f}) <= Cardinality(T \ {f})
  BY <1>3, <1>4, FS_Subset
<1>6. f \in T => Cardinality(T \ {f}) = Cardinality(T) - 1
  BY <1>1, FS_RemoveElement
<1>7. S \ {f} \in SUBSET Run
  OBVIOUS
<1>8. Cardinality(S \ {f}) \in Nat
  BY <1>7, RunsAreFinite
<1> QED
  BY <1>1, <1>2, <1>4, <1>5, <1>6, <1>8

\* The runs that reminded somebody are runs, and never become fewer.
LEMMA RemindedGrows ==
  ASSUME RowOK, RowOK', written \subseteq written', NEW f \in Run
  PROVE  /\ Reminded \in SUBSET Run /\ Reminded' \in SUBSET Run
         /\ Reminded \subseteq Reminded'
         /\ Cardinality(Reminded) \in Nat /\ Cardinality(Reminded') \in Nat
         /\ Cardinality(Reminded) <= Cardinality(Reminded')
         /\ Cardinality(Reminded \ {f}) \in Nat
         /\ Cardinality(Reminded' \ {f}) \in Nat
         /\ Cardinality(Reminded \ {f}) <= Cardinality(Reminded' \ {f})
         /\ f \in Reminded' => Cardinality(Reminded \ {f}) + 1 <= Cardinality(Reminded')
<1>1. Reminded \in SUBSET Run /\ Reminded' \in SUBSET Run
  BY DEF Reminded, RowOK
<1>2. Reminded \subseteq Reminded'
  BY DEF Reminded
<1>3. Reminded \ {f} \in SUBSET Run /\ Reminded' \ {f} \in SUBSET Run
  BY <1>1
<1>4. /\ Cardinality(Reminded) \in Nat /\ Cardinality(Reminded') \in Nat
      /\ Cardinality(Reminded \ {f}) \in Nat /\ Cardinality(Reminded' \ {f}) \in Nat
  BY <1>1, <1>3, RunsAreFinite
<1>5. /\ Cardinality(Reminded) <= Cardinality(Reminded')
      /\ Cardinality(Reminded \ {f}) <= Cardinality(Reminded' \ {f})
      /\ f \in Reminded' => Cardinality(Reminded \ {f}) + 1 <= Cardinality(Reminded')
  BY <1>1, <1>2, CountGrows
<1> QED
  BY <1>1, <1>2, <1>4, <1>5

\* The mails that a run has read of are a number.
LEMMA DataIsCounted ==
  ASSUME NEW d \in Data
  PROVE  d.emails \in Nat
<1>1. d.emails \in 0 .. Runs * MaxTries
  BY DEF Data
<1> QED
  BY <1>1

-----------------------------------------------------------------------------
(* A try of a task                                                         *)

Ends(f, t, d) == Returns(f, t, d) \/ Raises(f, t, d)

\* Whichever way a try ends, the bookkeeping of Airflow keeps its types, and
\* there is no try after the last one.
LEMMA TryIsTyped ==
  ASSUME FlowOK, Bounded, NEW f \in Run, NEW t \in Task, task[f][t] = "none",
         NEW d \in Data \cup {NoData}, Ends(f, t, d)
  PROVE  FlowOK' /\ Bounded'
<1> USE DEF FlowOK, Bounded
<1>1. {0, tries[f][t] + 1} \subseteq 0 .. MaxTries
  BY TriesAssumption
<1>2. tries' \in [Run -> [Task -> 0 .. MaxTries]]
  <2>1. CASE tries' = [tries EXCEPT ![f][t] = @ + 1]
    BY <1>1, <2>1
  <2>2. CASE tries' = [tries EXCEPT ![f][t] = 0]
    BY <1>1, <2>2
  <2> QED
    BY <2>1, <2>2 DEF Ends, Returns, Raises
<1>3. task' \in [Run -> [Task -> {"none", "success", "failed"}]]
  <2>1. CASE task' = task
    BY <2>1
  <2>2. CASE \E e \in {"success", "failed"} : task' = [task EXCEPT ![f][t] = e]
    BY <2>2
  <2> QED
    BY <2>1, <2>2 DEF Ends, Returns, Raises
<1>4. xcom' \in [Run -> [Task -> Data \cup {NoData}]]
  <2>1. CASE xcom' = xcom
    BY <2>1
  <2>2. CASE xcom' = [xcom EXCEPT ![f][t] = d]
    BY <2>2
  <2> QED
    BY <2>1, <2>2 DEF Ends, Returns, Raises
<1>5. Bounded'
  <2>1. CASE /\ tries[f][t] + 1 < MaxTries
             /\ tries' = [tries EXCEPT ![f][t] = @ + 1]
             /\ task' = task
    BY <2>1, TriesAssumption
  <2>2. CASE /\ tries' = [tries EXCEPT ![f][t] = 0]
             /\ \E e \in {"success", "failed"} : task' = [task EXCEPT ![f][t] = e]
    BY <2>2
  <2> QED
    BY <2>1, <2>2 DEF Ends, Returns, Raises
<1> QED
  BY <1>2, <1>3, <1>4, <1>5

\* Task t of f is tried, over a world that only grows.
Tried(f, t, d) ==
  /\ f \in Run /\ t \in Task
  /\ task[f][t] = "none"
  /\ d \in Data \cup {NoData}
  /\ Ends(f, t, d) \/ Ends(f, t, NoData)
  /\ RowOK /\ RowOK'
  /\ written \subseteq written' /\ mails \subseteq mails'
  /\ applied \subseteq applied' /\ (noted => noted')
  /\ UNCHANGED kind

\* Another task, and one that has ended, stays as it is; the one that is
\* tried is a success only if it returned.
LEMMA EndedStays ==
  ASSUME FlowOK, NEW f, NEW t, NEW d, Tried(f, t, d)
  PROVE  /\ \A g \in Run, u \in Task :
              task[g][u] # "none" \/ u # t \/ g # f =>
                task'[g][u] = task[g][u] /\ xcom'[g][u] = xcom[g][u]
         /\ task'[f][t] = "success" =>
              \/ Returns(f, t, d) /\ xcom'[f][t] = d
              \/ Returns(f, t, NoData) /\ xcom'[f][t] = NoData
<1> USE DEF FlowOK, Tried
<1>1. CASE Returns(f, t, d) \/ Returns(f, t, NoData)
  BY <1>1 DEF Returns
<1>2. CASE Raises(f, t, d) \/ Raises(f, t, NoData)
  BY <1>2 DEF Raises
<1> QED
  BY <1>1, <1>2 DEF Ends

\* What is known of a task is not taken back.
LEMMA KnownStays ==
  ASSUME NEW f, NEW t, NEW d, Tried(f, t, d),
         NEW g \in Run, NEW u \in Task, NEW e \in Data, Knows(g, u, e)
  PROVE  Knows(g, u, e)'
<1> USE DEF Tried
<1>1. \A s : Wrote(g, s) => Wrote(g, s)'
  BY DEF Wrote
<1>2. ToldHandover(g) => ToldHandover(g)'
  BY DEF ToldHandover
<1>3. e.emails <= Cardinality(Reminded' \ {g})
  <2>1. e.emails \in Nat
    BY DataIsCounted
  <2>2. e.emails <= Cardinality(Reminded \ {g})
    BY DEF Knows
  <2>3. /\ Cardinality(Reminded \ {g}) <= Cardinality(Reminded' \ {g})
        /\ Cardinality(Reminded \ {g}) \in Nat
        /\ Cardinality(Reminded' \ {g}) \in Nat
    BY RemindedGrows
  <2> QED
    BY <2>1, <2>2, <2>3
<1>4. Cardinality(Reminded) >= 2 => Cardinality(Reminded') >= 2
  <2>1. /\ Cardinality(Reminded) <= Cardinality(Reminded')
        /\ Cardinality(Reminded) \in Nat /\ Cardinality(Reminded') \in Nat
    BY RemindedGrows
  <2> QED
    BY <2>1
<1>5. \A p : Completion(g, p) \in written => Completion(g, p) \in written'
  OBVIOUS
<1> QED
  BY <1>1, <1>2, <1>3, <1>4, <1>5 DEF Knows, Completion

\* Nor is the way a run has come.
LEMMA GuardStays ==
  ASSUME FlowOK, Looked, NEW f, NEW t, NEW d, Tried(f, t, d),
         NEW g \in Run, NEW u \in Task, Guard(g, u)
  PROVE  Guard(g, u)'
<1>1. "check" \in Task
  BY DEF Task
<1>2. task[g]["check"] = "success" =>
        task'[g]["check"] = "success" /\ xcom'[g]["check"] = xcom[g]["check"]
  BY <1>1, EndedStays
<1> QED
  BY <1>2 DEF Guard, Tried

\* A task that knows what it pushes keeps what is known of tasks.
LEMMA FlowKeeps ==
  ASSUME FlowInv, NEW f, NEW t, NEW d, Tried(f, t, d), Guard(f, t),
         t \in Looking => ~Returns(f, t, NoData),
         Returns(f, t, d) /\ d # NoData => Knows(f, t, d)',
         \A w \in written' \ written : w.run = f /\ t # "check"
  PROVE  FlowInv'
<1> USE DEF FlowInv
<1>1. f \in Run /\ t \in Task /\ task[f][t] = "none" /\ d \in Data \cup {NoData}
  BY DEF Tried
<1>2. /\ \A g \in Run, u \in Task :
           task[g][u] # "none" \/ u # t \/ g # f =>
             task'[g][u] = task[g][u] /\ xcom'[g][u] = xcom[g][u]
      /\ task'[f][t] = "success" =>
           \/ Returns(f, t, d) /\ xcom'[f][t] = d
           \/ Returns(f, t, NoData) /\ xcom'[f][t] = NoData
  BY EndedStays
<1>3. "check" \in Task
  BY DEF Task
<1>4. FlowOK' /\ Bounded'
  BY <1>1, TryIsTyped DEF Tried
<1>5. Looked'
  <2> SUFFICES ASSUME NEW g \in Run, NEW u \in Looking, task'[g][u] = "success"
               PROVE  xcom'[g][u] # NoData
    BY DEF Looked
  <2>1. u \in Task
    BY DEF Looking, Task
  <2>2. CASE g = f /\ u = t
    BY <1>2, <2>2
  <2>3. CASE ~(g = f /\ u = t)
    BY <1>2, <2>1, <2>3 DEF Looked
  <2> QED
    BY <2>2, <2>3
<1>6. Guarded'
  <2> SUFFICES ASSUME NEW g \in Run, NEW u \in Task, task'[g][u] # "none"
               PROVE  Guard(g, u)'
    BY DEF Guarded
  <2>1. Guard(g, u)
    BY <1>2 DEF Guarded
  <2> QED
    BY <2>1, GuardStays
<1>7. Known'
  <2> SUFFICES ASSUME NEW g \in Run, NEW u \in Task,
                      task'[g][u] = "success", xcom'[g][u] # NoData
               PROVE  Knows(g, u, xcom[g][u])'
    BY DEF Known
  <2>1. CASE g = f /\ u = t
    <3>1. Returns(f, t, d) /\ xcom'[f][t] = d
      BY <1>2, <2>1
    <3>2. Knows(f, t, d)'
      BY <2>1, <3>1
    <3> QED
      BY <2>1, <3>1, <3>2 DEF Knows
  <2>2. CASE ~(g = f /\ u = t)
    <3>1. PICK e \in Data : e = xcom[g][u]
      BY <1>2, <2>2 DEF FlowOK
    <3>2. Knows(g, u, e)
      BY <1>2, <2>2, <3>1 DEF Known
    <3>3. Knows(g, u, e)'
      BY <3>2, KnownStays
    <3>4. xcom'[g][u] = e
      BY <1>2, <2>2, <3>1
    <3> QED
      BY <3>3, <3>4 DEF Knows
  <2> QED
    BY <2>1, <2>2
<1>8. LookedFirst'
  <2> SUFFICES ASSUME NEW w \in written'
               PROVE  task'[w.run]["check"] = "success"
    BY DEF LookedFirst
  <2>1. w.run \in Run
    BY DEF Tried, RowOK
  <2>2. task[w.run]["check"] = "success"
    BY DEF LookedFirst, Guard
  <2> QED
    BY <1>2, <1>3, <2>1, <2>2
<1> QED
  BY <1>4, <1>5, <1>6, <1>7, <1>8

-----------------------------------------------------------------------------
(* The world                                                               *)

\* What a record of the table may say: a request is completed with what the
\* script has set, or given up after two reminders, and told.
Allowed(w) ==
  w.status = "Completed" =>
    /\ w.pw \in applied \cup {NoPw}
    /\ w.pw = NoPw => Cardinality(Reminded) >= 2
    /\ kind = "awaiting" => ToldHandover(w.run)

\* An update of the row.
LEMMA RowChanges ==
  ASSUME WorldInv, NEW w, written' = written \cup {w}, RowOK', Counted',
         UNCHANGED <<age, ad, itsm, mails, kind>>, Allowed(w)
  PROVE  WorldInv'
<1> USE DEF WorldInv
<1>1. UNCHANGED <<age, applied, output, noted, closed, users, mails, kind>>
  BY DEF ad, itsm
<1>2. OthersOK' /\ Scripted'
  BY <1>1 DEF OthersOK, Scripted
<1>3. ToldIsWritten'
  BY <1>1 DEF ToldIsWritten
<1>4. ClosedIsDone'
  BY <1>1 DEF ClosedIsDone
<1>5. CompletedIsApplied'
  BY <1>1 DEF CompletedIsApplied, Allowed
<1>6. HandoverIsTold'
  BY <1>1 DEF HandoverIsTold, Handover, Allowed, ToldHandover
<1>7. HandedOverAfterReminders'
  <2> SUFFICES ASSUME NEW v \in written', Handover(v)
               PROVE  Cardinality(Reminded') >= 2
    BY <1>1 DEF HandedOverAfterReminders, Reminded, Handover
  <2>1. Cardinality(Reminded) >= 2
    <3>1. CASE v = w
      BY <3>1 DEF Handover, Allowed
    <3>2. CASE v \in written
      BY <3>2 DEF HandedOverAfterReminders, Reminded
    <3> QED
      BY <3>1, <3>2
  <2>2. v.run \in Run
    BY DEF RowOK
  <2>3. /\ Cardinality(Reminded) <= Cardinality(Reminded')
        /\ Cardinality(Reminded) \in Nat /\ Cardinality(Reminded') \in Nat
    BY <2>2, RemindedGrows
  <2> QED
    BY <2>1, <2>3
<1> QED
  BY <1>2, <1>3, <1>4, <1>5, <1>6, <1>7

\* Everything but the row.
LEMMA RestChanges ==
  ASSUME WorldInv, UNCHANGED <<row, kind>>, OthersOK', Scripted',
         mails \subseteq mails', \A m \in mails' \ mails : Told(m),
         applied \subseteq applied', noted => noted',
         closed' # closed => noted /\ \E g \in Run : Completion(g, closed') \in written
  PROVE  WorldInv'
<1> USE DEF WorldInv
<1>1. UNCHANGED <<status, emails, written, kind>>
  BY DEF row
<1>2. RowOK' /\ Counted'
  BY <1>1 DEF RowOK, Counted, Reminded
<1>3. ToldIsWritten'
  <2> SUFFICES ASSUME NEW m \in mails'
               PROVE  Told(m)'
    BY DEF ToldIsWritten, Told
  <2>1. Told(m)
    BY DEF ToldIsWritten, Told
  <2> QED
    BY <1>1, <2>1 DEF Told
<1>4. ClosedIsDone'
  BY <1>1 DEF ClosedIsDone, Completion
<1>5. CompletedIsApplied'
  BY <1>1 DEF CompletedIsApplied
<1>6. HandoverIsTold'
  BY <1>1 DEF HandoverIsTold, Handover
<1>7. HandedOverAfterReminders'
  BY <1>1 DEF HandedOverAfterReminders, Handover
<1> QED
  BY <1>2, <1>3, <1>4, <1>5, <1>6, <1>7

-----------------------------------------------------------------------------
(* The shapes of a task                                                    *)

\* A try that returns does not raise, nor push anything else.
LEMMA EndsDiffer ==
  ASSUME FlowOK, NEW f \in Run, NEW t \in Task, task[f][t] = "none",
         NEW d, Returns(f, t, d)
  PROVE  /\ \A e : ~Raises(f, t, e)
         /\ \A e : Returns(f, t, e) => e = d
BY DEF FlowOK, Raises, Returns

\* What a task is given by one that was a success.
LEMMA Handed ==
  ASSUME IInv, NEW f \in Run, NEW u \in Task, task[f][u] = "success"
  PROVE  /\ xcom[f][u] \in Data \cup {NoData}
         /\ xcom[f][u] # NoData => xcom[f][u] \in Data /\ Knows(f, u, xcom[f][u])
         /\ Guard(f, u)
BY DEF IInv, FlowInv, FlowOK, Known, Guarded

\* The task after it comes the same way.
LEMMA Led ==
  ASSUME IInv, NEW f \in Run, NEW u \in Task, task[f][u] = "success",
         NEW t \in Task \ {"handover_mail"}
  PROVE  Guard(f, t)
BY Handed DEF Guard

\* A task that changes nothing but its own end, and perhaps finds that time
\* has passed.
LEMMA SilentTask ==
  ASSUME IInv, NEW f \in Run, NEW t \in Task, task[f][t] = "none", Guard(f, t),
         NEW d \in Data \cup {NoData}, Ends(f, t, d) \/ Ends(f, t, NoData),
         t \in Looking => ~Returns(f, t, NoData),
         d # NoData => Knows(f, t, d),
         UNCHANGED <<row, ad, itsm, mails, kind>>, age' \in Age
  PROVE  IInv'
<1>1. UNCHANGED <<status, emails, written, applied, output, noted, closed, users,
                  mails, kind>>
  BY DEF row, ad, itsm
<1>2. OthersOK' /\ Scripted'
  BY <1>1 DEF IInv, WorldInv, OthersOK, Scripted
<1>3. WorldInv'
  BY <1>1, <1>2, RestChanges DEF IInv
<1>4. Tried(f, t, d)
  BY <1>1, <1>3 DEF Tried, IInv, WorldInv
<1>5. d # NoData => Knows(f, t, d)'
  BY <1>4, KnownStays
<1>6. FlowInv'
  BY <1>1, <1>4, <1>5, FlowKeeps DEF IInv
<1> QED
  BY <1>1, <1>3, <1>6 DEF IInv

\* The tasks whose success says what they have done themselves.
Doing == {"rs_update", "decrypt_status", "wo_fail_status", "cancel_status",
          "status_err_status"}

\* What an update of the row to s, with the password p, has done by task t,
\* which was given d.
Does(f, t, d, s, p) ==
  /\ t = "rs_update" => s = "Completed" /\ p = d.pw /\ p \in applied
  /\ t = "decrypt_status" => s \in Verdict["garbled"]
  /\ t \in {"wo_fail_status", "status_err_status"} => s = "Error in ITSM Process"
  /\ t = "cancel_status" => s = "SR approval Rejected."

\* Then it knows that it has.
LEMMA DoneIsKnown ==
  ASSUME NEW f \in Run, NEW t \in Task, NEW d \in Data, NEW s, NEW p, Tried(f, t, d),
         [run |-> f, status |-> s, pw |-> p] \in written',
         Does(f, t, d, s, p),
         Knows(f, IF t \in Doing THEN "fetch" ELSE t, d)
  PROVE  Knows(f, t, d)'
<1>1. "fetch" \in Task
  BY DEF Task
<1>2. CASE t \notin Doing
  BY <1>2, KnownStays
<1>3. CASE t \in Doing
  <2>1. Knows(f, "fetch", d)'
    BY <1>1, <1>3, KnownStays
  <2>2. t = "rs_update" => d.pw \in applied' /\ Completion(f, d.pw) \in written'
    BY DEF Does, Completion, Tried
  <2>3. t = "decrypt_status" => Wrote(f, Verdict["garbled"])'
    BY DEF Does, Wrote
  <2>4. t \in {"wo_fail_status", "status_err_status"} =>
          Wrote(f, {"Error in ITSM Process"})'
    BY DEF Does, Wrote
  <2>5. t = "cancel_status" => Wrote(f, {"SR approval Rejected."})'
    BY DEF Does, Wrote
  <2> QED
    BY <1>3, <2>1, <2>2, <2>3, <2>4, <2>5 DEF Knows, Doing, Completion, AfterCompletion
<1> QED
  BY <1>2, <1>3

\* A task that may set the row: to s, with the password p.
LEMMA RowTask ==
  ASSUME IInv, NEW f \in Run, NEW t \in Task \ Looking, task[f][t] = "none",
         Guard(f, t), t # "check",
         NEW d \in Data \cup {NoData}, Ends(f, t, d) \/ Ends(f, t, NoData),
         NEW s \in Status, NEW p \in Pw \cup {NoPw}, NEW n \in {0, emails},
         Allowed([run |-> f, status |-> s, pw |-> p]),
         d # NoData =>
           /\ Does(f, t, d, s, p)
           /\ Knows(f, IF t \in Doing THEN "fetch" ELSE t, d),
         \/ SetRow(f, s, p, n)
         \/ /\ UNCHANGED row
            /\ Returns(f, t, d) /\ d # NoData => Knows(f, t, d),
         UNCHANGED <<age, ad, itsm, mails, kind>>
  PROVE  IInv'
<1> DEFINE w == [run |-> f, status |-> s, pw |-> p]
<1>1. UNCHANGED <<applied, noted, mails, kind>>
  BY DEF ad, itsm
<1>2. CASE UNCHANGED row /\ (Returns(f, t, d) /\ d # NoData => Knows(f, t, d))
  <2>1. age' \in Age
    BY DEF IInv, WorldInv, OthersOK
  <2>2. CASE d # NoData => Knows(f, t, d)
    BY <1>2, <2>1, <2>2, SilentTask
  <2>3. CASE ~Returns(f, t, d)
    <3>1. WorldInv'
      BY <1>2, RestChanges DEF IInv, WorldInv, OthersOK, Scripted, ad, itsm
    <3>2. Tried(f, t, d)
      BY <1>1, <1>2, <3>1 DEF Tried, IInv, WorldInv, row
    <3>3. FlowInv'
      BY <1>1, <1>2, <2>3, <3>2, FlowKeeps DEF IInv, row
    <3> QED
      BY <1>1, <3>1, <3>3 DEF IInv
  <2> QED
    BY <1>2, <2>2, <2>3
<1>3. CASE SetRow(f, s, p, n)
  <2>1. RowOK'
    BY <1>3 DEF SetRow, RowOK, IInv, WorldInv
  <2>2. written' = written \cup {w} /\ status' = s /\ emails' = n
    BY <1>3 DEF SetRow
  <2>3. Counted'
    <3>1. /\ Cardinality(Reminded) \in Nat /\ Cardinality(Reminded') \in Nat
          /\ Cardinality(Reminded) <= Cardinality(Reminded')
      BY <2>1, <2>2, RemindedGrows DEF IInv, WorldInv
    <3>2. emails \in Nat /\ emails <= Cardinality(Reminded)
      BY DEF IInv, WorldInv, RowOK, Counted
    <3> QED
      BY <2>2, <3>1, <3>2 DEF Counted
  <2>4. WorldInv'
    BY <2>1, <2>2, <2>3, RowChanges DEF IInv
  <2>5. Tried(f, t, d)
    BY <1>1, <2>1, <2>2 DEF Tried, IInv, WorldInv
  <2>6. d # NoData => Knows(f, t, d)'
    BY <2>2, <2>5, DoneIsKnown
  <2>7. FlowInv'
    BY <2>2, <2>5, <2>6, FlowKeeps DEF IInv
  <2> QED
    BY <1>1, <2>4, <2>7 DEF IInv
<1> QED
  BY <1>2, <1>3

\* A task that may send a mail.
LEMMA MailTask ==
  ASSUME IInv, NEW f \in Run, NEW t \in Task \ Looking, task[f][t] = "none",
         Guard(f, t), NEW d \in Data \cup {NoData}, NEW k \in MailKind, NEW how,
         \/ Ends(f, t, NoData) /\ UNCHANGED mails
         \/ d # NoData /\ Sends(f, t, d, k, how)
         \/ Returns(f, t, d) /\ UNCHANGED mails /\ t # "handover_mail",
         d # NoData =>
           /\ Knows(f, IF t = "handover_mail" THEN "fetch" ELSE t, d)
           /\ Told([run |-> f, kind |-> k, pw |-> d.pw]),
         t = "handover_mail" /\ kind = "awaiting" => k = "handover" /\ how = "raise",
         UNCHANGED <<row, age, ad, itsm, kind>>
  PROVE  IInv'
<1> DEFINE m == [run |-> f, kind |-> k, pw |-> d.pw]
<1>1. UNCHANGED <<status, emails, written, applied, output, noted, closed, users, kind>>
  BY DEF row, ad, itsm
<1>2. Ends(f, t, d) \/ Ends(f, t, NoData)
  BY DEF Sends, Fails, Breaks, Ends
<1>3. mails' = mails \/ (d # NoData /\ mails' = mails \cup {m})
  <2>1. CASE Sends(f, t, d, k, how) /\ d # NoData
    BY <2>1 DEF Sends
  <2> QED
    BY <2>1
<1>4. OthersOK' /\ Scripted'
  <2>1. d # NoData => m \in [run : Run, kind : MailKind, pw : Pw \cup {NoPw}]
    BY DEF Data
  <2> HIDE DEF m
  <2> QED
    BY <1>1, <1>3, <2>1 DEF IInv, WorldInv, OthersOK, Scripted
<1>5. mails \subseteq mails' /\ \A x \in mails' \ mails : Told(x)
  BY <1>3
<1>6. WorldInv'
  BY <1>1, <1>4, <1>5, RestChanges DEF IInv
<1>7. Tried(f, t, d)
  BY <1>1, <1>2, <1>5, <1>6 DEF Tried, IInv, WorldInv
<1>8. Returns(f, t, d) /\ d # NoData => Knows(f, t, d)'
  <2> SUFFICES ASSUME Returns(f, t, d), d # NoData
               PROVE  Knows(f, t, d)'
    OBVIOUS
  <2>1. CASE t # "handover_mail"
    BY <1>7, <2>1, KnownStays
  <2>2. CASE t = "handover_mail"
    <3>1. "fetch" \in Task /\ d \in Data
      BY DEF Task
    <3>2. Knows(f, "fetch", d)'
      BY <1>7, <2>2, <3>1, KnownStays
    <3>3. kind = "awaiting" => ToldHandover(f)'
      <4> SUFFICES ASSUME kind = "awaiting"
                   PROVE  ToldHandover(f)'
        OBVIOUS
      <4>1. /\ \A e : ~Raises(f, t, e)
            /\ \A e : Returns(f, t, e) => e = d
        BY EndsDiffer DEF IInv, FlowInv
      <4>2. Sends(f, t, d, k, "raise") /\ k = "handover"
        BY <2>2, <4>1 DEF Ends
      <4>3. mails' = mails \cup {m}
        BY <4>1, <4>2 DEF Sends, Fails, Breaks
      <4> QED
        BY <4>2, <4>3 DEF ToldHandover
    <3> QED
      BY <1>1, <2>2, <3>2, <3>3 DEF Knows, AfterCompletion
  <2> QED
    BY <2>1, <2>2
<1>9. FlowInv'
  BY <1>1, <1>2, <1>7, <1>8, FlowKeeps DEF IInv
<1> QED
  BY <1>1, <1>6, <1>9 DEF IInv

\* A task that gives up.
LEMMA GivesUp ==
  ASSUME IInv, NEW f \in Run, NEW t \in Task \ Looking, task[f][t] = "none",
         Guard(f, t), Ends(f, t, NoData), UNCHANGED <<row, age, ad, itsm, mails, kind>>
  PROVE  IInv'
<1>1. age' \in Age
  BY DEF IInv, WorldInv, OthersOK
<1> QED
  BY <1>1, SilentTask

\* A task that updates the row, or says that it could not.
LEMMA UpdateTask ==
  ASSUME IInv, NEW f \in Run, NEW t \in Task \ Looking, task[f][t] = "none",
         Guard(f, t), NEW d \in Data, NEW how,
         NEW s \in Status, NEW p \in Pw \cup {NoPw}, NEW n \in {0, emails},
         Allowed([run |-> f, status |-> s, pw |-> p]),
         Does(f, t, d, s, p), Knows(f, IF t \in Doing THEN "fetch" ELSE t, d),
         how = "return" => t \notin Doing,
         Updates(f, t, s, p, n, d, d, how),
         UNCHANGED <<age, ad, itsm, mails, kind>>
  PROVE  IInv'
<1>1. Ends(f, t, d) \/ Ends(f, t, NoData)
  BY DEF Updates, Fails, Breaks, Ends
<1>2. SetRow(f, s, p, n) \/ (UNCHANGED row /\ (Fails(f, t, d, how) \/ Breaks(f, t)))
  BY DEF Updates
<1>3. Fails(f, t, d, how) \/ Breaks(f, t) => (Returns(f, t, d) => Knows(f, t, d))
  <2> SUFFICES ASSUME Fails(f, t, d, how) \/ Breaks(f, t), Returns(f, t, d)
               PROVE  Knows(f, t, d)
    OBVIOUS
  <2>1. \A e : ~Raises(f, t, e)
    BY EndsDiffer DEF IInv, FlowInv
  <2>2. how = "return"
    BY <2>1 DEF Fails, Breaks
  <2> QED
    BY <2>2
<1>4. t # "check"
  BY DEF Looking
<1> QED
  BY <1>1, <1>2, <1>3, <1>4, RowTask

-----------------------------------------------------------------------------
(* What a task hands on                                                    *)

\* To hand d on with another value of a key leaves the other keys: what the
\* task before it did,
LEMMA Labelled ==
  ASSUME NEW d \in Data,
         NEW l \in {"none", "found", "not found", "created", "updated", "failed",
                    "comment remarks", "status remarks"}
  PROVE  /\ [d EXCEPT !.last = l] \in Data
         /\ [d EXCEPT !.last = l].last = l
         /\ [d EXCEPT !.last = l].emails = d.emails
         /\ [d EXCEPT !.last = l].pw = d.pw
BY DEF Data

\* what the ticket system answered,
LEMMA LookedUp ==
  ASSUME NEW d \in Data, NEW x \in {"unknown", "false", "true", "cancel", "errored"}
  PROVE  /\ [d EXCEPT !.wo = x] \in Data
         /\ [d EXCEPT !.wo = x].emails = d.emails
BY DEF Data

\* or that the script did not finish.
LEMMA Unfinished ==
  ASSUME NEW d \in Data
  PROVE  /\ [d EXCEPT !.ad = "unfinished"] \in Data
         /\ [d EXCEPT !.ad = "unfinished"].ad = "unfinished"
         /\ [d EXCEPT !.ad = "unfinished"].emails = d.emails
BY DEF Data

\* Most tasks know no more than what was counted.
Plain == Task \ (Doing \cup AfterCompletion \cup
                 {"check", "handover_mail", "ad_process", "comment_err_status"})

\* So they know it of whatever they are handed.
LEMMA PlainKnows ==
  ASSUME NEW f, NEW u, NEW d, Knows(f, u, d), NEW t \in Plain,
         NEW e, e.emails = d.emails
  PROVE  Knows(f, t, e)
BY DEF Knows, Plain, Doing, AfterCompletion

\* What follows the completion of the row hands the password on.
LEMMA CompletedKnows ==
  ASSUME NEW f, NEW u \in AfterCompletion, NEW d, Knows(f, u, d),
         NEW e, e.emails = d.emails, e.pw = d.pw,
         NEW t \in AfterCompletion, t = "wo_comment" /\ e.last = "created" => noted
  PROVE  Knows(f, t, e)
<1>1. t \notin {"check", "handover_mail", "ad_process", "comment_err_status",
                "status_err_status", "wo_fail_status", "decrypt_status", "cancel_status"}
  BY DEF AfterCompletion
<1> QED
  BY <1>1 DEF Knows

\* The statuses that tasks set.
LEMMA StatusHas ==
  {"SR Approved", "Error in AD Process", "Completed", "Error in Process",
   "Error in Decryption", "Error in ITSM Process", "SR approval Rejected."}
    \subseteq Status
<1>1. DOMAIN Verdict = {"account", "fo", "garbled", "itsm", "errored", "rejected"}
  BY DEF Verdict
<1>2. /\ Verdict["account"] = {"Completed"} /\ Verdict["itsm"] = {"Error in ITSM Process"}
      /\ Verdict["garbled"] = {"Error in Process", "Error in Decryption"}
      /\ Verdict["rejected"] = {"SR approval Rejected."}
  BY DEF Verdict
<1> QED
  BY <1>1, <1>2 DEF Status

\* There is a mail for every verdict, and some that tell none.
LEMMA MailKindHas ==
  {"account", "fo", "garbled", "itsm", "errored", "rejected", "ad_error",
   "follow_up", "handover"} \subseteq MailKind
BY DEF MailKind, Verdict

\* The mail task after u, which tells what u has done.
LEMMA MailsOnKeeps ==
  ASSUME IInv, NEW f \in Run, NEW u \in Task, NEW t \in Task \ Looking,
         Follows(f, t, u), NEW k \in MailKind, NEW looks \in BOOLEAN,
         MailsOn(f, t, u, k, looks), t # "handover_mail",
         xcom[f][u] # NoData =>
           /\ t \in Plain \/ Knows(f, t, xcom[f][u])
           /\ Told([run |-> f, kind |-> k, pw |-> xcom[f][u].pw]),
         UNCHANGED <<row, age, ad, itsm, kind>>
  PROVE  IInv'
<1> DEFINE d == xcom[f][u]
<1>1. task[f][t] = "none" /\ task[f][u] = "success"
  BY DEF Follows
<1>2. Guard(f, t)
  BY <1>1, Led
<1>3. d \in Data \cup {NoData} /\ (d # NoData => Knows(f, u, d))
  BY <1>1, Handed
<1>4. d # NoData => Knows(f, t, d)
  BY <1>3, PlainKnows
<1>5. \/ Ends(f, t, NoData) /\ UNCHANGED mails
      \/ d # NoData /\ Sends(f, t, d, k, "raise")
      \/ Returns(f, t, d) /\ UNCHANGED mails /\ t # "handover_mail"
  BY DEF MailsOn, Opens, Given, Ends
<1> HIDE DEF d
<1> QED
  BY <1>1, <1>2, <1>3, <1>4, <1>5, MailTask DEF d

\* The password that nobody set is not one that a try of the script has.
LEMMA NoneIsNoPw == NoPw \notin Pw
<1>1. \A p \in Pw : p.run \in Run
  BY DEF Pw
<1>2. NoPw.run \notin Run
  BY DEF NoPw, Run
<1> QED
  BY <1>1, <1>2

-----------------------------------------------------------------------------
(* The tasks of every run                                                  *)

\* A run that has not looked at the row has not reminded anybody, so that
\* what it reads of reminders is what others have done.
LEMMA CheckKeeps ==
  ASSUME IInv, NEW f \in Run, NEW a \in Age, Check(f, a), UNCHANGED kind
  PROVE  IInv'
<1> DEFINE t == "check"
           d == [flag |-> Due(a, emails), emails |-> emails, wo |-> "unknown",
                 ad |-> "not asked", pw |-> NoPw, last |-> "none"]
<1>1. /\ task[f][t] = "none" /\ age' = a
      /\ Returns(f, t, d) \/ Raises(f, t, NoData)
      /\ UNCHANGED <<row, ad, itsm, mails>>
  BY DEF Check
<1>2. t \in Task /\ Guard(f, t)
  BY DEF Task, Guard
<1>3. f \notin Reminded
  BY <1>1 DEF Reminded, IInv, FlowInv, LookedFirst
<1>4. Reminded \in SUBSET Run
  BY DEF Reminded, IInv, WorldInv, RowOK
<1>5. /\ Cardinality(Reminded) \in Nat /\ Cardinality(Reminded) <= Runs
      /\ emails \in Nat /\ emails <= Cardinality(Reminded)
  BY <1>4, RunsAreFinite DEF IInv, WorldInv, RowOK, Counted
<1>6. Due(a, emails) \in 0 .. 2 /\ (Due(a, emails) = 2 => emails >= 2)
  BY <1>5 DEF Due, Age
<1>7. d \in Data
  <2>1. emails \in 0 .. Runs * MaxTries
    <3>1. Runs \in Nat /\ MaxTries \in Nat /\ MaxTries >= 1
      BY RunsAssumption, TriesAssumption
    <3>2. Runs <= Runs * MaxTries
      BY <3>1
    <3>3. Runs * MaxTries \in Nat
      BY <3>1
    <3> QED
      BY <1>5, <3>1, <3>2, <3>3
  <2> QED
    BY <1>6, <2>1 DEF Data
<1>8. d # NoData
  BY DEF NoData
<1>9. Knows(f, t, d)
  <2>1. Reminded \ {f} = Reminded
    BY <1>3
  <2>2. d.emails = emails /\ d.flag = Due(a, emails)
    OBVIOUS
  <2>3. d.emails <= Cardinality(Reminded \ {f})
    BY <1>5, <2>1, <2>2
  <2>4. d.flag = 2 => Cardinality(Reminded) >= 2
    BY <1>5, <1>6, <2>2
  <2> HIDE DEF d
  <2> QED
    BY <2>3, <2>4 DEF Knows, AfterCompletion
<1>10. ~Returns(f, t, NoData)
  BY <1>1, <1>2, <1>8, EndsDiffer DEF IInv, FlowInv
<1> HIDE DEF d
<1> QED
  BY <1>1, <1>2, <1>7, <1>9, <1>10, SilentTask DEF Ends

\* The answer of the ticket system is handed on.
LEMMA CheckWoKeeps ==
  ASSUME IInv, wo \in Answer, NEW f \in Run, CheckWo(f, wo), UNCHANGED kind
  PROVE  IInv'
<1> DEFINE t == "check_wo"
           d == xcom[f]["check"]
<1>1. /\ task[f][t] = "none" /\ task[f]["check"] = "success"
      /\ UNCHANGED <<row, age, ad, itsm, mails>>
  BY DEF CheckWo, Follows
<1>2. "check" \in Task /\ t \in Plain /\ t \in Task \ Looking
      /\ t \in Task \ {"handover_mail"}
  BY DEF Task, Plain, Looking, Doing, AfterCompletion
<1>3. Guard(f, t)
  BY <1>1, <1>2, Led
<1>4. CASE Ends(f, t, NoData)
  BY <1>1, <1>2, <1>3, <1>4, GivesUp
<1>5. CASE d # NoData /\ \E x \in {wo, "errored"} : Returns(f, t, [d EXCEPT !.wo = x])
  <2>1. wo \in {"unknown", "false", "true", "cancel", "errored"}
    BY DEF Answer
  <2>2. PICK x \in {"unknown", "false", "true", "cancel", "errored"} :
          Returns(f, t, [d EXCEPT !.wo = x])
    BY <1>5, <2>1
  <2>3. d \in Data /\ Knows(f, "check", d)
    BY <1>1, <1>2, <1>5, Handed
  <2> HIDE DEF d
  <2>4. [d EXCEPT !.wo = x] \in Data /\ [d EXCEPT !.wo = x].emails = d.emails
    BY <2>3, LookedUp
  <2>5. Knows(f, t, [d EXCEPT !.wo = x])
    BY <1>2, <2>3, <2>4, PlainKnows
  <2>6. Ends(f, t, [d EXCEPT !.wo = x])
    BY <2>2 DEF Ends
  <2>7. age' \in Age
    BY <1>1 DEF IInv, WorldInv, OthersOK
  <2> QED
    BY <1>1, <1>2, <1>3, <2>4, <2>5, <2>6, <2>7, SilentTask
<1> QED
  BY <1>4, <1>5 DEF CheckWo, Needs, Given, Ends

\* The row of a request whose WO could not be looked up says so, and that of a
\* request that was rejected.
LEMMA VerdictTask ==
  ASSUME IInv, NEW f \in Run, NEW t, NEW s,
         \/ t = "wo_fail_status" /\ s = "Error in ITSM Process"
         \/ t = "cancel_status" /\ s = "SR approval Rejected.",
         Follows(f, t, "check_wo"), xcom[f]["check_wo"] # NoData,
         \/ Ends(f, t, NoData) /\ UNCHANGED row
         \/ Updates(f, t, s, NoPw, 0, xcom[f]["check_wo"], xcom[f]["check_wo"], "raise"),
         UNCHANGED <<age, ad, itsm, mails, kind>>
  PROVE  IInv'
<1> DEFINE d == xcom[f]["check_wo"]
<1>1. /\ task[f][t] = "none" /\ task[f]["check_wo"] = "success" /\ d # NoData
  BY DEF Follows
<1>2. /\ "check_wo" \in Task /\ t \in Task \ Looking /\ t \in Task \ {"handover_mail"}
      /\ t \in Doing /\ "fetch" \in Plain
  BY DEF Task, Looking, Doing, Plain, AfterCompletion
<1>3. Guard(f, t)
  BY <1>1, <1>2, Led
<1>4. CASE Ends(f, t, NoData) /\ UNCHANGED row
  BY <1>1, <1>2, <1>3, <1>4, GivesUp
<1>5. CASE Updates(f, t, s, NoPw, 0, d, d, "raise")
  <2>1. d \in Data /\ Knows(f, "check_wo", d)
    BY <1>1, <1>2, Handed
  <2>2. Knows(f, "fetch", d)
    BY <1>2, <2>1, PlainKnows
  <2>3. s \in Status /\ Does(f, t, d, s, NoPw)
    BY StatusHas DEF Does
  <2>4. Allowed([run |-> f, status |-> s, pw |-> NoPw])
    BY DEF Allowed
  <2> HIDE DEF d
  <2> QED
    BY <1>1, <1>2, <1>3, <1>5, <2>1, <2>2, <2>3, <2>4, UpdateTask
<1> QED
  BY <1>4, <1>5

\* A mail tells what was recorded.
LEMMA VerdictMail ==
  ASSUME IInv, NEW f \in Run, NEW t, NEW u, NEW k,
         \/ t = "wo_fail_mail" /\ u = "wo_fail_status" /\ k = "errored"
         \/ t = "cancel_mail" /\ u = "cancel_status" /\ k = "rejected",
         Follows(f, t, u), MailsOn(f, t, u, k, TRUE),
         UNCHANGED <<row, age, ad, itsm, kind>>
  PROVE  IInv'
<1> DEFINE d == xcom[f][u]
<1>1. task[f][u] = "success"
  BY DEF Follows
<1>2. /\ u \in Task /\ t \in Plain /\ t \in Task \ Looking /\ k \in MailKind
      /\ t # "handover_mail"
  BY MailKindHas DEF Task, Looking, Doing, Plain, AfterCompletion
<1>3. /\ Verdict["errored"] = {"Error in ITSM Process"}
      /\ Verdict["rejected"] = {"SR approval Rejected."}
  BY DEF Verdict
<1>4. d # NoData => Wrote(f, Verdict[k])
  BY <1>1, <1>2, <1>3, Handed DEF Knows
<1>5. d # NoData => Told([run |-> f, kind |-> k, pw |-> d.pw])
  BY <1>4 DEF Told, Wrote
<1> QED
  BY <1>2, <1>5, MailsOnKeeps

\* The WO could not be looked up.
LEMMA WoFailKeeps ==
  ASSUME IInv, NEW f \in Run, WoFailStatus(f) \/ WoFailMail(f), UNCHANGED kind
  PROVE  IInv'
<1>1. CASE WoFailStatus(f)
  BY <1>1, VerdictTask DEF WoFailStatus, Branched, Given, Opens, Ends
<1>2. CASE WoFailMail(f)
  BY <1>2, VerdictMail DEF WoFailMail
<1> QED
  BY <1>1, <1>2

\* The request was rejected.
LEMMA RejectedKeeps ==
  ASSUME IInv, NEW f \in Run, RejectedStep(f), UNCHANGED kind
  PROVE  IInv'
<1>1. CASE CancelStatus(f)
  BY <1>1, VerdictTask DEF CancelStatus, Branched, Given, Opens, Ends
<1>2. CASE CancelMail(f)
  BY <1>2, VerdictMail DEF CancelMail
<1> QED
  BY <1>1, <1>2 DEF RejectedStep

-----------------------------------------------------------------------------
(* The tasks of a run that finds its request waiting                       *)

\* The row is read again, and what the run found is handed on.
LEMMA FetchWaitingKeeps ==
  ASSUME IInv, NEW f \in Run, NEW u \in {"check", "check_wo"},
         Follows(f, "fetch_waiting", u), Reads(f, "fetch_waiting", u, xcom[f][u]),
         UNCHANGED <<row, age, ad, itsm, mails, kind>>
  PROVE  IInv'
<1> DEFINE t == "fetch_waiting"
           d == xcom[f][u]
<1>1. /\ u \in Task /\ t \in Plain /\ t \in Task \ {"handover_mail"}
  BY DEF Task, Doing, Plain, AfterCompletion
<1>2. task[f][t] = "none" /\ task[f][u] = "success"
  BY DEF Follows
<1>3. Guard(f, t)
  BY <1>1, <1>2, Led
<1>4. d \in Data \cup {NoData} /\ (d # NoData => Knows(f, t, d))
  BY <1>1, <1>2, Handed, PlainKnows
<1>5. Raises(f, t, NoData) \/ (d # NoData /\ Returns(f, t, d))
  BY DEF Reads, Needs, Given
<1>6. ~Returns(f, t, NoData)
  BY <1>1, <1>2, <1>5, EndsDiffer DEF IInv, FlowInv
<1>7. age' \in Age
  BY DEF IInv, WorldInv, OthersOK
<1> HIDE DEF d
<1> QED
  BY <1>1, <1>2, <1>3, <1>4, <1>5, <1>6, <1>7, SilentTask DEF Ends

\* The mails of a waiting request say nothing that the row has to tell.  The
\* one that hands the request over is sent only when that is due.
LEMMA WaitMailKeeps ==
  ASSUME IInv, NEW f \in Run, NEW u \in {"fetch_waiting", "approver"},
         NEW t, NEW flag, NEW k, NEW how, IsDue(f, t, u, flag),
         \/ t = "follow_up_mail" /\ k = "follow_up"
         \/ t = "handover_mail" /\ k = "handover" /\ flag = 2,
         \/ Returns(f, t, NoData) /\ UNCHANGED mails
         \/ xcom[f][u] # NoData /\ Sends(f, t, xcom[f][u], k, how),
         kind = "awaiting" => how = "raise",
         UNCHANGED <<row, age, ad, itsm, kind>>
  PROVE  IInv'
<1> DEFINE d == xcom[f][u]
<1>1. /\ u \in Task /\ t \in Task \ Looking /\ k \in MailKind
      /\ t = "handover_mail" \/ t \in Plain
      /\ "fetch" \in Plain
  BY MailKindHas DEF Task, Looking, Doing, Plain, AfterCompletion
<1>2. /\ task[f][t] = "none" /\ task[f][u] = "success"
      /\ xcom[f]["check"].flag = flag
  BY DEF IsDue, Follows
<1>3. Guard(f, t)
  BY <1>1, <1>2, Handed DEF Guard
<1>4. d \in Data \cup {NoData} /\ (d # NoData => Knows(f, u, d))
  BY <1>1, <1>2, Handed
<1>5. d # NoData => Knows(f, IF t = "handover_mail" THEN "fetch" ELSE t, d)
  BY <1>1, <1>4, PlainKnows
<1>6. k \notin DOMAIN Verdict
  BY DEF Verdict
<1>7. Told([run |-> f, kind |-> k, pw |-> d.pw])
  BY <1>6 DEF Told
<1>8. Returns(f, t, NoData) => Ends(f, t, NoData)
  BY DEF Ends
<1> HIDE DEF d
<1> QED
  BY <1>1, <1>2, <1>3, <1>4, <1>5, <1>7, <1>8, MailTask DEF d

\* The approvers are looked up, or not.
LEMMA ApproverKeeps ==
  ASSUME IInv, NEW f \in Run, FetchApprover(f), UNCHANGED kind
  PROVE  IInv'
<1> DEFINE t == "approver"
           u == "fetch_waiting"
           d == xcom[f][u]
<1>1. /\ u \in Task /\ t \in Plain /\ t \in Task \ Looking
      /\ t \in Task \ {"handover_mail"}
  BY DEF Task, Doing, Plain, AfterCompletion, Looking
<1>2. /\ task[f][t] = "none" /\ task[f][u] = "success"
      /\ UNCHANGED <<row, age, ad, itsm, mails>>
  BY DEF FetchApprover, Follows
<1>3. Guard(f, t)
  BY <1>1, <1>2, Led
<1>4. d \in Data \cup {NoData} /\ (d # NoData => Knows(f, t, d))
  BY <1>1, <1>2, Handed, PlainKnows
<1>5. Ends(f, t, d) \/ Ends(f, t, NoData)
  BY DEF FetchApprover, Stops, Breaks, Ends
<1>6. age' \in Age
  BY <1>2 DEF IInv, WorldInv, OthersOK
<1> HIDE DEF d
<1> QED
  BY <1>1, <1>2, <1>3, <1>4, <1>5, <1>6, SilentTask

\* A run writes one more reminder than it read before it wrote its own, so
\* that no more of them are told of than there are runs that wrote one.
LEMMA RemindsKeeps ==
  ASSUME IInv, NEW f \in Run, Reminds(f, "follow_up", "follow_up_mail"),
         UNCHANGED kind
  PROVE  IInv'
<1> DEFINE t == "follow_up"
           u == "follow_up_mail"
           d == xcom[f][u]
           w == [run |-> f, status |-> "reminded", pw |-> NoPw]
<1>1. /\ u \in Task /\ t \in Plain /\ t \in Task \ Looking
      /\ t \in Task \ {"handover_mail"} /\ t # "check"
  BY DEF Task, Doing, Plain, AfterCompletion, Looking
<1>2. /\ task[f][t] = "none" /\ task[f][u] = "success"
      /\ UNCHANGED <<age, ad, itsm, mails, kind>>
  BY DEF Reminds, Follows
<1>3. Guard(f, t)
  BY <1>1, <1>2, Led
<1>4. /\ d \in Data \cup {NoData}
      /\ d # NoData => d \in Data /\ Knows(f, u, d) /\ Knows(f, t, d)
  BY <1>1, <1>2, Handed, PlainKnows
<1>5. Ends(f, t, d) \/ Ends(f, t, NoData)
  BY DEF Reminds, Needs, Breaks, Ends
<1>6. UNCHANGED row \/ (d # NoData /\ SetRemarks(f, d.emails + 1))
  BY DEF Reminds, Given
<1> HIDE DEF d
<1>7. CASE UNCHANGED row
  <2>1. age' \in Age
    BY <1>2 DEF IInv, WorldInv, OthersOK
  <2> QED
    BY <1>1, <1>2, <1>3, <1>4, <1>5, <1>7, <2>1, SilentTask
<1>8. CASE d # NoData /\ SetRemarks(f, d.emails + 1)
  <2>1. PICK e \in Data : e = d /\ Knows(f, u, e) /\ Knows(f, t, e)
    BY <1>4, <1>8
  <2>2. /\ emails' = e.emails + 1 /\ status' = status
        /\ written' = written \cup {w}
    BY <1>8, <2>1 DEF SetRemarks
  <2>3. e.emails \in Nat
    BY <2>1, DataIsCounted
  <2>4. RowOK'
    BY <2>2, <2>3 DEF RowOK, IInv, WorldInv
  <2>5. Counted'
    <3>1. w \in written' /\ w.status = "reminded" /\ w.run = f
      BY <2>2
    <3> HIDE DEF w
    <3>2. f \in Reminded'
      BY <3>1 DEF Reminded
    <3>3. /\ Cardinality(Reminded \ {f}) \in Nat /\ Cardinality(Reminded') \in Nat
          /\ Cardinality(Reminded \ {f}) + 1 <= Cardinality(Reminded')
      BY <2>2, <2>4, <3>2, RemindedGrows DEF IInv, WorldInv
    <3>4. e.emails <= Cardinality(Reminded \ {f})
      BY <2>1 DEF Knows
    <3> QED
      BY <2>2, <2>3, <3>3, <3>4 DEF Counted
  <2>6. Allowed(w) /\ w.status # "Completed"
    BY DEF Allowed
  <2>7. \A x \in written' \ written : x.run = f /\ t # "check"
    BY <1>1, <2>2
  <2> HIDE DEF w
  <2>8. WorldInv'
    BY <1>2, <2>2, <2>4, <2>5, <2>6, RowChanges DEF IInv
  <2>9. Tried(f, t, e)
    BY <1>1, <1>2, <1>5, <2>1, <2>2, <2>4 DEF Tried, IInv, WorldInv, ad, itsm
  <2>10. Knows(f, t, e)'
    BY <1>1, <2>1, <2>9, KnownStays
  <2>11. FlowInv'
    BY <1>1, <1>3, <2>7, <2>9, <2>10, FlowKeeps DEF IInv
  <2> QED
    BY <1>2, <2>8, <2>11 DEF IInv
<1> QED
  BY <1>6, <1>7, <1>8

\* The request is given up, two reminders after it was first looked at.
LEMMA HandsOverKeeps ==
  ASSUME IInv, NEW f \in Run, HandsOver(f, "handover", "handover_mail"),
         UNCHANGED kind
  PROVE  IInv'
<1> DEFINE t == "handover"
           u == "handover_mail"
           d == xcom[f][u]
<1>1. /\ u \in Task /\ t \in Plain /\ t \in Task \ Looking
      /\ t \in Task \ {"handover_mail"} /\ t \notin Doing /\ "check" \in Task
  BY DEF Task, Doing, Plain, AfterCompletion, Looking
<1>2. /\ task[f][t] = "none" /\ task[f][u] = "success"
      /\ UNCHANGED <<age, ad, itsm, mails, kind>>
  BY DEF HandsOver, Follows
<1>3. Guard(f, t) /\ Guard(f, u)
  BY <1>1, <1>2, Led, Handed
<1>4. d # NoData => d \in Data /\ Knows(f, u, d) /\ Knows(f, t, d)
  BY <1>1, <1>2, Handed, PlainKnows
<1>5. CASE Ends(f, t, NoData) /\ UNCHANGED row
  BY <1>1, <1>2, <1>3, <1>5, GivesUp
<1>6. CASE d # NoData /\ Updates(f, t, "Completed", NoPw, 0, d, d, "return")
  <2>1. Cardinality(Reminded) >= 2
    <3>1. task[f]["check"] = "success" /\ xcom[f]["check"].flag = 2
      BY <1>3 DEF Guard
    <3>2. xcom[f]["check"] # NoData
      BY <3>1 DEF IInv, FlowInv, Looked, Looking
    <3> QED
      BY <1>1, <3>1, <3>2, Handed DEF Knows
  <2>2. kind = "awaiting" => ToldHandover(f)
    BY <1>4, <1>6 DEF Knows
  <2>4. Allowed([run |-> f, status |-> "Completed", pw |-> NoPw])
    BY <2>1, <2>2 DEF Allowed
  <2>5. Does(f, t, d, "Completed", NoPw)
    BY DEF Does
  <2> HIDE DEF d
  <2>6. "Completed" \in Status
    BY StatusHas
  <2> QED
    BY <1>1, <1>2, <1>3, <1>4, <1>6, <2>4, <2>5, <2>6, UpdateTask
<1> QED
  BY <1>5, <1>6 DEF HandsOver, Needs, Given, Ends

\* The request of a requester who does not answer.
LEMMA AwaitingKeeps ==
  ASSUME IInv, NEW f \in Run, kind = "awaiting", AwaitingStep(f), UNCHANGED kind
  PROVE  IInv'
<1>2. CASE FetchForResponse(f)
  BY <1>2, FetchWaitingKeeps DEF FetchForResponse
<1>3. ASSUME NEW t, NEW flag, NEW k, ResponseMail(f, t, flag, k),
             \/ t = "follow_up_mail" /\ k = "follow_up"
             \/ t = "handover_mail" /\ k = "handover" /\ flag = 2
      PROVE  IInv'
  <2>1. IsDue(f, t, "fetch_waiting", flag) /\ UNCHANGED <<row, age, ad, itsm>>
    BY <1>3 DEF ResponseMail
  <2>2. xcom[f]["fetch_waiting"] # NoData
    BY <2>1 DEF IsDue, Follows, IInv, FlowInv, Looked, Looking
  <2>3. \/ Returns(f, t, NoData) /\ UNCHANGED mails
        \/ Sends(f, t, xcom[f]["fetch_waiting"], k, "raise")
    BY <1>3 DEF ResponseMail, Stops
  <2> QED
    BY <1>3, <2>1, <2>2, <2>3, WaitMailKeeps
<1>4. CASE ResponseFlag1Mail(f)
  BY <1>3, <1>4 DEF ResponseFlag1Mail
<1>5. CASE ResponseFlag2Mail(f)
  BY <1>3, <1>5 DEF ResponseFlag2Mail
<1>6. CASE ResponseFlag1Update(f)
  BY <1>6, RemindsKeeps DEF ResponseFlag1Update
<1>7. CASE ResponseFlag2Update(f)
  BY <1>7, HandsOverKeeps DEF ResponseFlag2Update
<1> QED
  BY <1>2, <1>4, <1>5, <1>6, <1>7 DEF AwaitingStep

\* The request that waits for the approvers of its SR.
LEMMA WaitingKeeps ==
  ASSUME IInv, NEW f \in Run, kind \in AdKind, WaitingStep(f), UNCHANGED kind
  PROVE  IInv'
<1>2. CASE FetchForReminder(f)
  BY <1>2, FetchWaitingKeeps DEF FetchForReminder, Branched
<1>3. ASSUME NEW t, NEW flag, NEW k, ReminderMail(f, t, flag, k),
             \/ t = "follow_up_mail" /\ k = "follow_up"
             \/ t = "handover_mail" /\ k = "handover" /\ flag = 2
      PROVE  IInv'
  <2>1. IsDue(f, t, "approver", flag) /\ UNCHANGED <<row, age, ad, itsm>>
    BY <1>3 DEF ReminderMail
  <2>2. \/ Returns(f, t, NoData) /\ UNCHANGED mails
        \/ xcom[f]["approver"] # NoData /\ Sends(f, t, xcom[f]["approver"], k, "return")
    BY <1>3 DEF ReminderMail, Stops, Given
  <2>3. kind # "awaiting"
    BY DEF AdKind
  <2> QED
    BY <1>3, <2>1, <2>2, <2>3, WaitMailKeeps
<1>4. CASE ReminderFlag1Mail(f)
  BY <1>3, <1>4 DEF ReminderFlag1Mail
<1>5. CASE ReminderFlag2Mail(f)
  BY <1>3, <1>5 DEF ReminderFlag2Mail
<1>6. CASE ReminderFlag1Update(f)
  BY <1>6, RemindsKeeps DEF ReminderFlag1Update
<1>7. CASE ReminderFlag2Update(f)
  BY <1>7, HandsOverKeeps DEF ReminderFlag2Update
<1>8. CASE FetchApprover(f)
  BY <1>8, ApproverKeeps
<1> QED
  BY <1>2, <1>4, <1>5, <1>6, <1>7, <1>8 DEF WaitingStep

-----------------------------------------------------------------------------
(* The tasks of a run whose request has its WO                             *)

\* A task that changes what is neither the row nor a mail.
LEMMA OutsideTask ==
  ASSUME IInv, NEW f \in Run, NEW t \in Task \ Looking, task[f][t] = "none",
         Guard(f, t), NEW d \in Data \cup {NoData},
         Ends(f, t, d) \/ Ends(f, t, NoData),
         UNCHANGED <<row, age, mails, kind>>, OthersOK', Scripted',
         applied \subseteq applied', noted => noted',
         closed' # closed => noted /\ \E g \in Run : Completion(g, closed') \in written,
         d # NoData => Knows(f, t, d)'
  PROVE  IInv'
<1>1. UNCHANGED <<status, emails, written>>
  BY DEF row
<1>2. WorldInv'
  BY <1>1, RestChanges DEF IInv
<1>3. Tried(f, t, d)
  BY <1>1, <1>2 DEF Tried, IInv, WorldInv
<1>4. FlowInv'
  BY <1>1, <1>3, FlowKeeps DEF IInv
<1> QED
  BY <1>2, <1>4 DEF IInv

\* The row is set to approved, or not.
LEMMA ApprovedKeeps ==
  ASSUME IInv, NEW f \in Run, Approved(f), UNCHANGED kind
  PROVE  IInv'
<1> DEFINE t == "approved"
           u == "check_wo"
           d == xcom[f][u]
<1>1. /\ u \in Task /\ t \in Plain /\ t \in Task \ Looking
      /\ t \in Task \ {"handover_mail"} /\ t \notin Doing
  BY DEF Task, Doing, Plain, AfterCompletion, Looking
<1>2. /\ task[f][t] = "none" /\ task[f][u] = "success" /\ d # NoData
      /\ UNCHANGED <<age, ad, itsm, mails, kind>>
  BY DEF Approved, Branched, Follows, Given
<1>3. Guard(f, t)
  BY <1>1, <1>2, Led
<1>4. d \in Data /\ Knows(f, t, d)
  BY <1>1, <1>2, Handed, PlainKnows
<1>5. CASE Ends(f, t, NoData) /\ UNCHANGED row
  BY <1>1, <1>2, <1>3, <1>5, GivesUp
<1>6. CASE Updates(f, t, "SR Approved", NoPw, emails, d, d, "return")
  <2>1. Allowed([run |-> f, status |-> "SR Approved", pw |-> NoPw])
    BY DEF Allowed
  <2>2. Does(f, t, d, "SR Approved", NoPw)
    BY DEF Does
  <2>3. "SR Approved" \in Status
    BY StatusHas
  <2> HIDE DEF d
  <2> QED
    BY <1>1, <1>2, <1>3, <1>4, <1>6, <2>1, <2>2, <2>3, UpdateTask
<1> QED
  BY <1>5, <1>6 DEF Approved, Stops, Ends

\* The row, or an AD id for the user, is read.
LEMMA FetchesKeeps ==
  ASSUME IInv, NEW f \in Run, NEW t \in {"adid", "fetch"}, NEW u \in {"approved", "adid"},
         Fetches(f, t, u), UNCHANGED kind
  PROVE  IInv'
<1> DEFINE d == xcom[f][u]
<1>1. /\ u \in Task /\ t \in Plain /\ t \in Task \ Looking
      /\ t \in Task \ {"handover_mail"}
  BY DEF Task, Doing, Plain, AfterCompletion, Looking
<1>2. /\ task[f][t] = "none" /\ task[f][u] = "success"
      /\ UNCHANGED <<row, age, ad, itsm, mails>>
  BY DEF Fetches, Follows
<1>3. Guard(f, t)
  BY <1>1, <1>2, Led
<1>4. d \in Data \cup {NoData} /\ (d # NoData => Knows(f, t, d))
  BY <1>1, <1>2, Handed, PlainKnows
<1>5. Ends(f, t, d) \/ Ends(f, t, NoData)
  BY DEF Fetches, Reads, Needs, Ends
<1>6. age' \in Age
  BY <1>2 DEF IInv, WorldInv, OthersOK
<1> HIDE DEF d
<1> QED
  BY <1>1, <1>2, <1>3, <1>4, <1>5, <1>6, SilentTask

\* A script that is said to have finished, or whose answer is garbled, has set
\* the password that is handed on, also when it is from an old output file.
LEMMA RunsScriptKeeps ==
  ASSUME IInv, NEW f \in Run,
         NEW answers \in SUBSET {"finished", "garbled"}, RunsScript(f, answers),
         UNCHANGED kind
  PROVE  IInv'
<1> DEFINE t == "ad_process"
           u == "fetch"
           p == [run |-> f, try |-> tries[f][t] + 1]
           d == xcom[f][u]
<1>1. /\ u \in Task /\ t \in Task \ Looking /\ u \in Plain
      /\ t \in Task \ {"handover_mail"} /\ t \notin Doing
  BY DEF Task, Doing, Plain, AfterCompletion, Looking
<1>2. /\ task[f][t] = "none" /\ task[f][u] = "success"
      /\ UNCHANGED <<row, age, itsm, mails, kind>>
  BY DEF RunsScript, Follows
<1>3. Guard(f, t)
  BY <1>1, <1>2, Led
<1>5. d # NoData => d \in Data /\ Knows(f, u, d)
  BY <1>1, <1>2, Handed
<1>6. p \in Pw
  <2>1. tries[f][t] \in 0 .. MaxTries /\ tries[f][t] < MaxTries
    BY <1>1, <1>2 DEF IInv, FlowInv, FlowOK, Bounded
  <2>2. tries[f][t] + 1 \in 1 .. MaxTries
    BY <2>1, TriesAssumption
  <2> QED
    BY <2>2 DEF Pw
<1>7. applied \subseteq Pw /\ output \in applied \cup {NoPw}
  BY DEF IInv, WorldInv, OthersOK, Scripted
<1>8. CASE Opens(f, t, u) /\ UNCHANGED ad
  <2>1. OthersOK' /\ Scripted' /\ applied' = applied
    BY <1>2, <1>8 DEF IInv, WorldInv, OthersOK, Scripted, ad, itsm
  <2> QED
    BY <1>1, <1>2, <1>3, <1>8, <2>1, OutsideTask DEF Opens, Ends, itsm
<1>9. ASSUME d # NoData \/ Breaks(f, t),
             applied' \in {applied, applied \cup {p}},
             output' \in applied' \cup {NoPw},
             NEW e \in Data \cup {NoData}, Ends(f, t, e) \/ Ends(f, t, NoData),
             e # NoData => /\ e.emails = d.emails /\ d # NoData
                           /\ e.ad # "unfinished" => e.pw \in applied'
      PROVE  IInv'
  <2> HIDE DEF p, d
  <2>1. UNCHANGED <<age, mails, noted, users, closed, written>>
    BY <1>2 DEF itsm, row
  <2>2. OthersOK' /\ Scripted' /\ applied \subseteq applied'
    <3>1. applied' \subseteq Pw
      BY <1>6, <1>7, <1>9
    <3> QED
      BY <1>9, <2>1, <3>1 DEF IInv, WorldInv, OthersOK, Scripted
  <2>3. e # NoData => Knows(f, t, e)'
    <3> SUFFICES ASSUME e # NoData
                 PROVE  Knows(f, t, e)'
      OBVIOUS
    <3>1. d.emails <= Cardinality(Reminded \ {f})
      BY <1>5, <1>9 DEF Knows
    <3>2. Reminded' = Reminded
      BY <2>1 DEF Reminded
    <3>3. e.emails <= Cardinality(Reminded' \ {f})
      BY <1>9, <3>1, <3>2
    <3> QED
      BY <1>9, <3>3 DEF Knows, AfterCompletion
  <2> QED
    BY <1>1, <1>2, <1>3, <1>9, <2>1, <2>2, <2>3, OutsideTask
<1>10. CASE d # NoData /\ Script(f, t, p, d, answers)
  <2>1. d \in Data
    BY <1>5, <1>10
  <2> HIDE DEF p, d
  <2>2. CASE /\ "service" \in Faults
             /\ \/ UNCHANGED ad
                \/ applied' = applied \cup {p} /\ output' \in {output, p}
             /\ Raises(f, t, NoData)
    <3>1. applied' \in {applied, applied \cup {p}} /\ output' \in applied' \cup {NoPw}
      BY <1>7, <2>2 DEF ad
    <3> QED
      BY <1>9, <1>10, <2>2, <3>1 DEF Ends
  <2>3. ASSUME applied' = applied \cup {p}, output' \in {p, NoPw},
               NEW a \in answers, Returns(f, t, [d EXCEPT !.ad = a, !.pw = p])
        PROVE  IInv'
    <3>0. PICK e : e = [d EXCEPT !.ad = a, !.pw = p]
      OBVIOUS
    <3>1. a \in {"finished", "garbled"}
      OBVIOUS
    <3>2. e \in Data /\ e.emails = d.emails /\ e.pw = p
      BY <1>6, <2>1, <3>0, <3>1 DEF Data
    <3>3. Returns(f, t, e)
      BY <2>3, <3>0
    <3> QED
      BY <1>9, <1>10, <2>3, <3>2, <3>3 DEF Ends
  <2>4. CASE /\ output # NoPw
             /\ applied' = applied \cup {p} \/ UNCHANGED applied
             /\ Returns(f, t, [d EXCEPT !.ad = "finished", !.pw = output])
             /\ output' = NoPw
    <3>0. PICK e : e = [d EXCEPT !.ad = "finished", !.pw = output]
      OBVIOUS
    <3>1. output \in Pw /\ output \in applied
      BY <1>7, <2>4
    <3>2. e \in Data /\ e.emails = d.emails /\ e.pw = output
      BY <2>1, <3>0, <3>1 DEF Data
    <3>3. Returns(f, t, e)
      BY <2>4, <3>0
    <3>4. e.pw \in applied' /\ applied' \in {applied, applied \cup {p}}
      BY <2>4, <3>1, <3>2
    <3> QED
      BY <1>9, <1>10, <2>4, <3>2, <3>3, <3>4 DEF Ends
  <2>5. CASE /\ applied' = applied \cup {p} \/ UNCHANGED applied
             /\ Returns(f, t, [d EXCEPT !.ad = "unfinished"])
             /\ output' = NoPw
    <3> DEFINE e == [d EXCEPT !.ad = "unfinished"]
    <3>1. e \in Data /\ e.emails = d.emails /\ e.ad = "unfinished"
      BY <2>1, Unfinished
    <3>2. Returns(f, t, e)
      BY <2>5
    <3>3. applied' \in {applied, applied \cup {p}}
      BY <2>5
    <3> HIDE DEF e
    <3> QED
      BY <1>9, <1>10, <2>5, <3>1, <3>2, <3>3 DEF Ends
  <2> QED
    BY <1>10, <2>2, <2>3, <2>4, <2>5 DEF Script
<1>11. CASE /\ Breaks(f, t)
            /\ \/ UNCHANGED ad
               \/ applied' = applied \cup {p} /\ output' \in {output, NoPw}
  <2>1. applied' \in {applied, applied \cup {p}} /\ output' \in applied' \cup {NoPw}
    BY <1>7, <1>11 DEF ad
  <2>2. Ends(f, t, NoData)
    BY <1>11 DEF Breaks, Ends
  <2> QED
    BY <1>9, <1>11, <2>1, <2>2
<1> QED
  BY <1>8, <1>10, <1>11 DEF RunsScript, Given

\* The row is completed with what the script has set.
LEMMA CompletesKeeps ==
  ASSUME IInv, kind \in AdKind, NEW f \in Run, Completes(f), UNCHANGED kind
  PROVE  IInv'
<1> DEFINE t == "rs_update"
           u == "ad_process"
           d == xcom[f][u]
<1>1. /\ u \in Task /\ t \in Task \ Looking /\ t \in Task \ {"handover_mail"}
      /\ t \in Doing /\ "fetch" \in Plain
  BY DEF Task, Doing, Plain, AfterCompletion, Looking
<1>2. /\ task[f][t] = "none" /\ task[f][u] = "success"
      /\ d # NoData /\ d.ad = "finished"
      /\ UNCHANGED <<age, ad, itsm, mails, kind>>
  BY DEF Completes, Branched, Follows, Given
<1>3. Guard(f, t)
  BY <1>1, <1>2, Led
<1>4. d \in Data /\ Knows(f, u, d)
  BY <1>1, <1>2, Handed
<1>5. Knows(f, "fetch", d)
  BY <1>1, <1>4, PlainKnows
<1>6. d.pw \in applied /\ d.pw \in Pw \cup {NoPw}
  BY <1>2, <1>4 DEF Knows, Data
<1>7. CASE Ends(f, t, NoData) /\ UNCHANGED row
  BY <1>1, <1>2, <1>3, <1>7, GivesUp
<1>8. CASE Updates(f, t, "Completed", d.pw, 0, d, d, "raise")
  <2>1. d.pw # NoPw /\ kind # "awaiting"
    <3>1. d.pw \in Pw
      BY <1>6 DEF IInv, WorldInv, OthersOK
    <3> QED
      BY <3>1, NoneIsNoPw DEF AdKind
  <2>2. Allowed([run |-> f, status |-> "Completed", pw |-> d.pw])
    BY <1>6, <2>1 DEF Allowed
  <2>3. Does(f, t, d, "Completed", d.pw)
    BY <1>6 DEF Does
  <2>4. "Completed" \in Status
    BY StatusHas
  <2> HIDE DEF d
  <2> QED
    BY <1>1, <1>2, <1>3, <1>4, <1>5, <1>6, <1>8, <2>2, <2>3, <2>4, UpdateTask
<1> QED
  BY <1>7, <1>8 DEF Completes, Needs, Ends

\* A mail about the completion tells of the password that was recorded.
LEMMA CompletionIsTold ==
  ASSUME NEW f \in Run, NEW u \in AfterCompletion, NEW d, Knows(f, u, d),
         NEW k \in {"account", "fo"}
  PROVE  Told([run |-> f, kind |-> k, pw |-> d.pw])
<1>1. Completion(f, d.pw) \in written
  BY DEF Knows
<1>2. "Completed" \in Verdict[k]
  <2>1. Verdict["account"] = {"Completed"} /\ Verdict["fo"] = {"Completed"}
    BY DEF Verdict
  <2> QED
    BY <2>1
<1> QED
  BY <1>1, <1>2 DEF Told, Completion

\* The requester is told.
LEMMA TellsKeeps ==
  ASSUME IInv, NEW f \in Run, Tells(f, "rs_update"), UNCHANGED kind
  PROVE  IInv'
<1> DEFINE t == "notify"
           u == "rs_update"
           d == xcom[f][u]
<1>1. /\ u \in Task /\ t \in Task \ Looking /\ t # "handover_mail"
      /\ u \in AfterCompletion /\ t \in AfterCompletion /\ t # "wo_comment"
      /\ "account" \in MailKind
  BY MailKindHas DEF Task, AfterCompletion, Looking
<1>2. /\ Follows(f, t, u) /\ MailsOn(f, t, u, "account", TRUE)
      /\ UNCHANGED <<row, age, ad, itsm, kind>>
  BY DEF Tells
<1>3. d # NoData => d \in Data /\ Knows(f, u, d)
  BY <1>1, <1>2, Handed DEF Follows
<1>4. d # NoData => Knows(f, t, d) /\ Told([run |-> f, kind |-> "account", pw |-> d.pw])
  BY <1>1, <1>3, CompletedKnows, CompletionIsTold
<1> QED
  BY <1>1, <1>2, <1>4, MailsOnKeeps

\* Those of the FO on shift are looked up.
LEMMA LooksUpShiftKeeps ==
  ASSUME IInv, NEW f \in Run, NEW u \in {"rs_update", "notify"}, LooksUpShift(f, u),
         UNCHANGED kind
  PROVE  IInv'
<1> DEFINE t == "shift"
           d == xcom[f][u]
<1>1. /\ u \in Task /\ t \in Task \ Looking /\ t \in Task \ {"handover_mail"}
      /\ u \in AfterCompletion /\ t \in AfterCompletion /\ t # "wo_comment"
  BY DEF Task, AfterCompletion, Looking
<1>2. /\ task[f][t] = "none" /\ task[f][u] = "success"
      /\ UNCHANGED <<row, age, ad, itsm, mails>>
  BY DEF LooksUpShift, Follows
<1>3. Guard(f, t)
  BY <1>1, <1>2, Led
<1>4. CASE Ends(f, t, NoData)
  BY <1>1, <1>2, <1>3, <1>4, GivesUp
<1>5. ASSUME d # NoData, NEW l \in {"found", "not found", "failed"},
             Ends(f, t, [d EXCEPT !.last = l])
      PROVE  IInv'
  <2>1. d \in Data /\ Knows(f, u, d)
    BY <1>1, <1>2, <1>5, Handed
  <2> HIDE DEF d
  <2>2. /\ [d EXCEPT !.last = l] \in Data
        /\ [d EXCEPT !.last = l].emails = d.emails /\ [d EXCEPT !.last = l].pw = d.pw
    <3>1. l \in {"none", "found", "not found", "created", "updated", "failed",
              "comment remarks", "status remarks"}
      OBVIOUS
    <3> QED
      BY <2>1, <3>1, Labelled
  <2>3. Knows(f, t, [d EXCEPT !.last = l])
    BY <1>1, <2>1, <2>2, CompletedKnows
  <2>4. age' \in Age
    BY <1>2 DEF IInv, WorldInv, OthersOK
  <2> QED
    BY <1>1, <1>2, <1>3, <1>5, <2>2, <2>3, <2>4, SilentTask
<1> QED
  BY <1>4, <1>5 DEF LooksUpShift, Opens, Given, Ends

\* They are told.
LEMMA TellsShiftKeeps ==
  ASSUME IInv, NEW f \in Run, TellsShift(f), UNCHANGED kind
  PROVE  IInv'
<1> DEFINE t == "fo_mail"
           u == "shift"
           d == xcom[f][u]
<1>1. /\ u \in Task /\ t \in Task \ Looking /\ t \in Task \ {"handover_mail"}
      /\ u \in AfterCompletion /\ t \in AfterCompletion /\ t # "wo_comment"
      /\ "fo" \in MailKind
  BY MailKindHas DEF Task, AfterCompletion, Looking
<1>2. /\ task[f][t] = "none" /\ task[f][u] = "success"
      /\ UNCHANGED <<row, age, ad, itsm, kind>>
  BY DEF TellsShift, Follows
<1>3. Guard(f, t)
  BY <1>1, <1>2, Led
<1>4. /\ d \in Data \cup {NoData}
      /\ d # NoData => d \in Data /\ Knows(f, u, d)
  BY <1>1, <1>2, Handed
<1>5. d # NoData => Knows(f, t, d) /\ Told([run |-> f, kind |-> "fo", pw |-> d.pw])
  BY <1>1, <1>4, CompletedKnows, CompletionIsTold
<1>6. \/ Ends(f, t, NoData) /\ UNCHANGED mails
      \/ d # NoData /\ Sends(f, t, d, "fo", "raise")
      \/ Returns(f, t, d) /\ UNCHANGED mails
  BY DEF TellsShift, Opens, Given, Ends
<1> HIDE DEF d
<1> QED
  BY <1>1, <1>2, <1>3, <1>4, <1>5, <1>6, MailTask

\* The WO gets its comment, or says that it did not.
LEMMA CommentsKeeps ==
  ASSUME IInv, NEW f \in Run, NEW u \in {"fo_mail", "notify"}, Comments(f, u),
         UNCHANGED kind
  PROVE  IInv'
<1> DEFINE t == "wo_comment"
           d == xcom[f][u]
<1>1. /\ u \in Task /\ t \in Task \ Looking /\ t \in Task \ {"handover_mail"}
      /\ u \in AfterCompletion /\ t \in AfterCompletion
  BY DEF Task, AfterCompletion, Looking
<1>2. /\ task[f][t] = "none" /\ task[f][u] = "success"
      /\ UNCHANGED <<row, age, ad, closed, users, mails>>
      /\ noted' \in {TRUE, noted}
  BY DEF Comments, Follows
<1>3. Guard(f, t)
  BY <1>1, <1>2, Led
<1>4. /\ OthersOK' /\ Scripted' /\ applied' = applied /\ written' = written
      /\ closed' = closed
  BY <1>2 DEF IInv, WorldInv, OthersOK, Scripted, ad, row
<1>5. noted => noted'
  BY <1>2 DEF IInv, WorldInv, OthersOK
<1>6. CASE Ends(f, t, NoData)
  BY <1>1, <1>2, <1>3, <1>4, <1>5, <1>6, OutsideTask
<1>7. ASSUME d # NoData, NEW l \in {"created", "failed"}, l = "created" => noted' = TRUE,
             Returns(f, t, [d EXCEPT !.last = l])
      PROVE  IInv'
  <2>1. d \in Data /\ Knows(f, u, d)
    BY <1>1, <1>2, <1>7, Handed
  <2> HIDE DEF d
  <2>2. PICK e \in Data : /\ e = [d EXCEPT !.last = l]
                          /\ e.last = l /\ e.emails = d.emails /\ e.pw = d.pw
    <3>1. l \in {"none", "found", "not found", "created", "updated", "failed",
              "comment remarks", "status remarks"}
      OBVIOUS
    <3>2. /\ [d EXCEPT !.last = l] \in Data
          /\ [d EXCEPT !.last = l].last = l
          /\ [d EXCEPT !.last = l].emails = d.emails /\ [d EXCEPT !.last = l].pw = d.pw
      BY <2>1, <3>1, Labelled
    <3> QED
      BY <3>2, Zenon
  <2>3. Knows(f, t, e)'
    <3>1. /\ e.pw \in applied /\ Completion(f, e.pw) \in written
          /\ e.emails <= Cardinality(Reminded \ {f})
      BY <1>1, <2>1, <2>2 DEF Knows
    <3>2. Reminded' = Reminded
      BY <1>4 DEF Reminded
    <3>3. e.pw \in applied' /\ Completion(f, e.pw) \in written'
      BY <1>4, <3>1
    <3>4. e.emails <= Cardinality(Reminded' \ {f})
      BY <3>1, <3>2
    <3>5. e.last = "created" => noted'
      BY <1>7, <2>2
    <3> QED
      BY <3>3, <3>4, <3>5 DEF Knows, Completion
  <2> QED
    BY <1>1, <1>2, <1>3, <1>4, <1>5, <1>7, <2>2, <2>3, OutsideTask DEF Ends
<1> QED
  BY <1>6, <1>7 DEF Comments, Stops, Breaks, Given, Ends

\* The WO is closed, after its comment, with the password that was recorded.
LEMMA ClosesKeeps ==
  ASSUME IInv, NEW f \in Run, Closes(f), UNCHANGED kind
  PROVE  IInv'
<1> DEFINE t == "wo_status"
           u == "wo_comment"
           d == xcom[f][u]
<1>1. /\ u \in Task /\ t \in Task \ Looking /\ t \in Task \ {"handover_mail"}
      /\ u \in AfterCompletion /\ t \in Plain
  BY DEF Task, AfterCompletion, Looking, Plain, Doing
<1>2. /\ task[f][t] = "none" /\ task[f][u] = "success"
      /\ d # NoData /\ d.last = "created"
      /\ UNCHANGED <<row, age, ad, noted, users, mails>>
      /\ closed' \in {d.pw, closed}
  BY DEF Closes, Branched, Follows, Given
<1>3. Guard(f, t)
  BY <1>1, <1>2, Led
<1>4. d \in Data /\ Knows(f, u, d)
  BY <1>1, <1>2, Handed
<1>5. noted /\ d.pw \in applied /\ Completion(f, d.pw) \in written
      /\ d.pw \in Pw \cup {NoPw}
  BY <1>1, <1>2, <1>4 DEF Knows, Data
<1>7. OthersOK' /\ Scripted' /\ applied' = applied /\ (noted => noted')
  BY <1>2, <1>5 DEF IInv, WorldInv, OthersOK, Scripted, ad
<1>8. closed' # closed => noted /\ \E g \in Run : Completion(g, closed') \in written
  BY <1>2, <1>5
<1>9. CASE Ends(f, t, NoData)
  BY <1>1, <1>2, <1>3, <1>7, <1>8, <1>9, OutsideTask
<1>10. ASSUME NEW l \in {"updated", "failed"}, Returns(f, t, [d EXCEPT !.last = l])
       PROVE  IInv'
  <2> HIDE DEF d
  <2>1. PICK e \in Data : e = [d EXCEPT !.last = l] /\ e.emails = d.emails
    <3>1. l \in {"none", "found", "not found", "created", "updated", "failed",
                 "comment remarks", "status remarks"}
      OBVIOUS
    <3>2. /\ [d EXCEPT !.last = l] \in Data
          /\ [d EXCEPT !.last = l].emails = d.emails
      BY <1>4, <3>1, Labelled
    <3> QED
      BY <3>2, Zenon
  <2>2. e.emails <= Cardinality(Reminded \ {f}) /\ Reminded' = Reminded
    BY <1>2, <1>4, <2>1 DEF Knows, Reminded, row
  <2>3. Knows(f, t, e)'
    BY <2>2 DEF Knows, AfterCompletion
  <2> QED
    BY <1>1, <1>2, <1>3, <1>7, <1>8, <1>10, <2>1, <2>3, OutsideTask DEF Ends
<1> QED
  BY <1>9, <1>10 DEF Closes, Stops, Breaks, Given, Ends

\* The user is put in the list, or not.
LEMMA InsertsUser ==
  ASSUME IInv, NEW f \in Run, NewUserInsertUser(f), UNCHANGED kind
  PROVE  IInv'
<1> DEFINE t == "user_list"
           u == "wo_status"
           d == xcom[f][u]
<1>1. /\ u \in Task /\ t \in Task \ Looking /\ t \in Task \ {"handover_mail"}
      /\ t \in Plain
  BY DEF Task, AfterCompletion, Looking, Plain, Doing
<1>2. /\ task[f][t] = "none" /\ task[f][u] = "success" /\ d # NoData
      /\ UNCHANGED <<row, age, ad, noted, closed, mails>>
      /\ users' \in {TRUE, users}
  BY DEF NewUserInsertUser, Branched, Follows, Given
<1>3. Guard(f, t)
  BY <1>1, <1>2, Led
<1>4. d \in Data /\ Knows(f, u, d)
  BY <1>1, <1>2, Handed
<1>5. OthersOK' /\ Scripted' /\ applied' = applied /\ (noted => noted')
      /\ closed' = closed
  BY <1>2 DEF IInv, WorldInv, OthersOK, Scripted, ad
<1>6. Ends(f, t, d) \/ Ends(f, t, NoData)
  BY DEF NewUserInsertUser, Stops, Breaks, Ends
<1> HIDE DEF d
<1>7. PICK e \in Data : e = d /\ e.emails = d.emails
  BY <1>4
<1>8. e.emails <= Cardinality(Reminded \ {f}) /\ Reminded' = Reminded
  BY <1>2, <1>4, <1>7 DEF Knows, Reminded, row
<1>9. Knows(f, t, e)'
  BY <1>8 DEF Knows, AfterCompletion
<1> QED
  BY <1>1, <1>2, <1>3, <1>5, <1>6, <1>7, <1>9, OutsideTask

-----------------------------------------------------------------------------
(* What failed                                                             *)

\* The row tells of the error, and the remarks that are handed on say so, only
\* after the WO was to be closed, and only if the row was updated.
LEMMA RecordsErrorKeeps ==
  ASSUME IInv, NEW f \in Run, NEW t, NEW u, NEW remarks,
         \/ t = "comment_err_status" /\ u = "wo_comment" /\ remarks = "comment remarks"
         \/ t = "status_err_status" /\ u = "wo_status" /\ remarks = "status remarks",
         RecordsError(f, t, u, remarks), UNCHANGED kind
  PROVE  IInv'
<1> DEFINE d == xcom[f][u]
           s == "Error in ITSM Process"
<1>1. /\ u \in Task /\ t \in Task \ Looking /\ t \in Task \ {"handover_mail"}
      /\ t # "check" /\ "fetch" \in Plain
  BY DEF Task, AfterCompletion, Looking, Plain, Doing
<1>2. /\ task[f][t] = "none" /\ task[f][u] = "success"
      /\ d # NoData /\ d.last = "failed"
      /\ UNCHANGED <<age, ad, itsm, mails, kind>>
  BY DEF RecordsError, Branched, Follows, Given
<1>3. Guard(f, t)
  BY <1>1, <1>2, Led
<1>4. d \in Data /\ Knows(f, u, d)
  BY <1>1, <1>2, Handed
<1>5. s \in Status /\ Allowed([run |-> f, status |-> s, pw |-> NoPw])
  BY StatusHas DEF Allowed
<1>6. \A e : Does(f, t, e, s, NoPw)
  BY DEF Does
<1>7. ASSUME NEW e \in Data, e.emails = d.emails, e.last \in {"failed", remarks}
      PROVE  /\ Knows(f, IF t \in Doing THEN "fetch" ELSE t, e)
             /\ e.last = "failed" => Knows(f, t, e)
  BY <1>4, <1>7 DEF Knows, Doing, AfterCompletion
<1>8. CASE Ends(f, t, NoData) /\ UNCHANGED row
  BY <1>1, <1>2, <1>3, <1>8, GivesUp
<1>9. CASE Ends(f, t, NoData) /\ SetRow(f, s, NoPw, 0)
  BY <1>1, <1>2, <1>3, <1>5, <1>9, RowTask
<1>10. CASE Returns(f, t, d) /\ (SetRow(f, s, NoPw, 0) \/ UNCHANGED row)
  <2> HIDE DEF d, s
  <2>1. Knows(f, IF t \in Doing THEN "fetch" ELSE t, d) /\ Knows(f, t, d)
    BY <1>2, <1>4, <1>7
  <2> QED
    BY <1>1, <1>2, <1>3, <1>4, <1>5, <1>6, <1>10, <2>1, RowTask DEF Ends
<1>11. CASE Returns(f, t, [d EXCEPT !.last = remarks]) /\ SetRow(f, s, NoPw, 0)
  <2> HIDE DEF d, s
  <2>1. PICK e \in Data : /\ e = [d EXCEPT !.last = remarks]
                          /\ e.emails = d.emails /\ e.last = remarks
    <3>1. remarks \in {"none", "found", "not found", "created", "updated", "failed",
                       "comment remarks", "status remarks"}
      OBVIOUS
    <3>2. /\ [d EXCEPT !.last = remarks] \in Data
          /\ [d EXCEPT !.last = remarks].emails = d.emails
          /\ [d EXCEPT !.last = remarks].last = remarks
      BY <1>4, <3>1, Labelled
    <3> QED
      BY <3>2, Zenon
  <2>2. Knows(f, IF t \in Doing THEN "fetch" ELSE t, e)
    BY <1>7, <2>1
  <2> QED
    BY <1>1, <1>2, <1>3, <1>5, <1>6, <1>11, <2>1, <2>2, RowTask DEF Ends
<1> QED
  BY <1>8, <1>9, <1>10, <1>11 DEF RecordsError, Stops, Ends

\* The mail about the error needs the remarks of the closing, so that it is
\* sent only after the row has the error; for a modified account it is sent
\* without them, too.
LEMMA TellsErrorKeeps ==
  ASSUME IInv, NEW f \in Run, NEW t, NEW u, NEW wanted,
         \/ t = "comment_err_mail" /\ u = "comment_err_status"
              /\ wanted = {"status remarks"}
         \/ t = "status_err_mail" /\ u = "status_err_status"
              /\ (kind = "modify" \/ wanted = {"status remarks"}),
         TellsError(f, t, u, wanted), UNCHANGED kind
  PROVE  IInv'
<1> DEFINE d == xcom[f][u]
<1>1. /\ u \in Task /\ t \in Task \ Looking /\ t \in Task \ {"handover_mail"}
      /\ t \in Plain /\ t # "handover_mail" /\ "itsm" \in MailKind
  BY MailKindHas DEF Task, AfterCompletion, Looking, Plain, Doing
<1>2. /\ task[f][t] = "none" /\ task[f][u] = "success"
      /\ UNCHANGED <<row, age, ad, itsm, kind>>
  BY DEF TellsError, Follows
<1>3. Guard(f, t)
  BY <1>1, <1>2, Led
<1>4. /\ d \in Data \cup {NoData}
      /\ d # NoData => d \in Data /\ Knows(f, u, d) /\ Knows(f, t, d)
  BY <1>1, <1>2, Handed, PlainKnows
<1>5. CASE Ends(f, t, NoData) /\ UNCHANGED mails
  <2>1. NoData \in Data \cup {NoData}
    OBVIOUS
  <2> QED
    BY <1>1, <1>2, <1>3, <1>5, <2>1, GivesUp
<1>6. CASE d # NoData /\ d.last \in wanted /\ Sends(f, t, d, "itsm", "raise")
  <2>1. Told([run |-> f, kind |-> "itsm", pw |-> d.pw])
    <3>1. CASE kind = "modify"
      BY <3>1 DEF Told
    <3>2. CASE kind # "modify"
      <4>1. Wrote(f, {"Error in ITSM Process"})
        BY <1>4, <1>6, <3>2 DEF Knows
      <4>2. Verdict["itsm"] = {"Error in ITSM Process"}
        BY DEF Verdict
      <4> QED
        BY <4>1, <4>2 DEF Told, Wrote
    <3> QED
      BY <3>1, <3>2
  <2> HIDE DEF d
  <2> QED
    BY <1>1, <1>2, <1>3, <1>4, <1>6, <2>1, MailTask
<1> QED
  BY <1>5, <1>6 DEF TellsError, Opens, Given, Ends

\* The requester is told that the script did not finish.
LEMMA TellsAdErrorKeeps ==
  ASSUME IInv, NEW f \in Run, TellsAdError(f), UNCHANGED kind
  PROVE  IInv'
<1> DEFINE t == "ad_mail"
           u == "ad_process"
<1>1. /\ u \in Task /\ t \in Task \ Looking /\ t \in Task \ {"handover_mail"}
      /\ t \in Plain /\ t # "handover_mail" /\ "ad_error" \in MailKind
  BY MailKindHas DEF Task, AfterCompletion, Looking, Plain, Doing
<1>2. Follows(f, t, u) /\ UNCHANGED <<row, age, ad, itsm, kind>>
  BY DEF TellsAdError, Branched
<1>3. CASE MailsOn(f, t, u, "ad_error", FALSE)
  <2>1. "ad_error" \notin DOMAIN Verdict
    BY DEF Verdict
  <2>2. \A p : Told([run |-> f, kind |-> "ad_error", pw |-> p])
    BY <2>1 DEF Told
  <2> QED
    BY <1>1, <1>2, <1>3, <2>2, MailsOnKeeps
<1>4. CASE Raises(f, t, NoData) /\ UNCHANGED mails
  <2>1. task[f][t] = "none" /\ task[f][u] = "success"
    BY <1>2 DEF Follows
  <2>2. Guard(f, t)
    BY <1>1, <2>1, Led
  <2> QED
    BY <1>1, <1>2, <1>4, <2>1, <2>2, GivesUp DEF Ends
<1> QED
  BY <1>3, <1>4 DEF TellsAdError, Mails

\* Then the row is updated.
LEMMA RecordsAdErrorKeeps ==
  ASSUME IInv, NEW f \in Run, RecordsAdError(f), UNCHANGED kind
  PROVE  IInv'
<1> DEFINE t == "ad_status"
           u == "ad_mail"
           d == xcom[f][u]
           s == "Error in AD Process"
<1>1. /\ u \in Task /\ t \in Task \ Looking /\ t \in Task \ {"handover_mail"}
      /\ t \in Plain /\ t \notin Doing
  BY DEF Task, AfterCompletion, Looking, Plain, Doing
<1>2. /\ task[f][t] = "none" /\ task[f][u] = "success"
      /\ UNCHANGED <<age, ad, itsm, mails, kind>>
  BY DEF RecordsAdError, Follows
<1>3. Guard(f, t)
  BY <1>1, <1>2, Led
<1>4. CASE Ends(f, t, NoData) /\ UNCHANGED row
  BY <1>1, <1>2, <1>3, <1>4, GivesUp
<1>5. CASE d # NoData /\ Updates(f, t, s, NoPw, 0, d, d, "return")
  <2>1. d \in Data /\ Knows(f, t, d)
    BY <1>1, <1>2, <1>5, Handed, PlainKnows
  <2>2. s \in Status /\ Allowed([run |-> f, status |-> s, pw |-> NoPw])
        /\ Does(f, t, d, s, NoPw)
    BY StatusHas DEF Allowed, Does
  <2> HIDE DEF d, s
  <2> QED
    BY <1>1, <1>2, <1>3, <1>5, <2>1, <2>2, UpdateTask
<1> QED
  BY <1>4, <1>5 DEF RecordsAdError, Stops, Given, Ends

\* The row tells that the password could not be decoded.
LEMMA RecordsGarbledKeeps ==
  ASSUME IInv, NEW f \in Run, NEW s \in {"Error in Process", "Error in Decryption"},
         RecordsGarbled(f, s), UNCHANGED kind
  PROVE  IInv'
<1> DEFINE t == "decrypt_status"
           u == "ad_process"
           d == xcom[f][u]
<1>1. /\ u \in Task /\ t \in Task \ Looking /\ t \in Task \ {"handover_mail"}
      /\ t \in Doing /\ "fetch" \in Plain
  BY DEF Task, AfterCompletion, Looking, Plain, Doing
<1>2. /\ task[f][t] = "none" /\ task[f][u] = "success" /\ d # NoData
      /\ UNCHANGED <<age, ad, itsm, mails, kind>>
  BY DEF RecordsGarbled, Branched, Follows, Given
<1>3. Guard(f, t)
  BY <1>1, <1>2, Led
<1>4. d \in Data /\ Knows(f, "fetch", d)
  BY <1>1, <1>2, Handed, PlainKnows
<1>5. d.pw \in Pw \cup {NoPw}
  BY <1>4 DEF Data
<1>6. CASE Ends(f, t, NoData) /\ UNCHANGED row
  BY <1>1, <1>2, <1>3, <1>6, GivesUp
<1>7. CASE Updates(f, t, s, d.pw, 0, d, d, "raise")
  <2>1. s \in Status /\ s \in Verdict["garbled"]
    BY StatusHas DEF Verdict
  <2>2. Allowed([run |-> f, status |-> s, pw |-> d.pw]) /\ Does(f, t, d, s, d.pw)
    BY <2>1 DEF Allowed, Does
  <2> HIDE DEF d
  <2> QED
    BY <1>1, <1>2, <1>3, <1>4, <1>5, <1>7, <2>1, <2>2, UpdateTask
<1> QED
  BY <1>6, <1>7 DEF RecordsGarbled, Needs, Ends

\* Then somebody is told.
LEMMA TellsGarbledKeeps ==
  ASSUME IInv, NEW f \in Run, TellsGarbled(f), UNCHANGED kind
  PROVE  IInv'
<1> DEFINE t == "decrypt_mail"
           u == "decrypt_status"
           d == xcom[f][u]
<1>1. /\ u \in Task /\ t \in Task \ Looking /\ t \in Task \ {"handover_mail"}
      /\ t \in Plain /\ t # "handover_mail" /\ "garbled" \in MailKind
  BY MailKindHas DEF Task, AfterCompletion, Looking, Plain, Doing
<1>2. /\ task[f][t] = "none" /\ task[f][u] = "success"
      /\ UNCHANGED <<row, age, ad, itsm, kind>>
  BY DEF TellsGarbled, Follows
<1>3. Guard(f, t)
  BY <1>1, <1>2, Led
<1>4. CASE Ends(f, t, NoData) /\ UNCHANGED mails
  BY <1>1, <1>2, <1>3, <1>4, GivesUp
<1>5. CASE d # NoData /\ Sends(f, t, d, "garbled", "raise")
  <2>1. d \in Data /\ Knows(f, u, d) /\ Knows(f, t, d)
    BY <1>1, <1>2, <1>5, Handed, PlainKnows
  <2>2. Told([run |-> f, kind |-> "garbled", pw |-> d.pw])
    <3>1. Wrote(f, Verdict["garbled"])
      BY <2>1 DEF Knows
    <3> QED
      BY <3>1 DEF Told, Wrote
  <2> HIDE DEF d
  <2> QED
    BY <1>1, <1>2, <1>3, <1>5, <2>1, <2>2, MailTask
<1> QED
  BY <1>4, <1>5 DEF TellsGarbled, Needs, Given, Ends

-----------------------------------------------------------------------------
(* Every step                                                              *)

\* A request for another password.
LEMMA ResetKeeps ==
  ASSUME IInv, NEW f \in Run, kind = "reset", ResetStep(f), UNCHANGED kind
  PROVE  IInv'
<1>1. kind \in AdKind
  BY DEF AdKind
<1>2. CASE Approved(f)
  BY <1>2, ApprovedKeeps
<1>3. CASE ResetFetchActivity(f)
  BY <1>3, FetchesKeeps DEF ResetFetchActivity
<1>4. CASE ResetAdProcess(f)
  BY <1>1, <1>4, RunsScriptKeeps DEF ResetAdProcess
<1>5. CASE ResetRsUpdate(f)
  BY <1>1, <1>5, CompletesKeeps DEF ResetRsUpdate
<1>6. CASE ResetCheckShift(f)
  BY <1>6, LooksUpShiftKeeps DEF ResetCheckShift
<1>7. CASE ResetFoMail(f)
  BY <1>7, TellsShiftKeeps DEF ResetFoMail
<1>8. CASE ResetWoComment(f)
  BY <1>8, CommentsKeeps DEF ResetWoComment
<1>9. CASE ResetWoStatus(f)
  BY <1>1, <1>9, ClosesKeeps DEF ResetWoStatus
<1>10. CASE ResetWoCommentErrStatus(f) \/ ResetWoStatusErrStatus(f)
  BY <1>10, RecordsErrorKeeps DEF ResetWoCommentErrStatus, ResetWoStatusErrStatus
<1>11. CASE ResetWoCommentErrMail(f) \/ ResetWoStatusErrMail(f)
  BY <1>11, TellsErrorKeeps DEF ResetWoCommentErrMail, ResetWoStatusErrMail
<1>12. CASE ResetNonFinishedMail(f)
  BY <1>12, TellsAdErrorKeeps DEF ResetNonFinishedMail
<1>13. CASE ResetNonFinishedStatus(f)
  BY <1>13, RecordsAdErrorKeeps DEF ResetNonFinishedStatus
<1>14. CASE ResetDecryptionFailedStatus(f)
  BY <1>14, RecordsGarbledKeeps DEF ResetDecryptionFailedStatus
<1>15. CASE ResetDecryptionFailedMail(f)
  BY <1>15, TellsGarbledKeeps DEF ResetDecryptionFailedMail
<1> QED
  BY <1>2, <1>3, <1>4, <1>5, <1>6, <1>7, <1>8, <1>9, <1>10, <1>11, <1>12, <1>13,
     <1>14, <1>15 DEF ResetStep

\* A request for the account of a new user.
LEMMA NewUserKeeps ==
  ASSUME IInv, NEW f \in Run, kind = "new user", NewUserStep(f), UNCHANGED kind
  PROVE  IInv'
<1>1. kind \in AdKind
  BY DEF AdKind
<1>2. CASE Approved(f)
  BY <1>2, ApprovedKeeps
<1>3. CASE NewUserCreateAdid(f) \/ NewUserFetchActivity(f)
  BY <1>3, FetchesKeeps DEF NewUserCreateAdid, NewUserFetchActivity
<1>4. CASE NewUserAdProcess(f)
  BY <1>1, <1>4, RunsScriptKeeps DEF NewUserAdProcess
<1>5. CASE NewUserRsUpdate(f)
  BY <1>1, <1>5, CompletesKeeps DEF NewUserRsUpdate
<1>6. CASE NewUserNotification(f)
  BY <1>6, TellsKeeps DEF NewUserNotification
<1>7. CASE NewUserCheckShift(f)
  BY <1>7, LooksUpShiftKeeps DEF NewUserCheckShift
<1>8. CASE NewUserFoMail(f)
  BY <1>8, TellsShiftKeeps DEF NewUserFoMail
<1>9. CASE NewUserWoComment(f)
  BY <1>9, CommentsKeeps DEF NewUserWoComment
<1>10. CASE NewUserWoStatus(f)
  BY <1>1, <1>10, ClosesKeeps DEF NewUserWoStatus
<1>11. CASE NewUserInsertUser(f)
  BY <1>11, InsertsUser
<1>12. CASE NewUserWoCommentErrStatus(f) \/ NewUserWoStatusErrStatus(f)
  BY <1>12, RecordsErrorKeeps DEF NewUserWoCommentErrStatus, NewUserWoStatusErrStatus
<1>13. CASE NewUserWoCommentErrMail(f) \/ NewUserWoStatusErrMail(f)
  BY <1>13, TellsErrorKeeps DEF NewUserWoCommentErrMail, NewUserWoStatusErrMail
<1>14. CASE NewUserNonFinishedMail(f)
  BY <1>14, TellsAdErrorKeeps DEF NewUserNonFinishedMail
<1>15. CASE NewUserNonFinishedStatus(f)
  BY <1>15, RecordsAdErrorKeeps DEF NewUserNonFinishedStatus
<1>16. CASE NewUserDecryptionFailedStatus(f)
  BY <1>16, RecordsGarbledKeeps DEF NewUserDecryptionFailedStatus
<1>17. CASE NewUserDecryptionFailedMail(f)
  BY <1>17, TellsGarbledKeeps DEF NewUserDecryptionFailedMail
<1> QED
  BY <1>2, <1>3, <1>4, <1>5, <1>6, <1>7, <1>8, <1>9, <1>10, <1>11, <1>12, <1>13,
     <1>14, <1>15, <1>16, <1>17 DEF NewUserStep

\* A request for a new service account.
LEMMA NewServiceKeeps ==
  ASSUME IInv, NEW f \in Run, kind = "new service", NewServiceStep(f), UNCHANGED kind
  PROVE  IInv'
<1>1. kind \in AdKind
  BY DEF AdKind
<1>2. CASE Approved(f)
  BY <1>2, ApprovedKeeps
<1>3. CASE NewServiceFetchActivity(f)
  BY <1>3, FetchesKeeps DEF NewServiceFetchActivity
<1>4. CASE NewServiceAdProcess(f)
  BY <1>1, <1>4, RunsScriptKeeps DEF NewServiceAdProcess
<1>5. CASE NewServiceRsUpdate(f)
  BY <1>1, <1>5, CompletesKeeps DEF NewServiceRsUpdate
<1>6. CASE NewServiceNotification(f)
  BY <1>6, TellsKeeps DEF NewServiceNotification
<1>7. CASE NewServiceCheckShift(f)
  BY <1>7, LooksUpShiftKeeps DEF NewServiceCheckShift
<1>8. CASE NewServiceFoMail(f)
  BY <1>8, TellsShiftKeeps DEF NewServiceFoMail
<1>9. CASE NewServiceWoComment(f)
  BY <1>9, CommentsKeeps DEF NewServiceWoComment
<1>10. CASE NewServiceWoStatus(f)
  BY <1>1, <1>10, ClosesKeeps DEF NewServiceWoStatus
<1>11. CASE NewServiceWoCommentErrStatus(f) \/ NewServiceWoStatusErrStatus(f)
  BY <1>11, RecordsErrorKeeps
     DEF NewServiceWoCommentErrStatus, NewServiceWoStatusErrStatus
<1>12. CASE NewServiceWoCommentErrMail(f) \/ NewServiceWoStatusErrMail(f)
  BY <1>12, TellsErrorKeeps DEF NewServiceWoCommentErrMail, NewServiceWoStatusErrMail
<1>13. CASE NewServiceNonFinishedMail(f)
  BY <1>13, TellsAdErrorKeeps DEF NewServiceNonFinishedMail
<1>14. CASE NewServiceNonFinishedStatus(f)
  BY <1>14, RecordsAdErrorKeeps DEF NewServiceNonFinishedStatus
<1>15. CASE NewServiceDecryptionFailedStatus(f)
  BY <1>15, RecordsGarbledKeeps DEF NewServiceDecryptionFailedStatus
<1>16. CASE NewServiceDecryptionFailedMail(f)
  BY <1>16, TellsGarbledKeeps DEF NewServiceDecryptionFailedMail
<1> QED
  BY <1>2, <1>3, <1>4, <1>5, <1>6, <1>7, <1>8, <1>9, <1>10, <1>11, <1>12, <1>13,
     <1>14, <1>15, <1>16 DEF NewServiceStep

\* A request to modify an account.
LEMMA ModifyKeeps ==
  ASSUME IInv, NEW f \in Run, kind = "modify", ModifyStep(f), UNCHANGED kind
  PROVE  IInv'
<1>1. kind \in AdKind
  BY DEF AdKind
<1>2. CASE Approved(f)
  BY <1>2, ApprovedKeeps
<1>3. CASE ModifyFetchActivity(f)
  BY <1>3, FetchesKeeps DEF ModifyFetchActivity
<1>4. CASE ModifyAdProcess(f)
  BY <1>1, <1>4, RunsScriptKeeps DEF ModifyAdProcess
<1>5. CASE ModifyRsUpdate(f)
  BY <1>1, <1>5, CompletesKeeps DEF ModifyRsUpdate
<1>6. CASE ModifyNotification(f)
  BY <1>6, TellsKeeps DEF ModifyNotification
<1>7. CASE ModifyWoComment(f)
  BY <1>7, CommentsKeeps DEF ModifyWoComment
<1>8. CASE ModifyWoStatus(f)
  BY <1>1, <1>8, ClosesKeeps DEF ModifyWoStatus
<1>9. CASE ModifyWoCommentErrStatus(f) \/ ModifyWoStatusErrStatus(f)
  BY <1>9, RecordsErrorKeeps DEF ModifyWoCommentErrStatus, ModifyWoStatusErrStatus
<1>10. CASE ModifyWoCommentErrMail(f) \/ ModifyWoStatusErrMail(f)
  BY <1>10, TellsErrorKeeps DEF ModifyWoCommentErrMail, ModifyWoStatusErrMail
<1>11. CASE ModifyNonFinishedMail(f)
  BY <1>11, TellsAdErrorKeeps DEF ModifyNonFinishedMail
<1>12. CASE ModifyNonFinishedStatus(f)
  BY <1>12, RecordsAdErrorKeeps DEF ModifyNonFinishedStatus
<1> QED
  BY <1>2, <1>3, <1>4, <1>5, <1>6, <1>7, <1>8, <1>9, <1>10, <1>11, <1>12 DEF ModifyStep

\* A run that is started looks at the row first.
LEMMA StartsKeeps ==
  ASSUME IInv, NEW f \in Run, Starts(f), UNCHANGED kind
  PROVE  IInv'
<1>1. PICK a \in age .. 3 \cup {3} : Check(f, a)
  BY DEF Starts
<1>2. a \in Age
  BY DEF Age, IInv, WorldInv, OthersOK
<1> QED
  BY <1>1, <1>2, CheckKeeps

\* Every step keeps the invariant.
LEMMA StepKeeps ==
  ASSUME IInv, wo \in Answer, NEW f \in Run, Step(f)
  PROVE  IInv' /\ wo' \in Answer
<1>1. UNCHANGED kind
  BY DEF Step
<1>2. CASE Starts(f)
  <2>1. wo' \in Answer
    BY <1>2 DEF Starts, Answers, Answer
  <2> QED
    BY <1>1, <1>2, <2>1, StartsKeeps
<1>3. CASE UNCHANGED wo /\ kind = "awaiting" /\ AwaitingStep(f)
  BY <1>1, <1>3, AwaitingKeeps
<1>4. CASE UNCHANGED wo /\ kind \in AdKind /\ FlowStep(f)
  <2>1. CASE CheckWo(f, wo)
    BY <1>1, <1>4, <2>1, CheckWoKeeps
  <2>2. CASE WoFailStatus(f) \/ WoFailMail(f)
    BY <1>1, <1>4, <2>2, WoFailKeeps
  <2>3. CASE WaitingStep(f)
    BY <1>1, <1>4, <2>3, WaitingKeeps
  <2>4. CASE RejectedStep(f)
    BY <1>1, <1>4, <2>4, RejectedKeeps
  <2>5. CASE kind = "reset" /\ ResetStep(f)
    BY <1>1, <1>4, <2>5, ResetKeeps
  <2>6. CASE kind = "new user" /\ NewUserStep(f)
    BY <1>1, <1>4, <2>6, NewUserKeeps
  <2>7. CASE kind = "new service" /\ NewServiceStep(f)
    BY <1>1, <1>4, <2>7, NewServiceKeeps
  <2>8. CASE kind = "modify" /\ ModifyStep(f)
    BY <1>1, <1>4, <2>8, ModifyKeeps
  <2> QED
    BY <1>4, <2>1, <2>2, <2>3, <2>4, <2>5, <2>6, <2>7, <2>8 DEF FlowStep
<1> QED
  BY <1>2, <1>3, <1>4 DEF Step

\* So does a step that changes nothing.
LEMMA StutterKeeps ==
  ASSUME IInv, UNCHANGED <<vars, kind>>
  PROVE  IInv'
<1>1. UNCHANGED <<row, age, ad, itsm, mails, kind, task, tries, xcom>>
  BY DEF vars, flow
<1>2. OthersOK' /\ Scripted'
  BY <1>1 DEF IInv, WorldInv, OthersOK, Scripted, ad, itsm
<1>3. UNCHANGED <<written, applied, noted, closed, mails>>
  BY <1>1 DEF row, ad, itsm
<1>4. WorldInv'
  BY <1>1, <1>2, <1>3, RestChanges DEF IInv
<1>5. \A g \in Run, u \in Task : Guard(g, u) => Guard(g, u)'
  BY <1>1 DEF Guard
<1>6. \A g \in Run, u \in Task :
        Knows(g, u, xcom[g][u]) => Knows(g, u, xcom[g][u])'
  <2>1. Reminded' = Reminded
    BY <1>3 DEF Reminded
  <2>2. \A g : ToldHandover(g) = ToldHandover(g)'
    BY <1>3 DEF ToldHandover
  <2>3. \A g, s : Wrote(g, s) => Wrote(g, s)'
    BY <1>3 DEF Wrote
  <2> SUFFICES ASSUME NEW g \in Run, NEW u \in Task, Knows(g, u, xcom[g][u])
               PROVE  Knows(g, u, xcom[g][u])'
    OBVIOUS
  <2>4. xcom'[g][u] = xcom[g][u]
    BY <1>1
  <2> QED
    BY <1>1, <1>3, <2>1, <2>2, <2>3, <2>4 DEF Knows, Completion
<1>7. FlowOK' /\ Bounded' /\ Looked' /\ LookedFirst'
  BY <1>1, <1>3 DEF IInv, FlowInv, FlowOK, Bounded, Looked, LookedFirst
<1>8. Guarded' /\ Known'
  BY <1>1, <1>5, <1>6 DEF IInv, FlowInv, Guarded, Known
<1> QED
  BY <1>1, <1>4, <1>7, <1>8 DEF IInv, FlowInv

\* Before the first run there is nothing to know.
LEMMA InitKeeps ==
  ASSUME FlowsInit
  PROVE  IInv
<1>1. FlowOK /\ Bounded
  <2>1. 0 \in 0 .. MaxTries /\ 0 < MaxTries
    BY TriesAssumption
  <2>2. /\ task = [f \in Run |-> [t \in Task |-> "none"]]
        /\ tries = [f \in Run |-> [t \in Task |-> 0]]
        /\ xcom = [f \in Run |-> [t \in Task |-> NoData]]
    BY DEF FlowsInit, Init
  <2>3. task \in [Run -> [Task -> {"none", "success", "failed"}]]
    BY <2>2
  <2>4. tries \in [Run -> [Task -> 0 .. MaxTries]]
    BY <2>1, <2>2
  <2>5. xcom \in [Run -> [Task -> Data \cup {NoData}]]
    BY <2>2
  <2>6. Bounded
    BY <2>1, <2>2 DEF Bounded
  <2> QED
    BY <2>3, <2>4, <2>5, <2>6 DEF FlowOK
<1>2. Looked /\ Guarded /\ Known
  BY DEF FlowsInit, Init, Looked, Looking, Task, Guarded, Known
<1>3. /\ written = {} /\ mails = {} /\ applied = {} /\ output = NoPw /\ closed = NoPw
      /\ emails = 0 /\ status = "SR Submitted" /\ age = 0
      /\ noted = FALSE /\ users = FALSE /\ kind \in RequestKind
  BY KindsAssumption DEF FlowsInit, Init
<1>4. LookedFirst /\ RowOK /\ Scripted
  BY <1>3 DEF LookedFirst, RowOK, Status, Scripted
<1>5. OthersOK
  <2>1. noted \in BOOLEAN /\ users \in BOOLEAN
    BY <1>3
  <2>2. /\ age \in Age /\ applied \subseteq Pw /\ closed \in Pw \cup {NoPw}
        /\ mails \subseteq [run : Run, kind : MailKind, pw : Pw \cup {NoPw}]
    <3>1. age = 0 /\ applied = {} /\ closed = NoPw /\ mails = {}
      BY <1>3
    <3>2. age \in Age
      BY <3>1 DEF Age
    <3> QED
      BY <3>1, <3>2
  <2> QED
    BY <2>1, <2>2 DEF OthersOK
<1>6. Counted
  <2>1. Reminded \in SUBSET Run
    BY <1>3 DEF Reminded
  <2>2. Cardinality(Reminded) \in Nat
    BY <2>1, RunsAreFinite
  <2>3. emails = 0
    BY <1>3
  <2>4. emails <= Cardinality(Reminded)
    BY <2>2, <2>3
  <2> QED
    BY <2>4 DEF Counted
<1>7. /\ ToldIsWritten /\ CompletedIsApplied /\ ClosedIsDone
      /\ HandedOverAfterReminders /\ HandoverIsTold
  BY <1>3 DEF ToldIsWritten, CompletedIsApplied, ClosedIsDone,
              HandedOverAfterReminders, HandoverIsTold
<1> QED
  BY <1>1, <1>2, <1>3, <1>4, <1>5, <1>6, <1>7 DEF IInv, FlowInv, WorldInv

\* So it always holds.
LEMMA Invariance == Spec => [](IInv /\ wo \in Answer)
<1>1. FlowsInit => IInv /\ wo \in Answer
  BY InitKeeps DEF FlowsInit, Answer
<1>2. IInv /\ wo \in Answer /\ [Next]_<<vars, kind, wo>> => (IInv /\ wo \in Answer)'
  BY StepKeeps, StutterKeeps DEF Next
<1> QED
  BY <1>1, <1>2, PTL DEF Spec

-----------------------------------------------------------------------------
(* What this means                                                         *)

\* Every variable has its type; the remarks never tell of more reminders than
\* the counter of the model has room for.
THEOREM TypeCorrect == Spec => []TypeOK
<1>1. IInv => TypeOK
  <2> SUFFICES ASSUME IInv
               PROVE  TypeOK
    OBVIOUS
  <2> USE DEF IInv, WorldInv, FlowInv
  <2>1. Reminded \in SUBSET Run
    BY DEF Reminded, RowOK
  <2>2. Cardinality(Reminded) \in Nat /\ Cardinality(Reminded) <= Runs
    BY <2>1, RunsAreFinite
  <2>3. emails \in Nat /\ emails <= Runs
    BY <2>2, RunsAssumption DEF RowOK, Counted
  <2>4. Runs \in Nat /\ MaxTries \in Nat /\ MaxTries >= 1
    BY RunsAssumption, TriesAssumption
  <2>5. Runs <= Runs * MaxTries /\ Runs * MaxTries \in Nat
    BY <2>4
  <2>6. emails \in 0 .. Runs * MaxTries
    BY <2>3, <2>4, <2>5
  <2>7. output \in Pw \cup {NoPw}
    BY DEF OthersOK, Scripted
  <2> QED
    BY <2>6, <2>7 DEF TypeOK, RowOK, OthersOK, FlowOK
<1> QED
  BY <1>1, Invariance, PTL

\* What a run tells of a request and of its password, it has recorded, however
\* its tasks fail and are retried.
THEOREM Written == Spec => []ToldIsWritten
<1>1. IInv => ToldIsWritten
  BY DEF IInv, WorldInv
<1> QED
  BY <1>1, Invariance, PTL

\* A request is completed with what the AD script has done, also when a try of
\* it reads the output file of an earlier one.
THEOREM CompletedApplied == Spec => []CompletedIsApplied
<1>1. IInv => CompletedIsApplied
  BY DEF IInv, WorldInv
<1> QED
  BY <1>1, Invariance, PTL

\* A WO is closed after its comment, with the password that the row was
\* completed with.
THEOREM ClosedDone == Spec => []ClosedIsDone
<1>1. IInv => ClosedIsDone
  BY DEF IInv, WorldInv
<1> QED
  BY <1>1, Invariance, PTL

\* A waiting request is given up only after two runs reminded somebody, of any
\* number of runs that overlap.
THEOREM HandedOver == Spec => []HandedOverAfterReminders
<1>1. IInv => HandedOverAfterReminders
  BY DEF IInv, WorldInv
<1> QED
  BY <1>1, Invariance, PTL

\* A request whose requester does not answer is given up only when the FO was
\* told so by the same run.
THEOREM HandoverTold == Spec => []HandoverIsTold
<1>1. IInv => HandoverIsTold
  BY DEF IInv, WorldInv
<1> QED
  BY <1>1, Invariance, PTL

-----------------------------------------------------------------------------
(* The way of a request, as those see it who look at it from outside       *)

\* What run c has come to, what it saw of the WO, and what the script said.
Passed(c, t) == task[c][t] = "success"
Handing(c, t) == Passed(c, t) /\ xcom[c][t] # NoData
Saw(c, x) == Handing(c, "check_wo") /\ xcom[c]["check_wo"].wo = x
Said(c, a) == Handing(c, "ad_process") /\ xcom[c]["ad_process"].ad = a
Reports(c, t, l) == Handing(c, t) /\ xcom[c][t].last = l

\* What was before task t of it.
Waits == {"fetch_waiting", "approver", "follow_up_mail", "follow_up",
          "handover_mail", "handover"}
Way(c, t) ==
  /\ t = "approved" => Saw(c, "true")
  /\ t \in {"adid", "fetch"} => Passed(c, "approved")
  /\ t = "ad_process" => Passed(c, "fetch")
  /\ t \in AfterCompletion => Said(c, "finished")
  /\ t \in AfterCompletion \ {"rs_update"} => Passed(c, "rs_update")
  /\ t = "wo_status" => Reports(c, "wo_comment", "created")
  /\ t = "ad_mail" => Said(c, "unfinished")
  /\ t \in Waits => Saw(c, "false")
  /\ t = "cancel_mail" => Saw(c, "cancel")
  /\ t = "cancel_status" => Saw(c, "cancel")

\* What follows the completion hands on what the script has done.
SameWork(c, t, d) == t \in AfterCompletion => d.pw = xcom[c]["ad_process"].pw

OnWay(c) ==
  \A t \in Task :
    /\ task[c][t] # "none" => Way(c, t)
    /\ Handing(c, t) => SameWork(c, t, xcom[c][t])

\* What has happened when the row says s.
Stands(c, s) ==
  /\ s \in Status
  /\ s = "SR Approved" => Saw(c, "true")
  /\ s = "SR approval Rejected." => Saw(c, "cancel")
  /\ s \in {"Error in Process", "Error in Decryption"} => Said(c, "garbled")
  /\ s = "Error in Decryption" => kind = "reset"
  /\ s = "Error in Process" => kind # "reset"
  /\ s = "Error in AD Process" => Said(c, "unfinished")
  /\ s = "Error in ITSM Process" =>
       \/ Saw(c, "errored")
       \/ /\ Passed(c, "rs_update")
          /\ Reports(c, "wo_comment", "failed") \/ Reports(c, "wo_status", "failed")

\* What all the runs have made of the request.
Outcome ==
  /\ applied # {} => wo = "true"
  /\ Recorded # {} => status \in {"Completed", "Error in ITSM Process"}
  /\ \A p, q \in Recorded : p = q
  /\ closed # NoPw => Recorded = {closed}

\* The part of run c in it, as long as no run comes after it.
SawRight(c) ==
  /\ Saw(c, "true") => wo = "true"
  /\ Saw(c, "false") \/ Saw(c, "cancel") => applied = {}

DoneSoFar(c) ==
  /\ Outcome
  /\ SawRight(c)
  /\ Recorded # {} => /\ Said(c, "finished")
                      /\ Recorded = {xcom[c]["ad_process"].pw}
  /\ status = "Completed" => Recorded # {} \/ Saw(c, "false")

Life(c) == OnWay(c) /\ Stands(c, status) /\ DoneSoFar(c)

\* For a request that waits for its requester nothing is ever done.
NothingDone ==
  /\ applied = {} /\ closed = NoPw /\ Recorded = {}
  /\ status \in {"SR Submitted", "Completed"}

\* The run that was started last.
Latest(c) == Started(c) /\ \A g \in Run : g > c => ~Started(g)

LifeInv ==
  /\ kind \in AdKind => Outcome /\ \A c \in Run : Latest(c) => Life(c)
  /\ kind = "awaiting" => NothingDone

\* A step of that run, by which it stays the last.
Works(c) == /\ IInv /\ IInv' /\ Life(c)
            /\ kind \in AdKind /\ UNCHANGED <<kind, wo>>

Seen == <<kind, status, applied, Recorded, closed>>
SameRuns == \A g \in Run : Started(g)' = Started(g)
Goes(c) == Life(c)' /\ SameRuns /\ (Lifecycle!Next \/ UNCHANGED Seen)

\* A task that was passed stays so, with what it handed on; a task that is
\* tried hands on only what it returned.
LEMMA PassedStays ==
  ASSUME FlowOK, NEW c \in Run, NEW t \in Task, task[c][t] = "none", NEW d, Ends(c, t, d)
  PROVE  /\ \A u \in Task : Passed(c, u) => Passed(c, u)' /\ xcom'[c][u] = xcom[c][u]
         /\ \A u \in Task \ {t} : task'[c][u] = task[c][u] /\ xcom'[c][u] = xcom[c][u]
         /\ Passed(c, t)' => xcom'[c][t] = d
         /\ t # "check" => SameRuns
<1> USE DEF FlowOK, Passed, SameRuns, Started
<1> "check" \in Task
  BY DEF Task
<1>1. CASE Returns(c, t, d)
  BY <1>1 DEF Returns
<1>2. CASE Raises(c, t, d)
  <2>1. /\ \A g \in Run, u \in Task \ {t} : task'[g][u] = task[g][u] /\ xcom'[g][u] = xcom[g][u]
        /\ \A g \in Run \ {c}, u \in Task : task'[g][u] = task[g][u] /\ xcom'[g][u] = xcom[g][u]
        /\ ~Passed(c, t) /\ ~Passed(c, t)'
    BY <1>2 DEF Raises
  <2> QED
    BY <2>1
<1> QED
  BY <1>1, <1>2 DEF Ends

\* The tasks that the invariant speaks of.
LEMMA TaskHas ==
  AfterCompletion \cup Waits \cup
    {"check", "check_wo", "approved", "adid", "fetch", "ad_process", "wo_status",
     "ad_mail", "cancel_status"} \subseteq Task
BY DEF AfterCompletion, Waits, Task

\* What a run saw of the WO stays what it saw, and is what there was to see.
LEMMA SawStays ==
  ASSUME FlowOK, NEW c \in Run, NEW t \in Task, task[c][t] = "none", NEW d, Ends(c, t, d),
         t = "check_wo" /\ d # NoData => d.wo \in {wo, "errored"}
  PROVE  \A x : Saw(c, x)' => Saw(c, x) \/ x \in {wo, "errored"}
<1>1. /\ \A u \in Task \ {t} : task'[c][u] = task[c][u] /\ xcom'[c][u] = xcom[c][u]
      /\ Passed(c, t)' => xcom'[c][t] = d
  BY PassedStays
<1>2. CASE t # "check_wo"
  BY <1>1, <1>2, TaskHas DEF Saw, Handing, Passed
<1>3. CASE t = "check_wo"
  BY <1>1, <1>3 DEF Saw, Handing
<1> QED
  BY <1>2, <1>3

\* So what is said of them stays true.
LEMMA WayStays ==
  ASSUME NEW c \in Run,
         \A u \in Task : Passed(c, u) => Passed(c, u)' /\ xcom'[c][u] = xcom[c][u],
         UNCHANGED kind
  PROVE  /\ \A x : Saw(c, x) => Saw(c, x)'
         /\ \A a : Said(c, a) => Said(c, a)'
         /\ \A u \in Task : \A l : Reports(c, u, l) => Reports(c, u, l)'
         /\ \A u : Way(c, u) => Way(c, u)'
         /\ \A s : Stands(c, s) => Stands(c, s)'
<1>1. \A u \in Task : Handing(c, u) => Handing(c, u)' /\ xcom'[c][u] = xcom[c][u]
  BY DEF Handing
<1>2. \A x : Saw(c, x) => Saw(c, x)'
  BY <1>1, TaskHas DEF Saw
<1>3. \A a : Said(c, a) => Said(c, a)'
  BY <1>1, TaskHas DEF Said
<1>4. \A u \in Task : \A l : Reports(c, u, l) => Reports(c, u, l)'
  BY <1>1 DEF Reports
<1>5. "wo_comment" \in Task /\ "wo_status" \in Task /\ "rs_update" \in Task
      /\ "approved" \in Task /\ "fetch" \in Task
  BY DEF Task
<1>6. ASSUME NEW u, Way(c, u)
      PROVE  Way(c, u)'
  BY <1>2, <1>3, <1>4, <1>5, <1>6 DEF Way
<1>7. ASSUME NEW s, Stands(c, s)
      PROVE  Stands(c, s)'
  BY <1>2, <1>3, <1>4, <1>5, <1>7 DEF Stands
<1> QED
  BY <1>2, <1>3, <1>4, <1>6, <1>7

\* A task that came its way, and hands on what was done, keeps to it.
LEMMA OnWayStays ==
  ASSUME FlowOK, NEW c \in Run, OnWay(c),
         NEW t \in Task \ {"check"}, task[c][t] = "none", Way(c, t), NEW d, Ends(c, t, d),
         d # NoData => SameWork(c, t, d), UNCHANGED kind
  PROVE  /\ OnWay(c)' /\ SameRuns
         /\ \A u \in Task : Passed(c, u) => Passed(c, u)' /\ xcom'[c][u] = xcom[c][u]
<1>1. /\ \A u \in Task : Passed(c, u) => Passed(c, u)' /\ xcom'[c][u] = xcom[c][u]
      /\ \A u \in Task \ {t} : task'[c][u] = task[c][u] /\ xcom'[c][u] = xcom[c][u]
      /\ Passed(c, t)' => xcom'[c][t] = d
      /\ SameRuns
  BY PassedStays
<1>2. \A u : Way(c, u) => Way(c, u)'
  BY <1>1, WayStays
<1>3. ASSUME NEW u, NEW e, Way(c, u), SameWork(c, u, e)
      PROVE  SameWork(c, u, e)'
  <2>1. u \in AfterCompletion => Passed(c, "ad_process")
    BY <1>3 DEF Way, Said, Handing
  <2>2. u \in AfterCompletion => xcom'[c]["ad_process"] = xcom[c]["ad_process"]
    BY <1>1, <2>1, TaskHas
  <2> QED
    BY <1>3, <2>2 DEF SameWork
<1>4. ASSUME NEW u \in Task, task'[c][u] # "none"
      PROVE  Way(c, u)'
  BY <1>1, <1>2, <1>4 DEF OnWay
<1>5. ASSUME NEW u \in Task, Handing(c, u)'
      PROVE  SameWork(c, u, xcom[c][u])'
  <2>1. PICK e : e = xcom'[c][u]
    OBVIOUS
  <2>2. CASE u = t
    <3>1. d # NoData /\ e = d
      BY <1>1, <1>5, <2>1, <2>2 DEF Handing
    <3>2. SameWork(c, t, d)'
      BY <1>3, <3>1
    <3> QED
      BY <2>1, <2>2, <3>1, <3>2 DEF SameWork
  <2>3. CASE u # t
    <3>1. Handing(c, u) /\ e = xcom[c][u]
      BY <1>1, <1>5, <2>1, <2>3 DEF Handing, Passed
    <3>2. Way(c, u) /\ SameWork(c, u, e)
      BY <3>1 DEF OnWay, Handing, Passed
    <3>3. SameWork(c, u, e)'
      BY <1>3, <3>2
    <3> QED
      BY <2>1, <3>3 DEF SameWork
  <2> QED
    BY <2>2, <2>3
<1>6. OnWay(c)'
  BY <1>4, <1>5 DEF OnWay
<1> QED
  BY <1>1, <1>6

\* The order of the tasks, as far as the row depends on it.
LEMMA Before ==
  ASSUME NEW c \in Run, OnWay(c)
  PROVE  /\ Passed(c, "approved") => Saw(c, "true")
         /\ Passed(c, "adid") \/ Passed(c, "fetch") => Passed(c, "approved")
         /\ Passed(c, "ad_process") => Passed(c, "fetch")
         /\ \A u \in AfterCompletion : Passed(c, u) => Said(c, "finished")
         /\ \A u \in AfterCompletion : Passed(c, u) => Passed(c, "rs_update")
         /\ Passed(c, "wo_status") => Reports(c, "wo_comment", "created")
         /\ Passed(c, "ad_mail") => Said(c, "unfinished")
         /\ \A u \in Waits : Passed(c, u) => Saw(c, "false")
         /\ Passed(c, "cancel_status") => Saw(c, "cancel")
BY TaskHas DEF OnWay, Way, Passed, AfterCompletion

\* What is handed on after the completion is what the script has done.
LEMMA SameHanded ==
  ASSUME NEW c \in Run, OnWay(c), NEW u \in AfterCompletion, Handing(c, u)
  PROVE  xcom[c][u].pw = xcom[c]["ad_process"].pw
BY TaskHas DEF OnWay, SameWork

\* The parts of what is assumed of a step.
LEMMA AtWork ==
  ASSUME NEW c, Works(c)
  PROVE  /\ IInv /\ FlowOK /\ OnWay(c) /\ Stands(c, status) /\ DoneSoFar(c)
         /\ Outcome /\ SawRight(c)
         /\ kind \in AdKind /\ kind' = kind /\ wo' = wo
BY DEF Works, Life, DoneSoFar, IInv, FlowInv

\* A run that saw what there was to see still has, when nothing more was done.
LEMMA SawRightStays ==
  ASSUME NEW c \in Run, Works(c), NEW t \in Task, task[c][t] = "none", NEW d, Ends(c, t, d),
         t = "check_wo" /\ d # NoData => d.wo \in {wo, "errored"}, applied' = applied
  PROVE  SawRight(c)'
<1>1. FlowOK /\ SawRight(c) /\ Outcome /\ wo' = wo
  BY AtWork
<1>2. \A x : Saw(c, x)' => Saw(c, x) \/ x \in {wo, "errored"}
  BY <1>1, SawStays
<1>3. Saw(c, "true")' => wo' = "true"
  BY <1>1, <1>2 DEF SawRight
<1>4. Saw(c, "false")' \/ Saw(c, "cancel")' => applied' = {}
  <2>1. wo = "true" => ~Saw(c, "false")' \/ Saw(c, "false")
    BY <1>2
  <2>2. wo = "true" => ~Saw(c, "cancel")' \/ Saw(c, "cancel")
    BY <1>2
  <2>3. applied # {} => wo = "true"
    BY <1>1 DEF Outcome
  <2> QED
    BY <1>1, <2>1, <2>2, <2>3 DEF SawRight
<1> QED
  BY <1>3, <1>4 DEF SawRight

\* A task that does nothing that is seen from outside.
LEMMA QuietStep ==
  ASSUME NEW c \in Run, Works(c), NEW t \in Task \ {"check"}, task[c][t] = "none",
         Way(c, t), NEW d, Ends(c, t, d), d # NoData => SameWork(c, t, d),
         t = "check_wo" /\ d # NoData => d.wo \in {wo, "errored"},
         UNCHANGED <<status, applied, closed, Recorded>>
  PROVE  Goes(c)
<1>1. /\ FlowOK /\ OnWay(c) /\ Stands(c, status) /\ DoneSoFar(c) /\ Outcome
      /\ kind \in AdKind /\ kind' = kind /\ wo' = wo
  BY AtWork
<1>2. /\ OnWay(c)' /\ SameRuns
      /\ \A u \in Task : Passed(c, u) => Passed(c, u)' /\ xcom'[c][u] = xcom[c][u]
  BY <1>1, OnWayStays
<1>3. /\ \A a : Said(c, a) => Said(c, a)'
      /\ \A u : Way(c, u) => Way(c, u)'
      /\ \A s : Stands(c, s) => Stands(c, s)'
  BY <1>1, <1>2, WayStays
<1>4. \A x : Saw(c, x) => Saw(c, x)'
  BY <1>1, <1>2, WayStays
<1>5. Stands(c, status)'
  <2>1. PICK s : s = status
    OBVIOUS
  <2>2. Stands(c, s)'
    BY <1>1, <1>3, <2>1
  <2> QED
    BY <2>1, <2>2 DEF Stands
<1>6. DoneSoFar(c)'
  <2>1. Said(c, "finished") => xcom'[c]["ad_process"] = xcom[c]["ad_process"]
    BY <1>2, TaskHas DEF Said, Handing
  <2>2. SawRight(c)'
    BY SawRightStays
  <2>3. Outcome'
    BY <1>1 DEF Outcome
  <2> QED
    BY <1>1, <1>3, <1>4, <2>1, <2>2, <2>3 DEF DoneSoFar
<1>7. UNCHANGED Seen
  BY <1>1 DEF Seen
<1> QED
  BY <1>2, <1>5, <1>6, <1>7 DEF Goes, Life

\* A task that updates the row, but not to complete it with something.
LEMMA RowStep ==
  ASSUME NEW c \in Run, Works(c), NEW t \in Task \ {"check", "check_wo"},
         task[c][t] = "none", Way(c, t), NEW d, Ends(c, t, d),
         d # NoData => SameWork(c, t, d), UNCHANGED <<applied, closed>>,
         NEW s, NEW p, NEW n, SetRow(c, s, p, n), Stands(c, s),
         s = "Completed" => p = NoPw /\ Saw(c, "false"),
         Recorded # {} => s = "Error in ITSM Process"
  PROVE  /\ Life(c)' /\ SameRuns
         /\ status' = s /\ UNCHANGED <<kind, applied, Recorded, closed>>
<1>1. /\ FlowOK /\ OnWay(c) /\ Stands(c, status) /\ DoneSoFar(c) /\ Outcome
      /\ kind \in AdKind /\ kind' = kind /\ wo' = wo
  BY AtWork
<1>2. /\ OnWay(c)' /\ SameRuns
      /\ \A u \in Task : Passed(c, u) => Passed(c, u)' /\ xcom'[c][u] = xcom[c][u]
  BY <1>1, OnWayStays
<1>3. /\ \A a : Said(c, a) => Said(c, a)'
      /\ \A u : Way(c, u) => Way(c, u)'
      /\ Stands(c, s) => Stands(c, s)'
      /\ \A x : Saw(c, x) => Saw(c, x)'
  BY <1>1, <1>2, WayStays
<1>4. Recorded' = Recorded /\ status' = s
  <2>1. PICK w : /\ w.status = s /\ w.pw = p
                 /\ written' = written \cup {w} /\ status' = s
    BY DEF SetRow
  <2>2. {x \in written' : x.status = "Completed" /\ x.pw # NoPw} =
          {x \in written : x.status = "Completed" /\ x.pw # NoPw}
    BY <2>1
  <2> QED
    BY <2>1, <2>2 DEF Recorded
<1>5. Stands(c, status)'
  BY <1>3, <1>4 DEF Stands
<1>6. DoneSoFar(c)'
  <2>1. Said(c, "finished") => xcom'[c]["ad_process"] = xcom[c]["ad_process"]
    BY <1>2, TaskHas DEF Said, Handing
  <2>2. SawRight(c)'
    BY SawRightStays
  <2>3. Outcome'
    BY <1>1, <1>4 DEF Outcome
  <2> QED
    BY <1>1, <1>3, <1>4, <2>1, <2>2, <2>3 DEF DoneSoFar
<1> QED
  BY <1>1, <1>2, <1>4, <1>5, <1>6 DEF Life

\* Tasks before the completion, or on another branch, have only to have come
\* their way.
LEMMA EasyStep ==
  ASSUME NEW c \in Run, Works(c),
         NEW t \in Task \ (AfterCompletion \cup {"check", "check_wo"}),
         task[c][t] = "none", Way(c, t), \E d : Ends(c, t, d), UNCHANGED <<row, ad, closed>>
  PROVE  Goes(c)
<1>1. UNCHANGED <<status, applied, closed, Recorded>>
  BY DEF row, ad, Recorded
<1>2. PICK d : Ends(c, t, d)
  OBVIOUS
<1>3. SameWork(c, t, d)
  BY DEF SameWork
<1> QED
  BY <1>1, <1>2, <1>3, QuietStep

\* The statuses there are.
LEMMA StatusIs ==
  Status = {"SR Submitted", "SR Approved", "Error in AD Process", "Completed",
            "Error in Process", "Error in Decryption", "Error in ITSM Process",
            "SR approval Rejected."}
<1>1. DOMAIN Verdict = {"account", "fo", "garbled", "itsm", "errored", "rejected"}
  BY DEF Verdict
<1>2. UNION {Verdict[k] : k \in DOMAIN Verdict} =
        {"Completed", "Error in Process", "Error in Decryption", "Error in ITSM Process",
         "SR approval Rejected."}
  <2>1. /\ Verdict["account"] = {"Completed"} /\ Verdict["fo"] = {"Completed"}
        /\ Verdict["garbled"] = {"Error in Process", "Error in Decryption"}
        /\ Verdict["itsm"] = {"Error in ITSM Process"}
        /\ Verdict["errored"] = {"Error in ITSM Process"}
        /\ Verdict["rejected"] = {"SR approval Rejected."}
    BY DEF Verdict
  <2>2. \A k : k \in DOMAIN Verdict <=>
             \/ k = "account" \/ k = "fo" \/ k = "garbled" \/ k = "itsm"
             \/ k = "errored" \/ k = "rejected"
    BY <1>1
  <2>3. \A x : x \in UNION {Verdict[k] : k \in DOMAIN Verdict} <=>
             \E k \in DOMAIN Verdict : x \in Verdict[k]
    OBVIOUS
  <2>4. ASSUME NEW x
        PROVE  x \in UNION {Verdict[k] : k \in DOMAIN Verdict} <=>
                 x \in {"Completed", "Error in Process", "Error in Decryption",
                        "Error in ITSM Process", "SR approval Rejected."}
    BY <2>1, <2>2, <2>3
  <2> QED
    BY <2>4
<1> QED
  BY <1>2 DEF Status

\* The script, and the completion, come after the approval.
LEMMA WorkIsApproved ==
  ASSUME NEW c \in Run, OnWay(c)
  PROVE  /\ Passed(c, "ad_process") => Passed(c, "fetch")
         /\ Passed(c, "fetch") => Passed(c, "approved")
         /\ Passed(c, "approved") => Saw(c, "true") /\ ~Saw(c, "errored")
         /\ \A a : Said(c, a) => Passed(c, "ad_process")
         /\ Passed(c, "rs_update") => Said(c, "finished")
         /\ \A l : Reports(c, "wo_comment", l) \/ Reports(c, "wo_status", l) => Passed(c, "rs_update")
<1>1. Saw(c, "true") => ~Saw(c, "errored")
  BY DEF Saw
<1>2. \A a : Said(c, a) => Passed(c, "ad_process")
  BY DEF Said, Handing
<1>3. \A l : /\ Reports(c, "wo_comment", l) => Passed(c, "wo_comment")
             /\ Reports(c, "wo_status", l) => Passed(c, "wo_status")
  BY DEF Reports, Handing
<1>4. "wo_comment" \in AfterCompletion /\ "rs_update" \in AfterCompletion
  BY DEF AfterCompletion
<1> QED
  BY <1>1, <1>2, <1>3, <1>4, Before

\* Where the row stands at the tasks that change something.
LEMMA Stages ==
  ASSUME NEW c \in Run, OnWay(c), Stands(c, status), DoneSoFar(c)
  PROVE  /\ Saw(c, "errored") =>
              status \in {"SR Submitted", "Error in ITSM Process"} /\ Recorded = {}
         /\ Saw(c, "false") =>
              status \in {"SR Submitted", "Completed"} /\ Recorded = {} /\ applied = {}
         /\ Saw(c, "cancel") =>
              /\ status \in {"SR Submitted", "SR approval Rejected."}
              /\ Recorded = {} /\ applied = {}
         /\ Saw(c, "true") /\ ~Passed(c, "approved") =>
              status \in {"SR Submitted", "SR Approved"} /\ Recorded = {}
         /\ Passed(c, "fetch") /\ ~Passed(c, "ad_process") =>
              status \in {"SR Submitted", "SR Approved"} /\ Recorded = {}
         /\ Said(c, "unfinished") =>
              /\ status \in {"SR Submitted", "SR Approved", "Error in AD Process"}
              /\ Recorded = {}
         /\ Said(c, "garbled") =>
              /\ \/ status \in {"SR Submitted", "SR Approved"}
                 \/ status = "Error in Process" /\ kind # "reset"
                 \/ status = "Error in Decryption" /\ kind = "reset"
              /\ Recorded = {}
         /\ Said(c, "finished") /\ ~Passed(c, "rs_update") =>
              \/ status \in {"SR Submitted", "SR Approved"}
              \/ /\ status = "Completed"
                 /\ Recorded = {xcom[c]["ad_process"].pw}
<1>1. status \in {"SR Submitted", "SR Approved", "Error in AD Process", "Completed",
                  "Error in Process", "Error in Decryption", "Error in ITSM Process",
                  "SR approval Rejected."}
  BY StatusIs DEF Stands
<1>2. /\ status = "SR Approved" => Saw(c, "true")
      /\ status = "SR approval Rejected." => Saw(c, "cancel")
      /\ status \in {"Error in Process", "Error in Decryption"} => Said(c, "garbled")
      /\ status = "Error in Decryption" => kind = "reset"
      /\ status = "Error in Process" => kind # "reset"
      /\ status = "Error in AD Process" => Said(c, "unfinished")
      /\ status = "Error in ITSM Process" => Saw(c, "errored") \/ Passed(c, "rs_update")
  BY DEF Stands
<1>3. /\ Saw(c, "false") \/ Saw(c, "cancel") => applied = {}
      /\ Recorded # {} => /\ Said(c, "finished")
                          /\ Recorded = {xcom[c]["ad_process"].pw}
                          /\ status \in {"Completed", "Error in ITSM Process"}
      /\ status = "Completed" => Recorded # {} \/ Saw(c, "false")
  BY DEF DoneSoFar, SawRight, Outcome
<1>4. \A a, b : Said(c, a) /\ Said(c, b) => a = b
  BY DEF Said
<1>5. /\ ~(Said(c, "finished") /\ Said(c, "garbled"))
      /\ ~(Said(c, "finished") /\ Said(c, "unfinished"))
      /\ ~(Said(c, "garbled") /\ Said(c, "unfinished"))
  BY DEF Said
<1>6. /\ Passed(c, "ad_process") => Passed(c, "fetch")
      /\ Passed(c, "fetch") => Passed(c, "approved")
      /\ Passed(c, "approved") => Saw(c, "true") /\ ~Saw(c, "errored")
      /\ \A a : Said(c, a) => Passed(c, "ad_process")
      /\ Passed(c, "rs_update") => Said(c, "finished")
  BY WorkIsApproved
<1>7. \A x, y : Saw(c, x) /\ Saw(c, y) => x = y
  BY DEF Saw
<1> DEFINE r == Recorded
           p == xcom[c]["ad_process"].pw
<1> HIDE DEF r, p
<1>8. /\ r # {} => /\ Said(c, "finished") /\ r = {p}
                   /\ status \in {"Completed", "Error in ITSM Process"}
      /\ status = "Completed" => r # {} \/ Saw(c, "false")
  BY <1>3 DEF r, p
<1> DEFINE saw(x) == Saw(c, x)
<1>11. /\ ~(saw("true") /\ saw("false")) /\ ~(saw("true") /\ saw("cancel"))
       /\ ~(saw("true") /\ saw("errored")) /\ ~(saw("false") /\ saw("cancel"))
       /\ ~(saw("false") /\ saw("errored")) /\ ~(saw("cancel") /\ saw("errored"))
  BY <1>7
<1>9. /\ Saw(c, "errored") =>
           status \in {"SR Submitted", "Error in ITSM Process"} /\ r = {}
      /\ Saw(c, "false") => status \in {"SR Submitted", "Completed"} /\ r = {}
      /\ Saw(c, "cancel") =>
           status \in {"SR Submitted", "SR approval Rejected."} /\ r = {}
      /\ Saw(c, "true") /\ ~Passed(c, "approved") =>
           status \in {"SR Submitted", "SR Approved"} /\ r = {}
      /\ Passed(c, "fetch") /\ ~Passed(c, "ad_process") =>
           status \in {"SR Submitted", "SR Approved"} /\ r = {}
  BY <1>1, <1>2, <1>5, <1>6, <1>8, <1>11
<1>10. /\ Said(c, "unfinished") =>
            status \in {"SR Submitted", "SR Approved", "Error in AD Process"} /\ r = {}
       /\ Said(c, "garbled") =>
            /\ \/ status \in {"SR Submitted", "SR Approved"}
               \/ status = "Error in Process" /\ kind # "reset"
               \/ status = "Error in Decryption" /\ kind = "reset"
            /\ r = {}
       /\ Said(c, "finished") /\ ~Passed(c, "rs_update") =>
            \/ status \in {"SR Submitted", "SR Approved"}
            \/ status = "Completed" /\ r = {p}
  BY <1>1, <1>2, <1>5, <1>6, <1>8, <1>11
<1> QED
  BY <1>3, <1>9, <1>10 DEF r, p

\* A task that was handed something after the completion knows what the row was
\* completed with.
LEMMA RecordedIs ==
  ASSUME IInv, NEW c \in Run, OnWay(c), DoneSoFar(c), NEW u \in AfterCompletion, Handing(c, u)
  PROVE  /\ xcom[c][u].pw \in Pw /\ xcom[c][u].pw # NoPw
         /\ Recorded = {xcom[c][u].pw}
         /\ status \in {"Completed", "Error in ITSM Process"}
<1> DEFINE d == xcom[c][u]
<1>1. u \in Task
  BY TaskHas
<1>2. Knows(c, u, d)
  BY <1>1, Handed DEF Handing, Passed
<1>3. d.pw \in applied /\ Completion(c, d.pw) \in written
  BY <1>2 DEF Knows
<1>4. d.pw \in Pw /\ d.pw # NoPw
  BY <1>3, NoneIsNoPw DEF IInv, WorldInv, OthersOK
<1>5. d.pw \in Recorded
  BY <1>3, <1>4 DEF Recorded, Completion
<1>6. d.pw = xcom[c]["ad_process"].pw
  BY SameHanded
<1> QED
  BY <1>4, <1>5, <1>6 DEF DoneSoFar, Outcome

\* A task that may set the row to s, where it may stand at s.
LEMMA StatusStep ==
  ASSUME NEW c \in Run, Works(c),
         NEW t \in Task \ (AfterCompletion \cup {"check", "check_wo"}),
         task[c][t] = "none", Way(c, t), \E d : Ends(c, t, d), UNCHANGED <<ad, itsm>>,
         NEW s, NEW p, NEW n, UNCHANGED row \/ SetRow(c, s, p, n), Stands(c, s),
         s = "Completed" => p = NoPw /\ Saw(c, "false"),
         Recorded # {} => s = "Error in ITSM Process"
  PROVE  Life(c)' /\ SameRuns /\ (UNCHANGED Seen \/ Lifecycle!Becomes(s))
<1>1. CASE UNCHANGED row
  <2>1. UNCHANGED <<status, written, applied, closed>>
    BY <1>1 DEF row, ad, itsm
  <2>2. Life(c)' /\ SameRuns
    BY <1>1, EasyStep DEF Goes, itsm
  <2>3. UNCHANGED Seen
    BY <2>1 DEF Seen, Recorded, Works
  <2> QED
    BY <2>2, <2>3
<1>2. CASE SetRow(c, s, p, n)
  <2>1. UNCHANGED <<applied, closed>>
    BY DEF ad, itsm
  <2>2. PICK d : Ends(c, t, d)
    OBVIOUS
  <2>3. SameWork(c, t, d)
    BY DEF SameWork
  <2>4. Life(c)' /\ SameRuns /\ status' = s /\ UNCHANGED <<kind, applied, Recorded, closed>>
    BY <1>2, <2>1, <2>2, <2>3, RowStep
  <2> QED
    BY <2>4 DEF Lifecycle!Becomes
<1> QED
  BY <1>1, <1>2

\* Whichever way an update ends, the task does, and the row is set or not.
LEMMA UpdateEnds ==
  ASSUME NEW c, NEW t, NEW s, NEW p, NEW n, NEW d, NEW e, NEW how, Updates(c, t, s, p, n, d, e, how)
  PROVE  (UNCHANGED row \/ SetRow(c, s, p, n)) /\ \E x \in {d, e, NoData} : Ends(c, t, x)
BY DEF Updates, Fails, Breaks, Ends

\* The row is approved before anything is done.
LEMMA ApprovedGoes ==
  ASSUME NEW c \in Run, Works(c), Approved(c)
  PROVE  Goes(c)
<1> DEFINE t == "approved"
           s == "SR Approved"
<1>1. Saw(c, "true") /\ task[c][t] = "none" /\ UNCHANGED <<ad, itsm>>
  BY DEF Approved, Branched, Follows, Given, Saw, Handing, Passed
<1>2. /\ t \in Task \ (AfterCompletion \cup {"check", "check_wo"}) /\ s # "Completed"
      /\ Way(c, t) /\ Stands(c, s)
  BY <1>1, StatusHas DEF Task, AfterCompletion, Waits, Way, Stands
<1>3. (UNCHANGED row \/ SetRow(c, s, NoPw, emails)) /\ \E d : Ends(c, t, d)
  BY UpdateEnds DEF Approved, Stops, Ends
<1>4. /\ status \in {"SR Submitted", "SR Approved"}
      /\ Recorded = {}
  BY <1>1, AtWork, Stages DEF Passed
<1>5. Life(c)' /\ SameRuns /\ (UNCHANGED Seen \/ Lifecycle!Becomes(s))
  BY <1>1, <1>2, <1>3, <1>4, StatusStep
<1>6. Lifecycle!Becomes(s) => Lifecycle!Approve \/ UNCHANGED Seen
  BY <1>4, AtWork DEF Lifecycle!Approve, Lifecycle!Becomes, Seen
<1> QED
  BY <1>5, <1>6 DEF Goes, Lifecycle!Next

\* The WO could not be looked up.
LEMMA WoFailGoes ==
  ASSUME NEW c \in Run, Works(c), WoFailStatus(c)
  PROVE  Goes(c)
<1> DEFINE t == "wo_fail_status"
           s == "Error in ITSM Process"
<1>1. Saw(c, "errored") /\ task[c][t] = "none" /\ UNCHANGED <<ad, itsm>>
  BY DEF WoFailStatus, Branched, Follows, Given, Saw, Handing, Passed
<1>2. /\ t \in Task \ (AfterCompletion \cup {"check", "check_wo"}) /\ s # "Completed"
      /\ Way(c, t) /\ Stands(c, s)
  BY <1>1, StatusHas DEF Task, AfterCompletion, Waits, Way, Stands
<1>3. (UNCHANGED row \/ SetRow(c, s, NoPw, 0)) /\ \E d : Ends(c, t, d)
  BY UpdateEnds DEF WoFailStatus, Opens, Ends
<1>4. /\ status \in {"SR Submitted", "Error in ITSM Process"}
      /\ Recorded = {}
  BY <1>1, AtWork, Stages
<1>5. Life(c)' /\ SameRuns /\ (UNCHANGED Seen \/ Lifecycle!Becomes(s))
  BY <1>1, <1>2, <1>3, <1>4, StatusStep
<1>6. Lifecycle!Becomes(s) => Lifecycle!LookupFails \/ UNCHANGED Seen
  BY <1>4, AtWork DEF Lifecycle!LookupFails, Lifecycle!Becomes, Seen
<1> QED
  BY <1>5, <1>6 DEF Goes, Lifecycle!Next

\* The script did not finish.
LEMMA AdErrorGoes ==
  ASSUME NEW c \in Run, Works(c), RecordsAdError(c)
  PROVE  Goes(c)
<1> DEFINE t == "ad_status"
           s == "Error in AD Process"
<1>1. Passed(c, "ad_mail") /\ task[c][t] = "none" /\ UNCHANGED <<ad, itsm>>
  BY DEF RecordsAdError, Follows, Passed
<1>2. Said(c, "unfinished")
  BY <1>1, AtWork, Before
<1>3. /\ t \in Task \ (AfterCompletion \cup {"check", "check_wo"}) /\ s # "Completed"
      /\ Way(c, t) /\ Stands(c, s)
  BY <1>2, StatusHas DEF Task, AfterCompletion, Waits, Way, Stands
<1>4. (UNCHANGED row \/ SetRow(c, s, NoPw, 0)) /\ \E d : Ends(c, t, d)
  BY UpdateEnds DEF RecordsAdError, Stops, Ends
<1>5. /\ status \in {"SR Submitted", "SR Approved", "Error in AD Process"}
      /\ Recorded = {}
  BY <1>2, AtWork, Stages
<1>6. Life(c)' /\ SameRuns /\ (UNCHANGED Seen \/ Lifecycle!Becomes(s))
  BY <1>1, <1>3, <1>4, <1>5, StatusStep
<1>7. Lifecycle!Becomes(s) => Lifecycle!WorkFails \/ UNCHANGED Seen
  BY <1>5, AtWork DEF Lifecycle!WorkFails, Lifecycle!Open, Lifecycle!Becomes, Seen
<1> QED
  BY <1>6, <1>7 DEF Goes, Lifecycle!Next

\* What it answered cannot be read.
LEMMA GarbledGoes ==
  ASSUME NEW c \in Run, Works(c), NEW s \in {"Error in Process", "Error in Decryption"},
         s = "Error in Decryption" <=> kind = "reset", RecordsGarbled(c, s)
  PROVE  Goes(c)
<1> DEFINE t == "decrypt_status"
           p == xcom[c]["ad_process"].pw
<1>1. Said(c, "garbled") /\ task[c][t] = "none" /\ UNCHANGED <<ad, itsm>>
  BY DEF RecordsGarbled, Branched, Follows, Given, Said, Handing, Passed
<1>2. /\ t \in Task \ (AfterCompletion \cup {"check", "check_wo"}) /\ s # "Completed"
      /\ Way(c, t) /\ Stands(c, s)
  BY <1>1, StatusHas DEF Task, AfterCompletion, Waits, Way, Stands
<1>3. (UNCHANGED row \/ SetRow(c, s, p, 0)) /\ \E d : Ends(c, t, d)
  BY UpdateEnds DEF RecordsGarbled, Needs, Ends
<1>4. /\ \/ status \in {"SR Submitted", "SR Approved"}
         \/ status = "Error in Process" /\ kind # "reset"
         \/ status = "Error in Decryption" /\ kind = "reset"
      /\ Recorded = {}
  BY <1>1, AtWork, Stages
<1>5. applied # {}
  <2>1. Knows(c, "ad_process", xcom[c]["ad_process"])
    BY <1>1, TaskHas, Handed, AtWork DEF Said, Handing, Passed
  <2> QED
    BY <1>1, <2>1 DEF Knows, Said
<1>6. Life(c)' /\ SameRuns /\ (UNCHANGED Seen \/ Lifecycle!Becomes(s))
  BY <1>1, <1>2, <1>3, <1>4, StatusStep
<1>7. Lifecycle!Becomes(s) => Lifecycle!WorkFails \/ UNCHANGED Seen
  BY <1>4, <1>5, AtWork DEF Lifecycle!WorkFails, Lifecycle!Open, Lifecycle!Becomes, Seen
<1> QED
  BY <1>6, <1>7 DEF Goes, Lifecycle!Next

\* The WO could not be commented, or not be closed.
LEMMA ItsmErrorGoes ==
  ASSUME NEW c \in Run, Works(c), NEW l, 
         \/ RecordsError(c, "comment_err_status", "wo_comment", l)
         \/ RecordsError(c, "status_err_status", "wo_status", l)
  PROVE  Goes(c)
<1> DEFINE s == "Error in ITSM Process"
<1>1. PICK t \in {"comment_err_status", "status_err_status"},
           u \in {"wo_comment", "wo_status"} : RecordsError(c, t, u, l)
  OBVIOUS
<1>2. Reports(c, u, "failed") /\ task[c][t] = "none" /\ UNCHANGED <<ad, itsm>>
  BY <1>1 DEF RecordsError, Branched, Follows, Given, Reports, Handing, Passed
<1>3. Handing(c, "wo_comment") /\ Passed(c, "rs_update")
  <2>1. u = "wo_status" => Reports(c, "wo_comment", "created")
    BY <1>2, AtWork, Before DEF Reports, Handing
  <2> QED
    BY <1>2, <2>1, AtWork, WorkIsApproved DEF Reports
<1>4. /\ t \in Task \ (AfterCompletion \cup {"check", "check_wo"}) /\ s # "Completed"
      /\ Way(c, t) /\ Stands(c, s)
  BY <1>2, <1>3, StatusHas DEF Task, AfterCompletion, Waits, Way, Stands
<1>5. (UNCHANGED row \/ SetRow(c, s, NoPw, 0)) /\ \E d : Ends(c, t, d)
  BY <1>1 DEF RecordsError, Stops, Ends
<1>6. status \in {"Completed", "Error in ITSM Process"} /\ Recorded # {}
  BY <1>3, AtWork, RecordedIs DEF AfterCompletion
<1>7. Life(c)' /\ SameRuns /\ (UNCHANGED Seen \/ Lifecycle!Becomes(s))
  BY <1>2, <1>4, <1>5, <1>6, StatusStep
<1>8. Lifecycle!Becomes(s) => Lifecycle!WoFails \/ UNCHANGED Seen
  BY <1>6, AtWork DEF Lifecycle!WoFails, Lifecycle!Becomes, Seen
<1> QED
  BY <1>7, <1>8 DEF Goes, Lifecycle!Next

\* The script does its work, or more of it, while the request is open.
LEMMA WorkGoes ==
  ASSUME NEW c \in Run, Works(c), NEW answers, RunsScript(c, answers)
  PROVE  Goes(c)
<1> DEFINE t == "ad_process"
           p == [run |-> c, try |-> tries[c][t] + 1]
<1>1. /\ FlowOK /\ OnWay(c) /\ Stands(c, status) /\ DoneSoFar(c) /\ Outcome
      /\ SawRight(c) /\ kind \in AdKind /\ kind' = kind /\ wo' = wo
  BY AtWork
<1>2. /\ task[c][t] = "none" /\ Passed(c, "fetch") /\ UNCHANGED <<row, itsm>>
  BY DEF RunsScript, Follows, Passed
<1>3. t \in Task \ (AfterCompletion \cup {"check", "check_wo"}) /\ Way(c, t)
  BY <1>2 DEF Task, AfterCompletion, Waits, Way
<1>4. \E d : Ends(c, t, d)
  BY DEF RunsScript, Script, Opens, Breaks, Ends
<1>5. applied' = applied \/ applied' = applied \cup {p}
  BY DEF RunsScript, Script, ad
<1>6. p \in Pw
  <2>1. tries[c][t] \in Nat /\ tries[c][t] < MaxTries
    BY <1>2, <1>3, AtWork, TriesAssumption DEF IInv, FlowInv, Bounded, FlowOK
  <2> QED
    BY <2>1, TriesAssumption DEF Pw
<1>7. UNCHANGED <<status, written, closed>> /\ Recorded' = Recorded
  BY <1>2 DEF row, itsm, Recorded
<1>8. PICK d : Ends(c, t, d)
  BY <1>4
<1>9. /\ OnWay(c)' /\ SameRuns
      /\ \A u \in Task : Passed(c, u) => Passed(c, u)' /\ xcom'[c][u] = xcom[c][u]
  BY <1>1, <1>2, <1>3, <1>8, OnWayStays DEF SameWork
<1>10. /\ \A a : Said(c, a) => Said(c, a)'
       /\ \A u : Way(c, u) => Way(c, u)'
       /\ \A s : Stands(c, s) => Stands(c, s)'
  BY <1>1, <1>9, WayStays
<1>11. Stands(c, status)'
  <2>1. PICK s : s = status
    OBVIOUS
  <2>2. Stands(c, s)'
    BY <1>1, <1>10, <2>1
  <2> QED
    BY <1>7, <2>1, <2>2 DEF Stands
<1>12. Saw(c, "true") /\ wo = "true"
  BY <1>1, <1>2, WorkIsApproved DEF SawRight
<1>15. Outcome'
  BY <1>1, <1>7, <1>12 DEF Outcome
<1>16. SawRight(c)'
  <2>1. \A x : Saw(c, x)' => Saw(c, x) \/ x \in {wo, "errored"}
    BY <1>1, <1>2, <1>3, <1>8, SawStays
  <2>2. ~Saw(c, "false")' /\ ~Saw(c, "cancel")'
    BY <1>12, <2>1 DEF Saw
  <2> QED
    BY <1>1, <1>12, <2>2 DEF SawRight
<1>17. DoneSoFar(c)'
  <2>1. Said(c, "finished") => xcom'[c]["ad_process"] = xcom[c]["ad_process"]
    BY <1>9, TaskHas DEF Said, Handing
  <2>2. \A x : Saw(c, x) => Saw(c, x)'
    BY <1>1, <1>9, WayStays
  <2> QED
    BY <1>1, <1>7, <1>10, <1>15, <1>16, <2>1, <2>2 DEF DoneSoFar
<1>13. status \in {"SR Submitted", "SR Approved"}
  BY <1>1, <1>2, Stages DEF Passed
<1>14. Lifecycle!Work(p) \/ UNCHANGED Seen
  BY <1>1, <1>5, <1>7, <1>13 DEF Lifecycle!Work, Lifecycle!Open, Seen
<1> HIDE DEF p
<1> QED
  BY <1>6, <1>9, <1>11, <1>14, <1>17 DEF Goes, Life, Lifecycle!Next

\* The row is completed with what was done.
LEMMA CompletesGoes ==
  ASSUME NEW c \in Run, Works(c), Completes(c)
  PROVE  Goes(c)
<1> DEFINE t == "rs_update"
<1>1. /\ FlowOK /\ OnWay(c) /\ Stands(c, status) /\ DoneSoFar(c) /\ Outcome
      /\ kind \in AdKind /\ kind' = kind /\ wo' = wo
  BY AtWork
<1>2. /\ Said(c, "finished") /\ task[c][t] = "none" /\ UNCHANGED <<ad, itsm>>
  BY DEF Completes, Branched, Follows, Given, Said, Handing, Passed
<1>3. t \in Task /\ t \in AfterCompletion /\ Way(c, t) /\ "ad_process" \in Task
  BY <1>2 DEF Task, AfterCompletion, Waits, Way
<1>4. PICK d, p : d = xcom[c]["ad_process"] /\ p = d.pw
  OBVIOUS
<1>5. p \in applied /\ p \in Pw /\ p # NoPw
  <2>1. Knows(c, "ad_process", d)
    BY <1>2, <1>3, <1>4, Handed, AtWork DEF Said, Handing, Passed
  <2>2. p \in applied
    BY <1>2, <1>4, <2>1 DEF Knows, Said
  <2> QED
    BY <2>2, AtWork, NoneIsNoPw DEF IInv, WorldInv, OthersOK
<1>6. /\ UNCHANGED row \/ SetRow(c, "Completed", p, 0)
      /\ Ends(c, t, d) \/ Ends(c, t, NoData)
  BY <1>4 DEF Completes, Needs, Updates, Fails, Breaks, Ends
<1>7. SameWork(c, t, d)
  BY <1>4 DEF SameWork
<1>8. UNCHANGED <<applied, closed>>
  BY <1>2 DEF ad, itsm
<1>9. CASE UNCHANGED row
  <2>1. UNCHANGED <<status, applied, closed, Recorded>>
    BY <1>8, <1>9 DEF row, Recorded
  <2> QED
    BY <1>2, <1>3, <1>6, <1>7, <2>1, QuietStep
<1>10. CASE SetRow(c, "Completed", p, 0)
  <2>1. /\ OnWay(c)' /\ SameRuns
        /\ \A u \in Task : Passed(c, u) => Passed(c, u)' /\ xcom'[c][u] = xcom[c][u]
    BY <1>1, <1>2, <1>3, <1>6, <1>7, OnWayStays
  <2>2. /\ \A a : Said(c, a) => Said(c, a)'
        /\ \A u : Way(c, u) => Way(c, u)'
    BY <1>1, <2>1, WayStays
  <2>3. Recorded' = Recorded \cup {p}
    <3>1. PICK w : /\ w.status = "Completed" /\ w.pw = p
                   /\ written' = written \cup {w}
      BY <1>10 DEF SetRow
    <3>2. {x \in written' : x.status = "Completed" /\ x.pw # NoPw} =
            {x \in written : x.status = "Completed" /\ x.pw # NoPw} \cup {w}
      BY <1>5, <3>1
    <3> QED
      BY <3>1, <3>2 DEF Recorded
  <2>4. /\ \/ status \in {"SR Submitted", "SR Approved"}
           \/ status = "Completed" /\ Recorded = {p}
    BY <1>1, <1>2, <1>4, Stages DEF Passed
  <2>5. Recorded \subseteq {p}
    BY <1>1, <1>4 DEF DoneSoFar
  <2>10. Outcome'
    <3>1. closed' # NoPw => closed' = p
      BY <1>1, <1>8, <2>5 DEF Outcome
    <3> QED
      BY <1>1, <1>8, <2>3, <2>5, <3>1, <1>10 DEF Outcome, SetRow
  <2>11. SawRight(c)'
    BY <1>2, <1>3, <1>6, <1>8, SawRightStays
  <2>6. Recorded' = {p} /\ status' = "Completed"
    BY <1>10, <2>3, <2>5 DEF SetRow
  <2>7. Stands(c, status)'
    BY <2>6, StatusHas, StatusIs DEF Stands
  <2>8. DoneSoFar(c)'
    <3>1. xcom'[c]["ad_process"].pw = p
      BY <1>2, <1>3, <1>4, <2>1 DEF Said, Handing
    <3> QED
      BY <1>2, <2>2, <2>6, <2>10, <2>11, <3>1 DEF DoneSoFar
  <2>9. Lifecycle!Complete(p) \/ UNCHANGED Seen
    BY <1>1, <1>5, <1>8, <2>4, <2>6 DEF Lifecycle!Complete, Lifecycle!Open, Seen
  <2> QED
    BY <1>5, <2>1, <2>7, <2>8, <2>9 DEF Goes, Life, Lifecycle!Next
<1> QED
  BY <1>6, <1>9, <1>10

\* The WO is closed with what the row was completed with.
LEMMA ClosesGoes ==
  ASSUME NEW c \in Run, Works(c), Closes(c)
  PROVE  Goes(c)
<1> DEFINE t == "wo_status"
<1>1. /\ FlowOK /\ OnWay(c) /\ Stands(c, status) /\ DoneSoFar(c) /\ Outcome
      /\ kind \in AdKind /\ kind' = kind /\ wo' = wo /\ IInv
  BY AtWork
<1>2. /\ Reports(c, "wo_comment", "created") /\ task[c][t] = "none"
      /\ UNCHANGED <<row, ad>>
  BY DEF Closes, Branched, Follows, Given, Reports, Handing, Passed
<1>3. t \in Task \ (AfterCompletion \cup {"check", "check_wo"}) /\ Way(c, t)
  BY <1>2 DEF Task, AfterCompletion, Waits, Way
<1>4. PICK p : p = xcom[c]["wo_comment"].pw
  OBVIOUS
<1>5. /\ p \in Pw /\ Recorded = {p}
      /\ status \in {"Completed", "Error in ITSM Process"}
  BY <1>1, <1>2, <1>4, RecordedIs DEF Reports, AfterCompletion
<1>6. status = "Completed"
  <2>1. ~Saw(c, "errored")
    BY <1>1, <1>2, WorkIsApproved
  <2>2. ~Reports(c, "wo_comment", "failed") /\ ~Reports(c, "wo_status", "failed")
    BY <1>2 DEF Reports, Handing, Passed
  <2> QED
    BY <1>1, <1>5, <2>1, <2>2 DEF Stands
<1>7. \E d : Ends(c, t, d)
  BY DEF Closes, Stops, Breaks, Ends
<1>8. closed' = closed \/ closed' = p
  BY <1>4 DEF Closes
<1>9. UNCHANGED <<status, written, applied>> /\ Recorded' = Recorded
  BY <1>2 DEF row, ad, Recorded
<1>10. PICK d : Ends(c, t, d)
  BY <1>7
<1>11. /\ OnWay(c)' /\ SameRuns
       /\ \A u \in Task : Passed(c, u) => Passed(c, u)' /\ xcom'[c][u] = xcom[c][u]
  BY <1>1, <1>2, <1>3, <1>10, OnWayStays DEF SameWork
<1>12. /\ \A a : Said(c, a) => Said(c, a)'
       /\ \A u : Way(c, u) => Way(c, u)'
       /\ \A s : Stands(c, s) => Stands(c, s)'
  BY <1>1, <1>11, WayStays
<1>13. Stands(c, status)'
  <2>1. PICK s : s = status
    OBVIOUS
  <2>2. Stands(c, s)'
    BY <1>1, <1>12, <2>1
  <2> QED
    BY <1>9, <2>1, <2>2 DEF Stands
<1>14. DoneSoFar(c)'
  <2>1. Said(c, "finished") => xcom'[c]["ad_process"] = xcom[c]["ad_process"]
    BY <1>11, TaskHas DEF Said, Handing
  <2>2. Outcome'
    BY <1>1, <1>5, <1>8, <1>9 DEF Outcome
  <2>3. SawRight(c)'
    BY <1>2, <1>3, <1>9, <1>10, SawRightStays
  <2>4. \A x : Saw(c, x) => Saw(c, x)'
    BY <1>1, <1>11, WayStays
  <2> QED
    BY <1>1, <1>9, <1>12, <2>1, <2>2, <2>3, <2>4 DEF DoneSoFar
<1>15. Lifecycle!Close(p) \/ UNCHANGED Seen
  BY <1>1, <1>5, <1>6, <1>8, <1>9 DEF Lifecycle!Close, Seen
<1> QED
  BY <1>5, <1>11, <1>13, <1>14, <1>15 DEF Goes, Life, Lifecycle!Next

\* The tasks that are not seen from outside: those that are on no way in
\* particular,
LEMMA LookingGoes ==
  ASSUME NEW c \in Run, Works(c),
         \/ WoFailMail(c) \/ NewUserInsertUser(c) \/ TellsGarbled(c)
         \/ \E wanted : \/ TellsError(c, "comment_err_mail", "comment_err_status", wanted)
                        \/ TellsError(c, "status_err_mail", "status_err_status", wanted)
  PROVE  Goes(c)
<1>1. PICK t \in {"wo_fail_mail", "user_list", "decrypt_mail", "comment_err_mail",
                  "status_err_mail"} :
        /\ task[c][t] = "none" /\ \E d : Ends(c, t, d)
        /\ UNCHANGED <<row, ad, closed>>
  <2>3. CASE WoFailMail(c)
    BY <2>3 DEF WoFailMail, MailsOn, Sends, Fails, Breaks, Opens, Follows, Ends, itsm
  <2>4. CASE NewUserInsertUser(c)
    BY <2>4 DEF NewUserInsertUser, Branched, Follows, Stops, Breaks, Ends
  <2>5. CASE TellsGarbled(c)
    BY <2>5 DEF TellsGarbled, Needs, Sends, Fails, Breaks, Follows, Ends, itsm
  <2>6. ASSUME NEW wanted, NEW u, NEW t \in {"comment_err_mail", "status_err_mail"},
               TellsError(c, t, u, wanted)
        PROVE  /\ task[c][t] = "none" /\ \E d : Ends(c, t, d)
               /\ UNCHANGED <<row, ad, closed>>
    BY <2>6 DEF TellsError, Opens, Sends, Fails, Breaks, Follows, Ends, itsm
  <2> QED
    BY <2>3, <2>4, <2>5, <2>6
<1>2. t \in Task \ (AfterCompletion \cup {"check", "check_wo"}) /\ Way(c, t)
  BY DEF Task, AfterCompletion, Waits, Way
<1> QED
  BY <1>1, <1>2, EasyStep

\* the one that asks the ticket system,
LEMMA CheckWoGoes ==
  ASSUME NEW c \in Run, Works(c), CheckWo(c, wo)
  PROVE  Goes(c)
<1> DEFINE t == "check_wo"
<1>1. /\ task[c][t] = "none" /\ Follows(c, t, "check")
      /\ UNCHANGED <<status, applied, closed, Recorded>>
  BY DEF CheckWo, Follows, row, ad, itsm, Recorded
<1>2. t \in Task \ {"check"} /\ t \notin AfterCompletion /\ Way(c, t)
  BY DEF Task, AfterCompletion, Waits, Way
<1>3. CASE Ends(c, t, NoData)
  BY <1>1, <1>2, <1>3, QuietStep
<1>4. ASSUME Given(c, "check"), NEW a \in {wo, "errored"},
             Returns(c, t, [xcom[c]["check"] EXCEPT !.wo = a])
      PROVE  Goes(c)
  <2>1. PICK d : d = xcom[c]["check"]
    OBVIOUS
  <2>2. d \in Data
    BY <1>1, <1>4, <2>1, Handed, AtWork DEF Follows, Given, Task
  <2>3. PICK e : e = [d EXCEPT !.wo = a]
    OBVIOUS
  <2>4. e.wo = a
    BY <2>2, <2>3 DEF Data
  <2>5. Ends(c, t, e)
    BY <1>4, <2>1, <2>3 DEF Ends
  <2>6. SameWork(c, t, e)
    BY <1>2 DEF SameWork
  <2> QED
    BY <1>1, <1>2, <1>4, <2>4, <2>5, <2>6, QuietStep
<1> QED
  BY <1>3, <1>4 DEF CheckWo, Needs, Ends

\* those between the approval and the script,
LEMMA FetchesGoes ==
  ASSUME NEW c \in Run, Works(c), NEW t \in {"adid", "fetch"}, NEW u \in {"approved", "adid"}, Fetches(c, t, u)
  PROVE  Goes(c)
<1>1. /\ task[c][t] = "none" /\ Passed(c, u) /\ \E d : Ends(c, t, d)
      /\ UNCHANGED <<row, ad, closed>>
  BY DEF Fetches, Follows, Passed, Reads, Needs, Ends, itsm
<1>2. Passed(c, "approved")
  BY <1>1, AtWork, Before
<1>3. t \in Task \ (AfterCompletion \cup {"check", "check_wo"}) /\ Way(c, t)
  BY <1>2 DEF Task, AfterCompletion, Waits, Way
<1> QED
  BY <1>1, <1>3, EasyStep

\* the one that tells that it did not finish,
LEMMA AdMailGoes ==
  ASSUME NEW c \in Run, Works(c), TellsAdError(c)
  PROVE  Goes(c)
<1> DEFINE t == "ad_mail"
<1>1. /\ task[c][t] = "none" /\ Said(c, "unfinished") /\ \E d : Ends(c, t, d)
      /\ UNCHANGED <<row, ad, closed>>
  BY DEF TellsAdError, Branched, Follows, Given, Said, Handing, Passed, Mails, MailsOn,
         Opens, Sends, Fails, Breaks, Ends, itsm
<1>2. t \in Task \ (AfterCompletion \cup {"check", "check_wo"}) /\ Way(c, t)
  BY <1>1 DEF Task, AfterCompletion, Waits, Way
<1> QED
  BY <1>1, <1>2, EasyStep

\* and those that follow the completion, and hand its password on.
LEMMA LateStep ==
  ASSUME NEW c \in Run, Works(c), NEW u \in AfterCompletion, NEW t \in AfterCompletion \ {"rs_update"},
         Follows(c, t, u), NEW d, Ends(c, t, d),
         d # NoData => Given(c, u) /\ d.pw = xcom[c][u].pw,
         UNCHANGED <<row, ad, closed>>
  PROVE  Goes(c)
<1>1. task[c][t] = "none" /\ Passed(c, u) /\ t \in Task
  BY TaskHas DEF Follows, Passed
<1>2. Said(c, "finished") /\ Passed(c, "rs_update")
  BY <1>1, AtWork, Before
<1>3. Way(c, t)
  BY <1>2 DEF Way, AfterCompletion, Waits
<1>4. d # NoData => SameWork(c, t, d)
  BY <1>1, AtWork, SameHanded DEF SameWork, Handing, Given
<1>6. t # "check" /\ t # "check_wo"
  BY DEF AfterCompletion
<1>5. UNCHANGED <<status, applied, closed, Recorded>>
  BY DEF row, ad, Recorded
<1> QED
  BY <1>1, <1>3, <1>4, <1>5, <1>6, QuietStep

\* Their requester is told, the FO on shift, and the WO is commented.
LEMMA TellingGoes ==
  ASSUME NEW c \in Run, Works(c), \/ Tells(c, "rs_update") \/ LooksUpShift(c, "rs_update")
                \/ LooksUpShift(c, "notify") \/ TellsShift(c)
                \/ Comments(c, "fo_mail") \/ Comments(c, "notify")
  PROVE  Goes(c)
<1>1. AfterCompletion = {"rs_update", "notify", "shift", "fo_mail", "wo_comment"}
  BY DEF AfterCompletion
<1>2. CASE Tells(c, "rs_update")
  <2>1. /\ Follows(c, "notify", "rs_update") /\ UNCHANGED <<row, ad, closed>>
        /\ \/ Ends(c, "notify", NoData)
           \/ Given(c, "rs_update") /\ Ends(c, "notify", xcom[c]["rs_update"])
    BY <1>2 DEF Tells, MailsOn, Opens, Sends, Fails, Breaks, Ends, itsm
  <2> QED
    BY <1>1, <2>1, LateStep
<1>3. CASE TellsShift(c)
  <2>1. /\ Follows(c, "fo_mail", "shift") /\ UNCHANGED <<row, ad, closed>>
        /\ \/ Ends(c, "fo_mail", NoData)
           \/ Given(c, "shift") /\ Ends(c, "fo_mail", xcom[c]["shift"])
    BY <1>3 DEF TellsShift, Opens, Sends, Fails, Breaks, Ends, itsm
  <2> QED
    BY <1>1, <2>1, LateStep
<1>4. ASSUME NEW u \in AfterCompletion, NEW t \in AfterCompletion \ {"rs_update"},
             Follows(c, t, u), Given(c, u), UNCHANGED <<row, ad, closed>>,
             NEW l \in {"found", "not found", "failed", "created"},
             Ends(c, t, [xcom[c][u] EXCEPT !.last = l])
      PROVE  Goes(c)
  <2>1. PICK d : d = xcom[c][u]
    OBVIOUS
  <2>2. d \in Data
    BY <1>4, <2>1, TaskHas, Handed, AtWork DEF Follows, Given
  <2>3. PICK e : e = [d EXCEPT !.last = l]
    OBVIOUS
  <2>4. e.pw = d.pw
    <3>1. l \in {"none", "found", "not found", "created", "updated", "failed",
                 "comment remarks", "status remarks"}
      OBVIOUS
    <3>2. [d EXCEPT !.last = l].pw = d.pw
      BY <2>2, <3>1, Labelled
    <3> QED
      BY <2>3, <3>2
  <2> QED
    BY <1>4, <2>1, <2>3, <2>4, LateStep
<1>5. ASSUME NEW u \in {"rs_update", "notify"}, LooksUpShift(c, u)
      PROVE  Goes(c)
  <2>1. /\ Follows(c, "shift", u) /\ UNCHANGED <<row, ad, closed>>
        /\ \/ Ends(c, "shift", NoData)
           \/ /\ Given(c, u)
              /\ \E l \in {"found", "not found", "failed"} :
                   Ends(c, "shift", [xcom[c][u] EXCEPT !.last = l])
    BY <1>5 DEF LooksUpShift, Opens, Ends, itsm
  <2> QED
    BY <1>1, <1>4, <2>1, LateStep
<1>6. ASSUME NEW u \in {"fo_mail", "notify"}, Comments(c, u)
      PROVE  Goes(c)
  <2>1. /\ Follows(c, "wo_comment", u) /\ UNCHANGED <<row, ad, closed>>
        /\ \/ Ends(c, "wo_comment", NoData)
           \/ /\ Given(c, u)
              /\ \E l \in {"created", "failed"} :
                   Ends(c, "wo_comment", [xcom[c][u] EXCEPT !.last = l])
    BY <1>6 DEF Comments, Stops, Breaks, Ends
  <2> QED
    BY <1>1, <1>4, <2>1, LateStep
<1> QED
  BY <1>2, <1>3, <1>5, <1>6

\* A record without a password completes nothing.
LEMMA NothingRecorded ==
  ASSUME NEW w, w.pw = NoPw, written' = written \cup {w}
  PROVE  Recorded' = Recorded
<1>1. {x \in written' : x.status = "Completed" /\ x.pw # NoPw} =
        {x \in written : x.status = "Completed" /\ x.pw # NoPw}
  OBVIOUS
<1> QED
  BY <1>1 DEF Recorded

\* A remark on the row is not seen either.
LEMMA RemindingIsQuiet ==
  ASSUME NEW f, NEW t, NEW u, Reminds(f, t, u)
  PROVE  UNCHANGED <<status, applied, closed, Recorded>>
<1>1. UNCHANGED <<applied, closed>>
  BY DEF Reminds, ad, itsm
<1>2. CASE UNCHANGED row
  BY <1>1, <1>2 DEF row, Recorded
<1>3. ASSUME NEW n, SetRemarks(f, n)
      PROVE  UNCHANGED <<status, applied, closed, Recorded>>
  <2>1. [run |-> f, status |-> "reminded", pw |-> NoPw].pw = NoPw
    OBVIOUS
  <2> QED
    BY <1>1, <1>3, <2>1, NothingRecorded DEF SetRemarks
<1> QED
  BY <1>2, <1>3 DEF Reminds

\* A run that waits for the approvers reminds them, or gives the request up.
LEMMA WaitsGoes ==
  ASSUME NEW c \in Run, Works(c), WaitingStep(c)
  PROVE  Goes(c)
<1>1. \A t : \A u \in Waits : Follows(c, t, u) => Saw(c, "false")
  BY AtWork, Before DEF Follows, Passed
<1>2. ASSUME NEW t \in Waits, Saw(c, "false")
      PROVE  /\ t \in Task \ (AfterCompletion \cup {"check", "check_wo"})
             /\ Way(c, t)
  BY <1>2 DEF Waits, Task, AfterCompletion, Way
<1>3. ASSUME NEW t \in Waits, Saw(c, "false"), task[c][t] = "none", \E d : Ends(c, t, d),
             UNCHANGED <<row, ad, closed>>
      PROVE  Goes(c)
  BY <1>2, <1>3, EasyStep
<1>4. CASE FetchForReminder(c)
  <2>1. /\ Saw(c, "false") /\ task[c]["fetch_waiting"] = "none"
        /\ \E d : Ends(c, "fetch_waiting", d)
        /\ UNCHANGED <<row, ad, closed>>
    BY <1>4 DEF FetchForReminder, Branched, Follows, Given, Saw, Handing, Passed, Reads,
                Needs, Ends, itsm
  <2> QED
    BY <1>3, <2>1 DEF Waits
<1>5. CASE FetchApprover(c)
  <2>1. /\ Follows(c, "approver", "fetch_waiting") /\ task[c]["approver"] = "none"
        /\ \E d : Ends(c, "approver", d)
        /\ UNCHANGED <<row, ad, closed>>
    BY <1>5 DEF FetchApprover, Follows, Stops, Breaks, Ends, itsm
  <2> QED
    BY <1>1, <1>3, <2>1 DEF Waits
<1>6. ASSUME NEW t \in {"follow_up_mail", "handover_mail"}, NEW flag, NEW k,
             ReminderMail(c, t, flag, k)
      PROVE  Goes(c)
  <2>1. /\ Follows(c, t, "approver") /\ task[c][t] = "none" /\ \E d : Ends(c, t, d)
        /\ UNCHANGED <<row, ad, closed>>
    BY <1>6 DEF ReminderMail, IsDue, Follows, Stops, Sends, Fails, Breaks, Ends, itsm
  <2> QED
    BY <1>1, <1>3, <2>1 DEF Waits
<1>7. CASE Reminds(c, "follow_up", "follow_up_mail")
  <2> DEFINE t == "follow_up"
  <2>1. /\ Follows(c, t, "follow_up_mail") /\ task[c][t] = "none" /\ \E d : Ends(c, t, d)
    BY <1>7 DEF Reminds, Follows, Needs, Breaks, Ends
  <2>2. UNCHANGED <<status, applied, closed, Recorded>>
    BY <1>7, RemindingIsQuiet
  <2>3. Saw(c, "false")
    BY <1>1, <2>1 DEF Waits
  <2>4. t \in Task \ (AfterCompletion \cup {"check", "check_wo"}) /\ Way(c, t)
    BY <1>2, <2>3 DEF Waits
  <2>5. PICK d : Ends(c, t, d)
    BY <2>1
  <2>6. SameWork(c, t, d)
    BY <2>4 DEF SameWork
  <2> QED
    BY <2>1, <2>2, <2>4, <2>5, <2>6, QuietStep
<1>8. CASE HandsOver(c, "handover", "handover_mail")
  <2> DEFINE t == "handover"
             s == "Completed"
  <2>1. /\ Follows(c, t, "handover_mail") /\ task[c][t] = "none" /\ UNCHANGED <<ad, itsm>>
        /\ UNCHANGED row \/ SetRow(c, s, NoPw, 0)
        /\ \E d : Ends(c, t, d)
    BY <1>8, UpdateEnds DEF HandsOver, Follows, Needs, Ends
  <2>2. Saw(c, "false")
    BY <1>1, <2>1 DEF Waits
  <2>3. t \in Task \ (AfterCompletion \cup {"check", "check_wo"}) /\ Way(c, t)
    BY <1>2, <2>2 DEF Waits
  <2>4. Stands(c, s)
    BY StatusIs DEF Stands
  <2>5. status \in {"SR Submitted", "Completed"} /\ Recorded = {} /\ applied = {}
    BY <2>2, AtWork, Stages
  <2>6. Life(c)' /\ SameRuns /\ (UNCHANGED Seen \/ Lifecycle!Becomes(s))
    BY <2>1, <2>2, <2>3, <2>4, <2>5, StatusStep
  <2>7. Lifecycle!Becomes(s) => Lifecycle!GiveUp \/ UNCHANGED Seen
    BY <2>5, AtWork DEF Lifecycle!GiveUp, Lifecycle!Becomes, Seen
  <2> QED
    BY <2>6, <2>7 DEF Goes, Lifecycle!Next
<1> QED
  BY <1>4, <1>5, <1>6, <1>7, <1>8
  DEF WaitingStep, ReminderFlag1Mail, ReminderFlag1Update, ReminderFlag2Mail,
      ReminderFlag2Update

\* One that finds the request rejected closes it.
LEMMA RejectedGoes ==
  ASSUME NEW c \in Run, Works(c), RejectedStep(c)
  PROVE  Goes(c)
<1>1. CASE CancelStatus(c)
  <2> DEFINE t == "cancel_status"
             s == "SR approval Rejected."
  <2>1. Saw(c, "cancel") /\ task[c][t] = "none" /\ UNCHANGED <<ad, itsm>>
    BY <1>1 DEF CancelStatus, Branched, Follows, Given, Saw, Handing, Passed
  <2>2. /\ t \in Task \ (AfterCompletion \cup {"check", "check_wo"}) /\ s # "Completed"
        /\ Way(c, t) /\ Stands(c, s)
    BY <2>1, StatusIs DEF Task, AfterCompletion, Waits, Way, Stands
  <2>3. (UNCHANGED row \/ SetRow(c, s, NoPw, 0)) /\ \E d : Ends(c, t, d)
    BY <1>1, UpdateEnds DEF CancelStatus, Opens, Ends
  <2>4. /\ status \in {"SR Submitted", "SR approval Rejected."}
        /\ Recorded = {} /\ applied = {}
    BY <2>1, AtWork, Stages
  <2>5. Life(c)' /\ SameRuns /\ (UNCHANGED Seen \/ Lifecycle!Becomes(s))
    BY <2>1, <2>2, <2>3, <2>4, StatusStep
  <2>6. Lifecycle!Becomes(s) => Lifecycle!Reject \/ UNCHANGED Seen
    BY <2>4, AtWork DEF Lifecycle!Reject, Lifecycle!Becomes, Seen
  <2> QED
    BY <2>5, <2>6 DEF Goes, Lifecycle!Next
<1>2. CASE CancelMail(c)
  <2> DEFINE t == "cancel_mail"
  <2>1. /\ Follows(c, t, "cancel_status") /\ task[c][t] = "none" /\ \E d : Ends(c, t, d)
        /\ UNCHANGED <<row, ad, closed>>
    BY <1>2 DEF CancelMail, MailsOn, Sends, Fails, Breaks, Opens, Follows, Ends, itsm
  <2>2. Saw(c, "cancel")
    BY <2>1, AtWork, Before DEF Follows, Passed
  <2>3. t \in Task \ (AfterCompletion \cup {"check", "check_wo"}) /\ Way(c, t)
    BY <2>2 DEF Task, AfterCompletion, Waits, Way
  <2> QED
    BY <2>1, <2>3, EasyStep
<1> QED
  BY <1>1, <1>2 DEF RejectedStep

\* Only a run that was started does anything.
LEMMA WorkIsStarted ==
  ASSUME IInv, NEW f \in Run, FlowStep(f)
  PROVE  Started(f)
<1>1. \A u \in Task : task[f][u] = "success" => Started(f)
  BY Handed DEF Guard, Started
<1>2. \A u \in Task : \A t : Follows(f, t, u) => Started(f)
  BY <1>1 DEF Follows
<1>3. /\ "check" \in Task /\ "check_wo" \in Task /\ "approved" \in Task /\ "adid" \in Task
      /\ "fetch" \in Task /\ "ad_process" \in Task /\ "rs_update" \in Task
      /\ "notify" \in Task /\ "shift" \in Task /\ "fo_mail" \in Task
      /\ "wo_comment" \in Task /\ "wo_status" \in Task
      /\ "comment_err_status" \in Task /\ "status_err_status" \in Task
      /\ "ad_mail" \in Task /\ "ad_status" \in Task /\ "decrypt_status" \in Task
      /\ "wo_fail_status" \in Task /\ "cancel_status" \in Task
      /\ "fetch_waiting" \in Task /\ "approver" \in Task
      /\ "follow_up_mail" \in Task /\ "handover_mail" \in Task
  BY DEF Task
<1>4. CASE CheckWo(f, wo) \/ WoFailStatus(f) \/ WoFailMail(f)
  BY <1>2, <1>3, <1>4 DEF CheckWo, WoFailStatus, WoFailMail, Branched
<1>5. Approved(f) => Started(f)
  BY <1>2, <1>3 DEF Approved, Branched
<1>6. \A t : \A u \in Task : Fetches(f, t, u) => Started(f)
  BY <1>2 DEF Fetches
<1>7. \A answers : RunsScript(f, answers) => Started(f)
  BY <1>2, <1>3 DEF RunsScript
<1>8. Completes(f) => Started(f)
  BY <1>2, <1>3 DEF Completes, Branched
<1>9. \A u \in Task : Tells(f, u) => Started(f)
  BY <1>2 DEF Tells
<1>10. \A u \in Task : LooksUpShift(f, u) => Started(f)
  BY <1>2 DEF LooksUpShift
<1>11. TellsShift(f) => Started(f)
  BY <1>2, <1>3 DEF TellsShift
<1>12. \A u \in Task : Comments(f, u) => Started(f)
  BY <1>2 DEF Comments
<1>13. Closes(f) \/ NewUserInsertUser(f) => Started(f)
  BY <1>2, <1>3 DEF Closes, NewUserInsertUser, Branched
<1>14. \A t, x : \A u \in Task : RecordsError(f, t, u, x) => Started(f)
  BY <1>2 DEF RecordsError, Branched
<1>15. \A t, x : \A u \in Task : TellsError(f, t, u, x) => Started(f)
  BY <1>2 DEF TellsError
<1>16. TellsAdError(f) \/ RecordsAdError(f) => Started(f)
  BY <1>2, <1>3 DEF TellsAdError, RecordsAdError, Branched
<1>17. (\E s : RecordsGarbled(f, s)) \/ TellsGarbled(f) => Started(f)
  BY <1>2, <1>3 DEF RecordsGarbled, TellsGarbled, Branched
<1>18. CASE ResetStep(f)
  <2>1. CASE ResetFetchActivity(f) \/ ResetAdProcess(f) \/ ResetRsUpdate(f)
    BY <1>3, <1>6, <1>7, <1>8, <2>1
    DEF ResetFetchActivity, ResetAdProcess, ResetRsUpdate
  <2>2. CASE ResetCheckShift(f) \/ ResetFoMail(f) \/ ResetWoComment(f) \/
             ResetWoStatus(f)
    BY <1>3, <1>9, <1>10, <1>11, <1>12, <1>13, <2>2
    DEF ResetCheckShift, ResetFoMail, ResetWoComment, ResetWoStatus
  <2>3. CASE ResetWoCommentErrStatus(f) \/ ResetWoCommentErrMail(f) \/
             ResetWoStatusErrStatus(f) \/ ResetWoStatusErrMail(f)
    BY <1>3, <1>14, <1>15, <2>3
    DEF ResetWoCommentErrStatus, ResetWoCommentErrMail, ResetWoStatusErrStatus,
        ResetWoStatusErrMail
  <2>4. CASE ResetNonFinishedMail(f) \/ ResetNonFinishedStatus(f) \/
             ResetDecryptionFailedStatus(f) \/ ResetDecryptionFailedMail(f)
    BY <1>16, <1>17, <2>4
    DEF ResetNonFinishedMail, ResetNonFinishedStatus, ResetDecryptionFailedStatus,
        ResetDecryptionFailedMail
  <2>5. CASE Approved(f)
    BY <1>5, <1>13, <2>5
  <2> QED
    BY <1>18, <2>1, <2>2, <2>3, <2>4, <2>5 DEF ResetStep
<1>19. CASE NewUserStep(f)
  <2>1. CASE NewUserCreateAdid(f) \/ NewUserFetchActivity(f) \/ NewUserAdProcess(f) \/
             NewUserRsUpdate(f)
    BY <1>3, <1>6, <1>7, <1>8, <2>1
    DEF NewUserCreateAdid, NewUserFetchActivity, NewUserAdProcess, NewUserRsUpdate
  <2>2. CASE NewUserNotification(f) \/ NewUserCheckShift(f) \/ NewUserFoMail(f) \/
             NewUserWoComment(f) \/ NewUserWoStatus(f)
    BY <1>3, <1>9, <1>10, <1>11, <1>12, <1>13, <2>2
    DEF NewUserNotification, NewUserCheckShift, NewUserFoMail, NewUserWoComment,
        NewUserWoStatus
  <2>3. CASE NewUserWoCommentErrStatus(f) \/ NewUserWoCommentErrMail(f) \/
             NewUserWoStatusErrStatus(f) \/ NewUserWoStatusErrMail(f)
    BY <1>3, <1>14, <1>15, <2>3
    DEF NewUserWoCommentErrStatus, NewUserWoCommentErrMail, NewUserWoStatusErrStatus,
        NewUserWoStatusErrMail
  <2>4. CASE NewUserNonFinishedMail(f) \/ NewUserNonFinishedStatus(f) \/
             NewUserDecryptionFailedStatus(f) \/ NewUserDecryptionFailedMail(f)
    BY <1>16, <1>17, <2>4
    DEF NewUserNonFinishedMail, NewUserNonFinishedStatus,
        NewUserDecryptionFailedStatus, NewUserDecryptionFailedMail
  <2>5. CASE Approved(f) \/ NewUserInsertUser(f)
    BY <1>5, <1>13, <2>5
  <2> QED
    BY <1>19, <2>1, <2>2, <2>3, <2>4, <2>5 DEF NewUserStep
<1>20. CASE NewServiceStep(f)
  <2>1. CASE NewServiceFetchActivity(f) \/ NewServiceAdProcess(f) \/
             NewServiceRsUpdate(f)
    BY <1>3, <1>6, <1>7, <1>8, <2>1
    DEF NewServiceFetchActivity, NewServiceAdProcess, NewServiceRsUpdate
  <2>2. CASE NewServiceNotification(f) \/ NewServiceCheckShift(f) \/
             NewServiceFoMail(f) \/ NewServiceWoComment(f) \/ NewServiceWoStatus(f)
    BY <1>3, <1>9, <1>10, <1>11, <1>12, <1>13, <2>2
    DEF NewServiceNotification, NewServiceCheckShift, NewServiceFoMail,
        NewServiceWoComment, NewServiceWoStatus
  <2>3. CASE NewServiceWoCommentErrStatus(f) \/ NewServiceWoCommentErrMail(f) \/
             NewServiceWoStatusErrStatus(f) \/ NewServiceWoStatusErrMail(f)
    BY <1>3, <1>14, <1>15, <2>3
    DEF NewServiceWoCommentErrStatus, NewServiceWoCommentErrMail,
        NewServiceWoStatusErrStatus, NewServiceWoStatusErrMail
  <2>4. CASE NewServiceNonFinishedMail(f) \/ NewServiceNonFinishedStatus(f) \/
             NewServiceDecryptionFailedStatus(f) \/ NewServiceDecryptionFailedMail(f)
    BY <1>16, <1>17, <2>4
    DEF NewServiceNonFinishedMail, NewServiceNonFinishedStatus,
        NewServiceDecryptionFailedStatus, NewServiceDecryptionFailedMail
  <2>5. CASE Approved(f)
    BY <1>5, <1>13, <2>5
  <2> QED
    BY <1>20, <2>1, <2>2, <2>3, <2>4, <2>5 DEF NewServiceStep
<1>21. CASE ModifyStep(f)
  <2>1. CASE ModifyFetchActivity(f) \/ ModifyAdProcess(f) \/ ModifyRsUpdate(f)
    BY <1>3, <1>6, <1>7, <1>8, <2>1
    DEF ModifyFetchActivity, ModifyAdProcess, ModifyRsUpdate
  <2>2. CASE ModifyNotification(f) \/ ModifyWoComment(f) \/ ModifyWoStatus(f)
    BY <1>3, <1>9, <1>10, <1>11, <1>12, <1>13, <2>2
    DEF ModifyNotification, ModifyWoComment, ModifyWoStatus
  <2>3. CASE ModifyWoCommentErrStatus(f) \/ ModifyWoCommentErrMail(f) \/
             ModifyWoStatusErrStatus(f) \/ ModifyWoStatusErrMail(f)
    BY <1>3, <1>14, <1>15, <2>3
    DEF ModifyWoCommentErrStatus, ModifyWoCommentErrMail, ModifyWoStatusErrStatus,
        ModifyWoStatusErrMail
  <2>4. CASE ModifyNonFinishedMail(f) \/ ModifyNonFinishedStatus(f)
    BY <1>16, <1>17, <2>4
    DEF ModifyNonFinishedMail, ModifyNonFinishedStatus
  <2>5. CASE Approved(f)
    BY <1>5, <1>13, <2>5
  <2> QED
    BY <1>21, <2>1, <2>2, <2>3, <2>4, <2>5 DEF ModifyStep
<1>22. CASE WaitingStep(f)
  <2>1. \A t, flag, k : ReminderMail(f, t, flag, k) => Started(f)
    BY <1>2, <1>3 DEF ReminderMail, IsDue
  <2>2. \A t : \A u \in Task : Reminds(f, t, u) \/ HandsOver(f, t, u) => Started(f)
    BY <1>2 DEF Reminds, HandsOver
  <2>3. FetchForReminder(f) \/ FetchApprover(f) => Started(f)
    BY <1>2, <1>3 DEF FetchForReminder, FetchApprover, Branched
  <2> QED
    BY <1>3, <1>22, <2>1, <2>2, <2>3
    DEF WaitingStep, ReminderFlag1Mail, ReminderFlag1Update, ReminderFlag2Mail,
        ReminderFlag2Update
<1>23. CASE RejectedStep(f)
  BY <1>2, <1>3, <1>23 DEF RejectedStep, CancelStatus, CancelMail, Branched
<1> QED
  BY <1>4, <1>18, <1>19, <1>20, <1>21, <1>22, <1>23 DEF FlowStep

\* So every step of it is one of its life.
LEMMA WorksGoes ==
  ASSUME NEW c \in Run, Works(c), FlowStep(c)
  PROVE  Goes(c)
<1>1. CASE CheckWo(c, wo)
  BY <1>1, CheckWoGoes
<1>2. CASE WoFailStatus(c) \/ WoFailMail(c)
  BY <1>2, LookingGoes, WoFailGoes
<1>3. CASE WaitingStep(c) \/ RejectedStep(c)
  BY <1>3, WaitsGoes, RejectedGoes
<1>4. CASE kind = "reset" /\ ResetStep(c)
  BY <1>4, ApprovedGoes, FetchesGoes, WorkGoes, CompletesGoes, TellingGoes, ClosesGoes,
     ItsmErrorGoes, LookingGoes, AdMailGoes, AdErrorGoes, GarbledGoes
  DEF ResetStep, ResetFetchActivity, ResetAdProcess, ResetRsUpdate, ResetCheckShift, ResetFoMail,
      ResetWoComment, ResetWoStatus, ResetWoCommentErrStatus, ResetWoCommentErrMail,
      ResetWoStatusErrStatus, ResetWoStatusErrMail, ResetNonFinishedMail,
      ResetNonFinishedStatus, ResetDecryptionFailedStatus, ResetDecryptionFailedMail
<1>5. CASE kind = "new user" /\ NewUserStep(c)
  BY <1>5, ApprovedGoes, FetchesGoes, WorkGoes, CompletesGoes, TellingGoes, ClosesGoes,
     ItsmErrorGoes, LookingGoes, AdMailGoes, AdErrorGoes, GarbledGoes
  DEF NewUserStep, NewUserCreateAdid, NewUserFetchActivity, NewUserAdProcess, NewUserRsUpdate,
      NewUserNotification, NewUserCheckShift, NewUserFoMail, NewUserWoComment,
      NewUserWoStatus, NewUserWoCommentErrStatus, NewUserWoCommentErrMail,
      NewUserWoStatusErrStatus, NewUserWoStatusErrMail, NewUserNonFinishedMail,
      NewUserNonFinishedStatus, NewUserDecryptionFailedStatus, NewUserDecryptionFailedMail
<1>6. CASE kind = "new service" /\ NewServiceStep(c)
  BY <1>6, ApprovedGoes, FetchesGoes, WorkGoes, CompletesGoes, TellingGoes, ClosesGoes,
     ItsmErrorGoes, LookingGoes, AdMailGoes, AdErrorGoes, GarbledGoes
  DEF NewServiceStep, NewServiceFetchActivity, NewServiceAdProcess, NewServiceRsUpdate,
      NewServiceNotification, NewServiceCheckShift, NewServiceFoMail, NewServiceWoComment,
      NewServiceWoStatus, NewServiceWoCommentErrStatus, NewServiceWoCommentErrMail,
      NewServiceWoStatusErrStatus, NewServiceWoStatusErrMail, NewServiceNonFinishedMail,
      NewServiceNonFinishedStatus, NewServiceDecryptionFailedStatus,
      NewServiceDecryptionFailedMail
<1>7. CASE kind = "modify" /\ ModifyStep(c)
  BY <1>7, ApprovedGoes, FetchesGoes, WorkGoes, CompletesGoes, TellingGoes, ClosesGoes,
     ItsmErrorGoes, LookingGoes, AdMailGoes, AdErrorGoes
  DEF ModifyStep, ModifyFetchActivity, ModifyAdProcess, ModifyRsUpdate, ModifyNotification,
      ModifyWoComment, ModifyWoStatus, ModifyWoCommentErrStatus, ModifyWoCommentErrMail,
      ModifyWoStatusErrStatus, ModifyWoStatusErrMail, ModifyNonFinishedMail,
      ModifyNonFinishedStatus
<1> QED
  BY <1>1, <1>2, <1>3, <1>4, <1>5, <1>6, <1>7 DEF FlowStep

\* A run of which nothing changes has what it had, when nothing that is seen
\* changes, and a WO there was is still there.
LEMMA LifeStays ==
  ASSUME NEW c \in Run, Life(c), task'[c] = task[c], xcom'[c] = xcom[c],
         UNCHANGED Seen, wo = "true" => wo' = "true"
  PROVE  Life(c)'
<1>1. UNCHANGED <<kind, status, applied, closed>> /\ Recorded' = Recorded
  BY DEF Seen
<1>2. \A u \in Task : Passed(c, u) => Passed(c, u)' /\ xcom'[c][u] = xcom[c][u]
  BY DEF Passed
<1>3. /\ \A x : Saw(c, x) => Saw(c, x)'
      /\ \A a : Said(c, a) => Said(c, a)'
      /\ \A u : Way(c, u) => Way(c, u)'
      /\ \A s : Stands(c, s) => Stands(c, s)'
  BY <1>1, <1>2, WayStays
<1>4. \A x : Saw(c, x)' => Saw(c, x)
  BY DEF Saw, Handing, Passed
<1>5. OnWay(c)'
  BY <1>3 DEF Life, OnWay, SameWork, Handing, Passed
<1>6. Stands(c, status)'
  <2>1. PICK s : s = status
    OBVIOUS
  <2>2. Stands(c, s)'
    BY <1>3, <2>1 DEF Life
  <2> QED
    BY <1>1, <2>1, <2>2 DEF Stands
<1>7. Outcome' /\ SawRight(c)'
  <2>1. Outcome /\ SawRight(c)
    BY DEF Life, DoneSoFar
  <2>2. Outcome'
    BY <1>1, <2>1 DEF Outcome
  <2>3. SawRight(c)'
    BY <1>1, <1>4, <2>1 DEF SawRight
  <2> QED
    BY <2>2, <2>3
<1>8. DoneSoFar(c)'
  BY <1>1, <1>3, <1>7 DEF Life, DoneSoFar
<1> QED
  BY <1>5, <1>6, <1>8 DEF Life

\* A run that begins has nothing to do with what those before it did, and only
\* begins when the row does not tell of it.
LEMMA BeginsLife ==
  ASSUME IInv, NEW f \in Run, task[f]["check"] = "none", NEW d, Ends(f, "check", d),
         status = "SR Submitted", Outcome, Outcome', UNCHANGED Seen
  PROVE  Life(f)'
<1>1. FlowOK /\ "check" \in Task
  BY DEF IInv, FlowInv, Task
<1>2. ASSUME NEW u \in Task \ {"check"}
      PROVE  task[f][u] = "none"
  BY DEF IInv, FlowInv, Guarded, Guard
<1>3. ASSUME NEW u \in Task \ {"check"}
      PROVE  task'[f][u] = "none"
  <2>1. \A v \in Task \ {"check"} : task'[f][v] = task[f][v]
    BY <1>1, PassedStays
  <2> QED
    BY <1>2, <2>1
<1>4. ASSUME NEW u \in Task \ {"check"}
      PROVE  ~Passed(f, u)'
  BY <1>3 DEF Passed
<1>5. Way(f, "check")'
  BY DEF Way, AfterCompletion, Waits
<1>6. \A e : SameWork(f, "check", e)'
  BY DEF SameWork, AfterCompletion
<1>7. OnWay(f)'
  BY <1>3, <1>4, <1>5, <1>6 DEF OnWay, Handing
<1>8. \A x : ~Saw(f, x)'
  BY <1>4, TaskHas DEF Saw, Handing
<1>9. status' = "SR Submitted" /\ Recorded = {} /\ Recorded' = Recorded
  BY DEF Outcome, Seen
<1>10. Stands(f, status)'
  BY <1>9, StatusIs DEF Stands
<1>11. DoneSoFar(f)'
  BY <1>8, <1>9 DEF DoneSoFar, SawRight
<1> QED
  BY <1>7, <1>10, <1>11 DEF Life

\* A run that looks at the row changes nothing.
LEMMA LookingIsNotSeen ==
  ASSUME NEW f, NEW a, Check(f, a), UNCHANGED kind
  PROVE  UNCHANGED Seen
<1>1. UNCHANGED <<status, written, applied, closed>>
  BY DEF Check, row, ad, itsm
<1> QED
  BY <1>1 DEF Seen, Recorded

\* What the approvers of a request decided can be found by any later run.
LEMMA StartsGoes ==
  ASSUME IInv, LifeInv, kind \in AdKind, UNCHANGED kind, NEW f \in Run, Starts(f)
  PROVE  LifeInv' /\ UNCHANGED Seen
<1>1. PICK a : Check(f, a)
  BY DEF Starts
<1>2. UNCHANGED Seen
  BY <1>1, LookingIsNotSeen
<1>3. UNCHANGED <<kind, status, applied, closed>> /\ Recorded' = Recorded
  BY <1>2 DEF Seen
<1>4. task[f]["check"] = "none" /\ status = "SR Submitted"
  BY <1>1 DEF Check, Starts
<1>5. PICK d : Ends(f, "check", d)
  BY <1>1 DEF Check, Ends
<1>6. wo = "true" => wo' = "true"
  BY DEF Starts, Answers
<1>7. Outcome /\ Outcome'
  BY <1>3, <1>6 DEF LifeInv, Outcome
<1>8. FlowOK /\ "check" \in Task
  BY DEF IInv, FlowInv, Task
<1>9. \A g \in Run \ {f} : task'[g] = task[g] /\ xcom'[g] = xcom[g]
  BY <1>5, <1>8 DEF Ends, Returns, Raises, FlowOK
<1>10. ASSUME NEW c \in Run, Latest(c)'
       PROVE  Life(c)'
  <2>1. CASE c = f
    BY <1>2, <1>4, <1>5, <1>7, <2>1, BeginsLife
  <2>2. CASE c # f
    <3>1. Started(c)
      BY <1>9, <1>10, <2>2 DEF Latest, Started
    <3>2. ASSUME NEW g \in Run, g > c
          PROVE  ~Started(g)
      <4>1. ~Started(g)'
        BY <1>10, <3>2 DEF Latest
      <4>2. CASE g = f
        BY <1>4, <4>2 DEF Started
      <4>3. CASE g # f
        BY <1>9, <4>1, <4>3 DEF Started
      <4> QED
        BY <4>2, <4>3
    <3>3. Life(c)
      BY <3>1, <3>2 DEF Latest, LifeInv
    <3> QED
      BY <1>2, <1>6, <1>9, <2>2, <3>3, LifeStays
  <2> QED
    BY <2>1, <2>2
<1>11. kind' # "awaiting"
  BY <1>3 DEF AdKind
<1> QED
  BY <1>2, <1>7, <1>10, <1>11 DEF LifeInv

\* A request that waits for its requester is given up, or nothing happens to it.
LEMMA AwaitingGoes ==
  ASSUME LifeInv, NEW f \in Run, kind = "awaiting", Step(f)
  PROVE  LifeInv' /\ (Lifecycle!GiveUp \/ UNCHANGED Seen)
<1>1. kind \notin AdKind /\ kind' = kind /\ NothingDone
  BY DEF AdKind, LifeInv, Step
<1>2. /\ applied = {} /\ closed = NoPw /\ Recorded = {}
      /\ status \in {"SR Submitted", "Completed"}
  BY <1>1 DEF NothingDone
<1>3. /\ UNCHANGED <<applied, closed>> /\ Recorded' = Recorded
      /\ status' \in {status, "Completed"}
  <2>1. UNCHANGED row => status' = status /\ Recorded' = Recorded
    BY DEF row, Recorded
  <2>2. ASSUME NEW a, Check(f, a)
        PROVE  UNCHANGED <<status, applied, closed, Recorded>>
    BY <1>1, <2>2, LookingIsNotSeen DEF Seen
  <2>3. ASSUME NEW t, NEW u, HandsOver(f, t, u)
        PROVE  /\ UNCHANGED <<applied, closed>> /\ Recorded' = Recorded
               /\ status' \in {status, "Completed"}
    <3>1. UNCHANGED <<applied, closed>>
      BY <2>3 DEF HandsOver, ad, itsm
    <3>2. UNCHANGED row \/ SetRow(f, "Completed", NoPw, 0)
      BY <2>3 DEF HandsOver, Updates
    <3>3. CASE SetRow(f, "Completed", NoPw, 0)
      <4>1. [run |-> f, status |-> "Completed", pw |-> NoPw].pw = NoPw
        OBVIOUS
      <4> QED
        BY <3>1, <3>3, <4>1, NothingRecorded DEF SetRow
    <3> QED
      BY <2>1, <3>1, <3>2, <3>3
  <2>4. ASSUME NEW t, NEW flag, NEW k, ResponseMail(f, t, flag, k)
        PROVE  UNCHANGED row /\ UNCHANGED <<applied, closed>>
    BY <2>4 DEF ResponseMail, ad, itsm
  <2>5. CASE FetchForResponse(f)
    BY <2>1, <2>5 DEF FetchForResponse, ad, itsm
  <2>6. CASE AwaitingStep(f)
    BY <2>1, <2>3, <2>4, <2>5, <2>6, RemindingIsQuiet
    DEF AwaitingStep, ResponseFlag1Mail, ResponseFlag2Mail, ResponseFlag1Update,
        ResponseFlag2Update
  <2>7. CASE Starts(f)
    BY <2>2, <2>7 DEF Starts
  <2> QED
    BY <1>1, <2>6, <2>7 DEF Step
<1>4. LifeInv'
  BY <1>1, <1>2, <1>3 DEF LifeInv, NothingDone
<1>5. Lifecycle!GiveUp \/ UNCHANGED Seen
  BY <1>1, <1>2, <1>3 DEF Lifecycle!GiveUp, Lifecycle!Becomes, Seen
<1> QED
  BY <1>4, <1>5

\* A step of the run that works on it is seen by the others only as one of its
\* life.
LEMMA FlowGoes ==
  ASSUME IInv, IInv', LifeInv, kind \in AdKind, UNCHANGED <<kind, wo>>,
         NEW f \in Run, Current(f), FlowStep(f)
  PROVE  LifeInv' /\ (Lifecycle!Next \/ UNCHANGED Seen)
<1>1. Latest(f)
  <2>1. kind \notin Overlapping
    BY OverlapAssumption DEF AdKind
  <2> QED
    BY <2>1, WorkIsStarted DEF Current, Latest
<1>2. Works(f)
  BY <1>1 DEF LifeInv, Works
<1>3. Goes(f)
  BY <1>2, WorksGoes
<1>4. ASSUME NEW c \in Run, Latest(c)'
      PROVE  Life(c)'
  <2>1. Latest(c)
    BY <1>3, <1>4 DEF Goes, SameRuns, Latest
  <2>2. c = f
    BY <1>1, <2>1 DEF Latest, Run
  <2> QED
    BY <1>3, <2>2 DEF Goes
<1>5. Outcome' /\ kind' # "awaiting"
  BY <1>3 DEF Goes, Life, DoneSoFar, AdKind
<1> QED
  BY <1>3, <1>4, <1>5 DEF Goes, LifeInv

\* Nothing happens when nothing does.
LEMMA StutterGoes ==
  ASSUME LifeInv, UNCHANGED <<vars, kind, wo>>
  PROVE  LifeInv' /\ UNCHANGED Seen
<1>1. UNCHANGED <<status, written, applied, closed, task, xcom, kind, wo>>
  BY DEF vars, row, ad, itsm, flow
<1>2. UNCHANGED Seen /\ Recorded' = Recorded
  BY <1>1 DEF Seen, Recorded
<1>3. ASSUME NEW c \in Run, Latest(c)', Latest(c) => Life(c)
      PROVE  Life(c)'
  <2>1. Latest(c)
    BY <1>1, <1>3 DEF Latest, Started
  <2> QED
    BY <1>1, <1>2, <1>3, <2>1, LifeStays
<1>4. Outcome => Outcome'
  BY <1>1, <1>2 DEF Outcome
<1>5. NothingDone => NothingDone'
  BY <1>1, <1>2 DEF NothingDone
<1> QED
  BY <1>1, <1>2, <1>3, <1>4, <1>5 DEF LifeInv

\* Every step is one of the life of the request, or is not seen.
LEMMA EveryStepGoes ==
  ASSUME IInv, IInv', LifeInv, [Next]_<<vars, kind, wo>>
  PROVE  LifeInv' /\ (Lifecycle!Next \/ UNCHANGED Seen)
<1>1. ASSUME NEW f \in Run, Step(f)
      PROVE  LifeInv' /\ (Lifecycle!Next \/ UNCHANGED Seen)
  <2>1. CASE kind = "awaiting"
    BY <1>1, <2>1, AwaitingGoes DEF Lifecycle!Next
  <2>2. CASE kind \in AdKind /\ Starts(f)
    BY <1>1, <2>2, StartsGoes DEF Step
  <2>3. CASE kind \in AdKind /\ UNCHANGED wo /\ FlowStep(f)
    BY <1>1, <2>3, FlowGoes DEF Step
  <2>4. kind = "awaiting" \/ kind \in AdKind
    BY DEF IInv, RequestKind
  <2> QED
    BY <1>1, <2>1, <2>2, <2>3, <2>4 DEF Step
<1> QED
  BY <1>1, StutterGoes DEF Next

\* A request begins submitted, and nothing was done for it.
LEMMA InitGoes ==
  ASSUME FlowsInit
  PROVE  LifeInv /\ Lifecycle!Init
<1>1. /\ status = "SR Submitted" /\ applied = {} /\ closed = NoPw /\ written = {}
      /\ \A f \in Run : task[f]["check"] = "none"
  BY DEF FlowsInit, Init, Task
<1>2. Recorded = {}
  BY <1>1 DEF Recorded
<1>3. Outcome /\ NothingDone
  BY <1>1, <1>2 DEF Outcome, NothingDone
<1>4. \A c \in Run : ~Latest(c)
  BY <1>1 DEF Latest, Started
<1> QED
  BY <1>1, <1>2, <1>3, <1>4 DEF LifeInv, Lifecycle!Init

\* Whatever fails, however often its tasks are tried, and however many runs look
\* at it, also after one that could not record what it did: a request is worked
\* on only while it is open, is completed once and with what was done, has its
\* WO closed after that and with the same, and keeps an error for good.
THEOREM LifecycleImplemented == Spec => ImplementsLifecycle
<1>1. FlowsInit => LifeInv /\ Lifecycle!Init
  BY InitGoes
<1>2. IInv /\ IInv' /\ LifeInv /\ [Next]_<<vars, kind, wo>> =>
        LifeInv' /\ [Lifecycle!Next]_<<kind, status, applied, Recorded, closed>>
  BY EveryStepGoes DEF Seen
<1> QED
  BY <1>1, <1>2, Invariance, PTL DEF Spec, ImplementsLifecycle, Lifecycle!Spec

\* A request has one outcome: the row is completed with at most one password,
\* however often the script and the update are tried and runs begin again,
\* which is one that AD was given; and the WO is closed with no other.
THEOREM OneOutcome ==
  Spec => [](kind \in AdKind =>
               /\ \A p, q \in Recorded : p = q
               /\ Recorded \subseteq applied
               /\ closed # NoPw => Recorded = {closed})
<1>1. IInv /\ LifeInv =>
        (kind \in AdKind =>
           /\ \A p, q \in Recorded : p = q
           /\ Recorded \subseteq applied
           /\ closed # NoPw => Recorded = {closed})
  <2> SUFFICES ASSUME IInv, LifeInv, kind \in AdKind
               PROVE  /\ \A p, q \in Recorded : p = q
                      /\ Recorded \subseteq applied
                      /\ closed # NoPw => Recorded = {closed}
    OBVIOUS
  <2>1. Outcome
    BY DEF LifeInv
  <2>2. Recorded \subseteq applied
    BY DEF Recorded, IInv, WorldInv, CompletedIsApplied
  <2> QED
    BY <2>1, <2>2 DEF Outcome
<1>2. FlowsInit => LifeInv
  BY InitGoes
<1>3. IInv /\ IInv' /\ LifeInv /\ [Next]_<<vars, kind, wo>> => LifeInv'
  BY EveryStepGoes
<1> QED
  BY <1>1, <1>2, <1>3, Invariance, PTL DEF Spec
=============================================================================
