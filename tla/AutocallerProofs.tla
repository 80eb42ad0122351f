--------------------------- MODULE AutocallerProofs ---------------------------
(***************************************************************************)
(* Theorems about Autocaller, for any number of alerts, tickets, runs,     *)
(* tries and faults.                                                       *)
(***************************************************************************)
EXTENDS Autocaller, TLAPS

\* A workflow of the alert was triggered by the run.
Called(r, a) == \E c \in children : c.run = r /\ c.alert = a

\* Alerts the run has acknowledged and no failed try has lost.
Kept(r) == taken[r] \ lost[r]

\* Where the alerts that a run keeps are, at each point of it.
Followed ==
  \A r \in Run :
    /\ pc[r] \in {"idle", "fetch", "selected"} => Kept(r) = {}
    /\ pc[r] = "acknowledged" => Kept(r) \subseteq selected[r]
    /\ pc[r] = "trigger" => \A a \in Kept(r) : a \in alerts[r] /\ (a \in todo[r] \/ Called(r, a))
    /\ pc[r] \in {"close", "green"} => \A a \in Kept(r) : Called(r, a)

\* A workflow past its sending task has sent.
SentBySending == step > Sending => sent

\* A run calls only what it took, and takes only what becomes acknowledged.
Owned ==
  \A r \in Run :
    /\ pc[r] = "selected" => selected[r] \subseteq present
    /\ pc[r] = "acknowledged" => selected[r] \subseteq taken[r]
    /\ alerts[r] \subseteq taken[r]
    /\ todo[r] \subseteq alerts[r]
    /\ taken[r] \ padded \subseteq acked
    /\ \A c \in children : c.alert \in taken[c.run]

\* What another run took, while this one had read it, is raced, or was never
\* acknowledged.
Raced ==
  \A r, q \in Run :
    r # q => /\ taken[r] \cap taken[q] \subseteq raced \cup padded
             /\ pc[r] = "selected" => selected[r] \cap taken[q] \subseteq raced \cup padded

-----------------------------------------------------------------------------
\* Init gives every variable a value of its type.
LEMMA InitType == Init => TypeOK
<1> SUFFICES ASSUME Init PROVE TypeOK
  OBVIOUS
<1>1. 0 \in 0 .. MaxTries - 1 /\ 0 \in 0 .. MaxFaults /\ 1 \in 0 .. Green
  BY BoundAssumption, SMT DEF Green
<1>2. children \subseteq Child
  BY Zenon DEF Init
<1> QED
  BY <1>1, <1>2, Zenon DEF Init, TypeOK

\* A try that raises keeps the types.
LEMMA RaiseType ==
  ASSUME TypeOK, NEW r \in Run, Raise(r)
  PROVE  /\ pc' \in [Run -> {"idle", "fetch", "selected", "acknowledged", "trigger", "close",
                             "green", "red"}]
         /\ tries' \in [Run -> 0 .. MaxTries - 1]
         /\ selected' \in [Run -> SUBSET Alert]
         /\ todo' \in [Run -> SUBSET Alert]
  BY BoundAssumption, SMT DEF TypeOK, Raise

\* The workflow that is started is one.
LEMMA StartedType ==
  ASSUME TypeOK, NEW r \in Run, NEW a \in Alert, Started(r, a)
  PROVE  children' \subseteq Child
  BY SMT DEF TypeOK, Started, Child

\* Every step keeps the types.
LEMMA NextType == TypeOK /\ [Next]_vars => TypeOK'
<1> SUFFICES ASSUME TypeOK, [Next]_vars PROVE TypeOK'
  OBVIOUS
<1> USE BoundAssumption
<1>1. CASE UNCHANGED vars
  BY <1>1, SMT DEF vars, netcool, runs, history, flows, TypeOK
<1>2. CASE \E a \in Alert : Arrive(a)
  BY <1>2, SMT DEF Arrive, runs, history, flows, TypeOK
<1>3. ASSUME NEW r \in Run, RunStep(r) PROVE TypeOK'
  <2>1. CASE CreateWorklog(r)
    BY <2>1, SMT DEF CreateWorklog, Done, Goes, netcool, history, flows, TypeOK
  <2>2. CASE Select(r)
    <3>1. Reads \ lacking \subseteq Alert
      BY SMT DEF Reads, TypeOK
    <3> QED
      BY <2>2, <3>1, SMT DEF Select, Done, Goes, netcool, history, flows, TypeOK
  <2>3. CASE Acknowledge(r)
    <3>1. acked' \subseteq present
      BY <2>3, SMT DEF Acknowledge, WithNumber, TypeOK
    <3> QED
      BY <2>3, <3>1, SMT DEF Acknowledge, Goes, flows, TypeOK
  <2>4. CASE PushAlerts(r)
    BY <2>4, SMT DEF PushAlerts, Done, Goes, netcool, history, flows, TypeOK
  <2>5. ASSUME NEW a \in Alert, Trigger(r, a) PROVE TypeOK'
    BY <2>5, StartedType, SMT DEF Trigger, netcool, history, TypeOK
  <2>6. ASSUME NEW a \in Alert, TriggerFails(r, a) PROVE TypeOK'
    <3>1. children' \subseteq Child
      BY <2>6, StartedType, SMT DEF TriggerFails, TypeOK
    <3>2. faults' \in 0 .. MaxFaults
      BY <2>6, SMT DEF TriggerFails, Faulty, TypeOK
    <3> QED
      BY <2>6, <3>1, <3>2, RaiseType, SMT DEF TriggerFails, GiveUp, netcool, history, TypeOK
  <2>7. CASE TriggerDone(r)
    BY <2>7, SMT DEF TriggerDone, Done, Goes, netcool, history, flows, TypeOK
  <2>8. CASE CloseWorklog(r)
    BY <2>8, SMT DEF CloseWorklog, Done, Goes, netcool, history, flows, TypeOK
  <2>9. CASE Break(r)
    <3>1. lost' \in [Run -> SUBSET Alert]
      BY <2>9, SMT DEF Break, TypeOK
    <3> QED
      BY <2>9, <3>1, RaiseType, SMT DEF Break, Faulty, netcool, flows, TypeOK
  <2> QED
    BY <1>3, <2>1, <2>2, <2>3, <2>4, <2>5, <2>6, <2>7, <2>8, <2>9 DEF RunStep
<1>4. CASE ChildTask
  <2>1. sent' \in BOOLEAN
    BY <1>4 DEF ChildTask, Sends
  <2> QED
    BY <1>4, <2>1, SMT DEF ChildTask, Active, Green, netcool, runs, history, TypeOK
<1>5. CASE ChildTaskFails
  <2>1. sent' \in BOOLEAN
    BY <1>5, Zenon DEF ChildTaskFails, Sends, TypeOK
  <2> QED
    BY <1>5, <2>1, SMT DEF ChildTaskFails, Active, Faulty, Green, Red, netcool, runs, history, TypeOK
<1> QED
  BY <1>1, <1>2, <1>3, <1>4, <1>5 DEF Next

\* Every variable keeps the values that the code can give it.
THEOREM TypeCorrect == Spec => []TypeOK
  BY InitType, NextType, PTL DEF Spec

-----------------------------------------------------------------------------
\* What is triggered stays so.
LEMMA CalledStays ==
  ASSUME children \subseteq children', NEW r \in Run, NEW a \in Alert, Called(r, a)
  PROVE  Called(r, a)'
  BY DEF Called

\* The workflow that is started is of the alert.
LEMMA StartedCalls ==
  ASSUME NEW r \in Run, NEW a \in Alert, Started(r, a)
  PROVE  Called(r, a)' /\ children \subseteq children'
<1>1. [run |-> r, alert |-> a, try |-> tries[r]] \in children'
  BY DEF Started
<1> QED
  BY <1>1 DEF Called, Started

IInv == TypeOK /\ Followed /\ SentBySending /\ Owned /\ Raced

\* The history of the runs is empty at the start.
LEMMA InitInv == Init => IInv
<1> SUFFICES ASSUME Init PROVE IInv
  OBVIOUS
<1>1. TypeOK
  BY InitType
<1>2. Followed
  BY Zenon DEF Init, Followed, Kept
<1>3. SentBySending
  BY SMT DEF Init, SentBySending, Sending
<1>4. Owned /\ Raced
  BY Zenon DEF Init, Owned, Raced
<1> QED
  BY <1>1, <1>2, <1>3, <1>4 DEF IInv

\* What a run has to call when its try raises.
LEMMA RaiseWhere ==
  ASSUME TypeOK, NEW r \in Run, Raise(r)
  PROVE  /\ \A q \in Run \ {r} : pc'[q] = pc[q] /\ selected'[q] = selected[q] /\ todo'[q] = todo[q]
         /\ selected'[r] = {}
         /\ pc'[r] \in {"red", pc[r]} \/ (pc[r] \in {"selected", "acknowledged"} /\ pc'[r] = "fetch")
         /\ pc'[r] = "trigger" => pc[r] = "trigger" /\ todo'[r] = alerts[r]
         /\ todo'[r] = {} \/ todo'[r] = alerts[r]
         /\ pc'[r] \notin {"selected", "acknowledged"}
  BY SMT DEF TypeOK, Raise

\* A step keeps track of the alerts that a run keeps.
LEMMA NextFollowed == IInv /\ TypeOK' /\ [Next]_vars => Followed'
<1> SUFFICES ASSUME IInv, TypeOK', [Next]_vars PROVE Followed'
  OBVIOUS
<1> USE DEF IInv
<1>1. CASE UNCHANGED <<runs, history, children>>
  BY <1>1, SMT DEF runs, history, Followed, Kept, Called
<1>2. ASSUME NEW r \in Run, RunStep(r) PROVE Followed'
  <2>1. CASE CreateWorklog(r)
    BY <2>1, SMT DEF CreateWorklog, Done, Goes, history, flows, Followed, Kept, Called, TypeOK
  <2>2. CASE Select(r)
    BY <2>2, SMT DEF Select, Done, Goes, history, flows, Followed, Kept, Called, TypeOK
  <2>3. CASE Acknowledge(r)
    BY <2>3, SMT DEF Acknowledge, Goes, flows, Followed, Kept, Called, TypeOK
  <2>4. CASE PushAlerts(r)
    BY <2>4, SMT DEF PushAlerts, Done, Goes, history, flows, Followed, Kept, Called, TypeOK
  <2>5. ASSUME NEW a \in Alert, Trigger(r, a) PROVE Followed'
    <3>1. Called(r, a)' /\ children \subseteq children'
      BY <2>5, StartedCalls DEF Trigger
    <3>2. \A q \in Run, b \in Alert : Called(q, b) => Called(q, b)'
      BY <3>1, CalledStays
    <3>3. \A q \in Run : Kept(q) \subseteq Alert /\ Kept(q)' = Kept(q)
      BY <2>5, SMT DEF Trigger, history, Kept, TypeOK
    <3>4. /\ \A b \in alerts[r] \ {a} : b \in todo[r] => b \in todo'[r]
          /\ \A q \in Run \ {r} : todo'[q] = todo[q]
      BY <2>5, SMT DEF Trigger, TypeOK
    <3> HIDE DEF Called, Kept
    <3> QED
      BY <2>5, <3>1, <3>2, <3>3, <3>4, SMT DEF Trigger, Followed
  <2>6. ASSUME NEW a \in Alert, TriggerFails(r, a) PROVE Followed'
    <3>1. children \subseteq children'
      BY <2>6, StartedCalls DEF TriggerFails
    <3>2. \A q \in Run, b \in Alert : Called(q, b) => Called(q, b)'
      BY <3>1, CalledStays
    <3>3. \A q \in Run : Kept(q) \subseteq Alert /\ Kept(q)' = Kept(q)
      BY <2>6, SMT DEF TriggerFails, history, Kept, TypeOK
    <3>4. pc[r] = "trigger" /\ Raise(r) /\ alerts' = alerts
      BY <2>6 DEF TriggerFails, GiveUp
    <3> HIDE DEF Called, Kept
    <3> QED
      BY <3>2, <3>3, <3>4, RaiseWhere, SMT DEF Followed
  <2>7. CASE TriggerDone(r)
    BY <2>7, SMT DEF TriggerDone, Done, Goes, history, flows, Followed, Kept, Called, TypeOK
  <2>8. CASE CloseWorklog(r)
    BY <2>8, SMT DEF CloseWorklog, Done, Goes, history, flows, Followed, Kept, Called, TypeOK
  <2>9. CASE Break(r)
    <3>1. Raise(r) /\ UNCHANGED <<alerts, taken, children>>
      BY <2>9 DEF Break, flows
    <3>2. \A q \in Run, b \in Alert : Called(q, b) => Called(q, b)'
      BY <3>1 DEF Called
    <3>3. /\ \A q \in Run : Kept(q) \subseteq Alert /\ Kept(q)' \subseteq Kept(q)
          /\ pc[r] = "acknowledged" => Kept(r)' = {}
      BY <2>9, <3>1, SMT DEF Break, Kept, Followed, TypeOK
    <3> HIDE DEF Called, Kept
    <3> QED
      BY <3>1, <3>2, <3>3, RaiseWhere, SMT DEF Followed
  <2> QED
    BY <1>2, <2>1, <2>2, <2>3, <2>4, <2>5, <2>6, <2>7, <2>8, <2>9 DEF RunStep
<1>3. ASSUME NEW a \in Alert, Arrive(a) PROVE Followed'
  BY <1>1, <1>3, Zenon DEF Arrive, flows
<1>4. CASE ChildTask \/ ChildTaskFails
  BY <1>1, <1>4, Zenon DEF ChildTask, ChildTaskFails
<1>5. CASE UNCHANGED vars
  BY <1>1, <1>5, Zenon DEF vars, flows
<1> QED
  BY <1>2, <1>3, <1>4, <1>5 DEF Next

\* A step of a workflow goes past its sending task only when it has sent.
LEMMA NextSent == IInv /\ [Next]_vars => SentBySending'
<1> SUFFICES ASSUME IInv, [Next]_vars PROVE SentBySending'
  OBVIOUS
<1>1. CASE UNCHANGED <<step, sent>>
  BY <1>1 DEF IInv, SentBySending
<1>2. CASE ChildTask
  <2>1. sent \/ step = Sending => sent'
    BY <1>2 DEF ChildTask, Sends
  <2>2. step' > Sending => step = Sending \/ step > Sending
    BY <1>2, SMT DEF ChildTask, Active, Sending, Green
  <2> QED
    BY <2>1, <2>2, Zenon DEF IInv, SentBySending
<1>3. CASE ChildTaskFails
  <2>1. sent => sent'
    BY <1>3, Zenon DEF ChildTaskFails, Sends
  <2>2. step' > Sending => step > Sending
    BY <1>3, SMT DEF ChildTaskFails, Sending, Red
  <2> QED
    BY <2>1, <2>2, Zenon DEF IInv, SentBySending
<1>4. ASSUME NEW a \in Alert, Arrive(a) PROVE SentBySending'
  BY <1>1, <1>4, Zenon DEF Arrive, flows
<1>5. ASSUME NEW r \in Run, RunStep(r) PROVE SentBySending'
  BY <1>1, <1>5, Zenon DEF RunStep, CreateWorklog, Select, Acknowledge, PushAlerts, Trigger,
     TriggerFails, TriggerDone, CloseWorklog, Break, flows
<1>6. CASE UNCHANGED vars
  BY <1>1, <1>6, Zenon DEF vars, flows
<1> QED
  BY <1>2, <1>3, <1>4, <1>5, <1>6 DEF Next

\* A step that leaves what Owned is about alone keeps it.
LEMMA OwnedStays ==
  ASSUME IInv, UNCHANGED <<pc, selected, alerts, todo, taken, padded, acked, children>>,
         present \subseteq present'
  PROVE  Owned'
  BY SMT DEF IInv, Owned

\* A step keeps what a run calls among what it took.
LEMMA NextOwned == IInv /\ TypeOK' /\ [Next]_vars => Owned'
<1> SUFFICES ASSUME IInv, TypeOK', [Next]_vars PROVE Owned'
  OBVIOUS
<1> USE DEF IInv
<1>1. ASSUME NEW a \in Alert, Arrive(a) PROVE Owned'
  BY <1>1, OwnedStays, SMT DEF Arrive, runs, history, flows
<1>2. ASSUME NEW r \in Run, RunStep(r) PROVE Owned'
  <2>1. CASE CreateWorklog(r)
    BY <2>1, SMT DEF CreateWorklog, Done, Goes, netcool, history, flows, Owned, TypeOK
  <2>2. CASE Select(r)
    <3>1. Reads \subseteq present
      BY DEF Reads
    <3> QED
      BY <2>2, <3>1, SMT DEF Select, Done, Goes, netcool, history, flows, Owned, TypeOK
  <2>3. CASE Acknowledge(r)
    <3>1. acked \cup (selected[r] \ padded) \subseteq acked'
      BY <2>3, SMT DEF Acknowledge, WithNumber, Goes, Owned
    <3>2. /\ taken'[r] = taken[r] \cup selected[r]
          /\ \A q \in Run \ {r} : taken'[q] = taken[q]
      BY <2>3, SMT DEF Acknowledge, TypeOK
    <3> QED
      BY <2>3, <3>1, <3>2, SMT DEF Acknowledge, Goes, flows, Owned, TypeOK
  <2>4. CASE PushAlerts(r)
    BY <2>4, SMT DEF PushAlerts, Done, Goes, netcool, history, flows, Owned, TypeOK
  <2>5. ASSUME NEW a \in Alert, Trigger(r, a) PROVE Owned'
    <3>1. \A c \in children' : c.alert \in taken'[c.run]
      BY <2>5, SMT DEF Trigger, Started, history, Owned, TypeOK
    <3> QED
      BY <2>5, <3>1, SMT DEF Trigger, netcool, history, Owned, TypeOK
  <2>6. ASSUME NEW a \in Alert, TriggerFails(r, a) PROVE Owned'
    <3>1. \A c \in children' : c.alert \in taken'[c.run]
      BY <2>6, SMT DEF TriggerFails, Started, history, Owned, TypeOK
    <3>2. Raise(r) /\ UNCHANGED <<present, padded, acked, alerts, taken>>
      BY <2>6 DEF TriggerFails, GiveUp, netcool, history
    <3> QED
      BY <3>1, <3>2, RaiseWhere, SMT DEF Owned
  <2>7. CASE TriggerDone(r)
    BY <2>7, SMT DEF TriggerDone, Done, Goes, netcool, history, flows, Owned, TypeOK
  <2>8. CASE CloseWorklog(r)
    BY <2>8, SMT DEF CloseWorklog, Done, Goes, netcool, history, flows, Owned, TypeOK
  <2>9. CASE Break(r)
    <3>1. Raise(r) /\ UNCHANGED <<present, padded, acked, alerts, taken, children>>
      BY <2>9 DEF Break, netcool, flows
    <3> QED
      BY <3>1, RaiseWhere, SMT DEF Owned
  <2> QED
    BY <1>2, <2>1, <2>2, <2>3, <2>4, <2>5, <2>6, <2>7, <2>8, <2>9 DEF RunStep
<1>3. CASE ChildTask \/ ChildTaskFails
  BY <1>3, OwnedStays, SMT DEF ChildTask, ChildTaskFails, netcool, runs, history
<1>4. CASE UNCHANGED vars
  BY <1>4, OwnedStays, SMT DEF vars, netcool, runs, history, flows
<1> QED
  BY <1>1, <1>2, <1>3, <1>4 DEF Next

\* A step that takes nothing, and has no run select, leaves Raced alone.
LEMMA RacedStays ==
  ASSUME IInv, UNCHANGED <<taken, padded, raced>>,
         \A q \in Run : pc'[q] = "selected" => pc[q] = "selected" /\ selected'[q] = selected[q]
  PROVE  Raced'
  BY SMT DEF IInv, Raced

\* Two runs take an alert only if both had read it.
LEMMA NextRaced == IInv /\ TypeOK' /\ [Next]_vars => Raced'
<1> SUFFICES ASSUME IInv, TypeOK', [Next]_vars PROVE Raced'
  OBVIOUS
<1> USE DEF IInv
<1>1. CASE UNCHANGED <<padded, runs, history>>
  BY <1>1, RacedStays, SMT DEF runs, history
<1>2. ASSUME NEW r \in Run, RunStep(r) PROVE Raced'
  <2>1. CASE CreateWorklog(r)
    BY <2>1, RacedStays, SMT DEF CreateWorklog, Done, Goes, netcool, history, TypeOK
  <2>2. CASE Select(r)
    <3>1. \A q \in Run : Reads \cap taken[q] \subseteq padded
      BY SMT DEF Reads, Owned
    <3>2. pc'[r] = "selected" => selected'[r] \subseteq Reads
      BY <2>2, SMT DEF Select, Done, Goes, TypeOK
    <3>3. /\ \A q \in Run \ {r} : pc'[q] = pc[q] /\ selected'[q] = selected[q]
          /\ UNCHANGED <<taken, padded, raced>>
      BY <2>2, SMT DEF Select, Done, Goes, netcool, history, TypeOK
    <3> QED
      BY <3>1, <3>2, <3>3, SMT DEF Raced
  <2>3. CASE Acknowledge(r)
    <3>1. /\ taken'[r] = taken[r] \cup selected[r]
          /\ \A q \in Run \ {r} : taken'[q] = taken[q]
      BY <2>3, SMT DEF Acknowledge, TypeOK
    <3>2. /\ pc[r] = "selected" /\ pc'[r] = "acknowledged"
          /\ \A q \in Run \ {r} : pc'[q] = pc[q]
          /\ UNCHANGED <<selected, padded>>
      BY <2>3, SMT DEF Acknowledge, Goes, TypeOK
    <3>3. /\ raced \subseteq raced'
          /\ \A q \in Run \ {r} : pc[q] = "selected" => selected[r] \cap selected[q] \subseteq raced'
      BY <2>3, SMT DEF Acknowledge
    <3> QED
      BY <3>1, <3>2, <3>3, SMT DEF Raced
  <2>4. CASE PushAlerts(r)
    BY <2>4, RacedStays, SMT DEF PushAlerts, Done, Goes, netcool, history, TypeOK
  <2>5. ASSUME NEW a \in Alert, Trigger(r, a) PROVE Raced'
    BY <2>5, RacedStays, SMT DEF Trigger, netcool, history
  <2>6. ASSUME NEW a \in Alert, TriggerFails(r, a) PROVE Raced'
    <3>1. Raise(r) /\ UNCHANGED <<taken, padded, raced>>
      BY <2>6 DEF TriggerFails, GiveUp, netcool, history
    <3> QED
      BY <3>1, RaiseWhere, RacedStays, SMT
  <2>7. CASE TriggerDone(r)
    BY <2>7, RacedStays, SMT DEF TriggerDone, Done, Goes, netcool, history, TypeOK
  <2>8. CASE CloseWorklog(r)
    BY <2>8, RacedStays, SMT DEF CloseWorklog, Done, Goes, netcool, history, TypeOK
  <2>9. CASE Break(r)
    <3>1. Raise(r) /\ UNCHANGED <<taken, padded, raced>>
      BY <2>9 DEF Break, netcool
    <3> QED
      BY <3>1, RaiseWhere, RacedStays, SMT
  <2> QED
    BY <1>2, <2>1, <2>2, <2>3, <2>4, <2>5, <2>6, <2>7, <2>8, <2>9 DEF RunStep
<1>3. ASSUME NEW a \in Alert, Arrive(a) PROVE Raced'
  BY <1>1, <1>3, Zenon DEF Arrive
<1>4. CASE ChildTask \/ ChildTaskFails
  BY <1>1, <1>4, Zenon DEF ChildTask, ChildTaskFails, netcool
<1>5. CASE UNCHANGED vars
  BY <1>1, <1>5, Zenon DEF vars, netcool
<1> QED
  BY <1>2, <1>3, <1>4, <1>5 DEF Next

-----------------------------------------------------------------------------
\* The invariant holds at every point of every behaviour.
LEMMA InvHolds == Spec => []IInv
<1>1. IInv /\ [Next]_vars => IInv'
  <2> SUFFICES ASSUME IInv, [Next]_vars PROVE IInv'
    OBVIOUS
  <2>1. TypeOK'
    BY NextType DEF IInv
  <2> QED
    BY <2>1, NextFollowed, NextSent, NextOwned, NextRaced DEF IInv
<1> QED
  BY <1>1, InitInv, PTL DEF Spec

\* A green run has called for each alert that it acknowledged and did not lose
\* between the commit and the push; a green workflow has sent its mail.
THEOREM GreenCalls == Spec => []GreenIsCalled
<1>1. IInv => GreenIsCalled
  BY SMT DEF IInv, Followed, SentBySending, GreenIsCalled, Kept, Called, Green, Sending
<1> QED
  BY <1>1, InvHolds, PTL

\* Two runs call for one alert only if the second had read it when the first
\* acknowledged it, or its ticket number has blanks around it.
THEOREM CallsOnce == Spec => []CalledOnce
<1>1. IInv => CalledOnce
  <2> SUFFICES ASSUME IInv, NEW c \in children, NEW d \in children,
                      c.alert = d.alert, c.run # d.run
               PROVE  c.alert \in raced \cup padded
    BY DEF CalledOnce
  <2>1. c.run \in Run /\ d.run \in Run
    BY DEF IInv, TypeOK, Child
  <2>2. c.alert \in taken[c.run] /\ c.alert \in taken[d.run]
    BY <2>1 DEF IInv, Owned
  <2> QED
    BY <2>1, <2>2 DEF IInv, Raced
<1> QED
  BY <1>1, InvHolds, PTL
===============================================================================
