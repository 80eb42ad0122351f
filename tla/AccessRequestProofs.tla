-------------------------- MODULE AccessRequestProofs --------------------------
(***************************************************************************)
(* What the tasks of every access-management flow keep.  That a row tracks *)
(* a real SR is not inductive: the number a task writes to the row comes   *)
(* from the XCom of the task before it, so that the XCom must be Sound: it *)
(* names only SRs that exist, of a run whose request is settled.           *)
(* RowsWritten says that a row has a verdict only as some run wrote it,    *)
(* with its number, and that the request of that run is settled.           *)
(***************************************************************************)
EXTENDS AccessRequest, TLAPS

\* Data that a task of f may hand on.
SoundData(f, d) ==
  /\ d # NoData => task[f]["intake"] = "success" /\ about[f] \in Request
  /\ d.sr > 0 => SrOf(f, d.sr) \subseteq srs

Sound == \A f \in Run, t \in Task : SoundData(f, xcom[f][t])

\* The row of request q is as a run about it wrote it, or as an email left it.
RowIsWritten(q) ==
  \/ status[q] \in {"absent", "Data Inserted", "Data updated"}
  \/ \E w \in written : /\ about[w.run] = q
                        /\ w.status = status[q]
                        /\ w.sr = srNo[q]

RowsWritten ==
  /\ \A w \in written : w.run \in Run /\ task[w.run]["intake"] = "success"
  /\ \A q \in Request : RowIsWritten(q)

Bounded == \A f \in Run, t \in Task : task[f][t] = "none" => tries[f][t] < MaxTries

FlowInv == FlowOK /\ Bounded /\ Sound
Inv == TypeOK /\ Bounded /\ Sound /\ RowsWritten

\* Task t of f, not the first, is tried: it hands on data that are sound when
\* it is over.
Moves(f, t) ==
  /\ t \in Task \ {"intake"}
  /\ task[f][t] = "none"
  /\ \E d \in Data \cup {NoData} :
       /\ d # NoData => task[f]["intake"] = "success" /\ about[f] \in Request
       /\ d.sr > 0 => SrOf(f, d.sr) \subseteq srs'
       /\ Returns(f, t, d) \/ Raises(f, t, d)

\* What a try of a task does to the bookkeeping of Airflow, whichever way it
\* ends.
LEMMA TryIsTyped ==
  ASSUME FlowOK, Bounded, NEW f \in Run, NEW t \in Task, task[f][t] = "none",
         NEW d \in Data \cup {NoData}, Returns(f, t, d) \/ Raises(f, t, d)
  PROVE  FlowOK' /\ Bounded'
<1> USE DEF FlowOK, Bounded
<1>1. {0, tries[f][t] + 1} \subseteq 0 .. MaxTries
  BY TriesAssumption
<1>2. \/ tries' = [tries EXCEPT ![f][t] = @ + 1]
     \/ tries' = [tries EXCEPT ![f][t] = 0]
  BY DEF Returns, Raises
<1>3. tries' \in [Run -> [Task -> 0 .. MaxTries]]
  <2>1. CASE tries' = [tries EXCEPT ![f][t] = @ + 1]
    BY <1>1, <2>1
  <2>2. CASE tries' = [tries EXCEPT ![f][t] = 0]
    BY <1>1, <2>2
  <2> QED
    BY <1>2, <2>1, <2>2
<1>4. CASE Returns(f, t, d)
  <2>1. task' \in [Run -> [Task -> {"none", "success", "failed"}]]
    BY <1>4 DEF Returns
  <2>2. xcom' \in [Run -> [Task -> Data \cup {NoData}]]
    BY <1>4 DEF Returns
  <2>3. Bounded'
    BY <1>4, <1>2 DEF Returns
  <2> QED
    BY <1>3, <2>1, <2>2, <2>3
<1>5. CASE Raises(f, t, d)
  <2>1. task' \in [Run -> [Task -> {"none", "success", "failed"}]]
    <3>1. CASE task' = task
      BY <3>1
    <3>2. CASE task' = [task EXCEPT ![f][t] = "failed"]
      BY <3>2
    <3> QED
      BY <1>5, <3>1, <3>2 DEF Raises
  <2>2. xcom' \in [Run -> [Task -> Data \cup {NoData}]]
    <3>1. CASE xcom' = xcom
      BY <3>1
    <3>2. CASE xcom' = [xcom EXCEPT ![f][t] = d]
      BY <3>2
    <3> QED
      BY <1>5, <3>1, <3>2 DEF Raises
  <2>3. Bounded'
    <3>1. CASE /\ tries[f][t] + 1 < MaxTries
               /\ tries' = [tries EXCEPT ![f][t] = @ + 1]
               /\ task' = task
      BY <3>1, TriesAssumption
    <3>2. CASE /\ tries' = [tries EXCEPT ![f][t] = 0]
               /\ task' = [task EXCEPT ![f][t] = "failed"]
      BY <3>2
    <3> QED
      BY <1>5, <3>1, <3>2 DEF Raises
  <2> QED
    BY <1>3, <2>1, <2>2, <2>3
<1> QED
  BY <1>4, <1>5

\* A task that moves keeps the XComs sound, and the run's first task ended.
LEMMA MoveIsSound ==
  ASSUME FlowInv, NEW f \in Run, NEW t, Moves(f, t),
         UNCHANGED about, srs \subseteq srs'
  PROVE  /\ FlowInv'
         /\ \A g \in Run : task'[g]["intake"] = task[g]["intake"]
<1> USE DEF FlowInv
<1>1. t \in Task \ {"intake"} /\ task[f][t] = "none"
  BY DEF Moves
<1>2. PICK d \in Data \cup {NoData} :
        /\ d # NoData => task[f]["intake"] = "success" /\ about[f] \in Request
        /\ d.sr > 0 => SrOf(f, d.sr) \subseteq srs'
        /\ Returns(f, t, d) \/ Raises(f, t, d)
  BY DEF Moves
<1>3. FlowOK' /\ Bounded'
  BY <1>1, <1>2, TryIsTyped
<1>4. \A g \in Run : task'[g]["intake"] = task[g]["intake"]
  BY <1>1, <1>2 DEF Returns, Raises, FlowOK, Task
<1>5. \A g \in Run, u \in Task :
        xcom'[g][u] = xcom[g][u] \/ (g = f /\ xcom'[g][u] = d)
  BY <1>1, <1>2 DEF Returns, Raises, FlowOK
<1>6. ASSUME NEW g \in Run, NEW u \in Task
      PROVE  SoundData(g, xcom[g][u])'
  <2>1. SoundData(g, xcom[g][u])
    BY DEF Sound
  <2>2. CASE xcom'[g][u] = xcom[g][u]
    BY <1>4, <2>1, <2>2 DEF SoundData
  <2>3. CASE g = f /\ xcom'[g][u] = d
    BY <1>2, <1>4, <2>3 DEF SoundData
  <2> QED
    BY <1>5, <2>2, <2>3
<1> QED
  BY <1>3, <1>4, <1>6 DEF Sound

\* An update of the row leaves it as its run wrote it.
LEMMA RowIsSet ==
  ASSUME RowOK, RowsWritten, NEW f \in Run, about[f] \in Request,
         task[f]["intake"] = "success", NEW s \in Status,
         NEW n \in SUBSET (SR \cup {Foreign}), SetRow(f, s, n), UNCHANGED about,
         \A g \in Run : task'[g]["intake"] = task[g]["intake"]
  PROVE  RowOK' /\ RowsWritten'
<1> DEFINE w == [run |-> f, status |-> s, sr |-> n]
<1>1. status' \in [Request -> Status]
  BY DEF SetRow, RowOK
<1>2. srNo' \in [Request -> SUBSET (SR \cup {Foreign})]
  BY DEF SetRow, RowOK
<1>3. written' = written \cup {w}
  BY DEF SetRow
<1>4. \A v \in written' : v.run \in Run /\ task'[v.run]["intake"] = "success"
  BY <1>3 DEF RowsWritten
<1>5. ASSUME NEW q \in Request
      PROVE  RowIsWritten(q)'
  <2>1. RowIsWritten(q)
    BY DEF RowsWritten
  <2>2. CASE q = about[f] /\ status[q] # "absent"
    <3>1. status'[q] = s /\ srNo'[q] = n
      BY <2>2 DEF SetRow, RowOK
    <3>2. w \in written' /\ about'[w.run] = q /\ w.status = s /\ w.sr = n
      BY <1>3, <2>2
    <3> QED
      BY <3>1, <3>2 DEF RowIsWritten
  <2>3. CASE ~(q = about[f] /\ status[q] # "absent")
    <3>1. status'[q] = status[q] /\ srNo'[q] = srNo[q]
      BY <2>3 DEF SetRow, RowOK
    <3> QED
      BY <1>3, <2>1, <3>1 DEF RowIsWritten
  <2> QED
    BY <2>2, <2>3
<1> QED
  BY <1>1, <1>2, <1>4, <1>5 DEF RowOK, RowsWritten

\* A step that leaves the rows keeps what is known of them.
LEMMA RowStays ==
  ASSUME RowOK, RowsWritten, UNCHANGED <<row, about>>,
         \A g \in Run : task'[g]["intake"] = task[g]["intake"]
  PROVE  RowOK' /\ RowsWritten'
<1>1. RowOK'
  BY DEF RowOK, row
<1>2. \A q \in Request : RowIsWritten(q)'
  BY DEF RowsWritten, RowIsWritten, row
<1>3. \A w \in written' : w.run \in Run /\ task'[w.run]["intake"] = "success"
  BY DEF RowsWritten, row
<1> QED
  BY <1>1, <1>2, <1>3 DEF RowsWritten

\* The rest of the invariant, over a step that leaves the rows or sets them
\* as above.
LEMMA StepKeeps ==
  ASSUME Inv, NEW f \in Run, NEW t, Moves(f, t), UNCHANGED about,
         srs \subseteq srs', WorldOK',
         \/ UNCHANGED row
         \/ /\ about[f] \in Request /\ task[f]["intake"] = "success"
            /\ \E s \in Status, n \in SUBSET (SR \cup {Foreign}) : SetRow(f, s, n)
  PROVE  Inv'
<1>1. FlowInv' /\ \A g \in Run : task'[g]["intake"] = task[g]["intake"]
  BY MoveIsSound DEF Inv, FlowInv, TypeOK
<1>2. RowOK' /\ RowsWritten'
  BY <1>1, RowStays, RowIsSet DEF Inv, TypeOK
<1> QED
  BY <1>1, <1>2 DEF Inv, FlowInv, TypeOK

-----------------------------------------------------------------------------
(* The shapes of a task                                                    *)

Ends(f, t, d) == Returns(f, t, d) \/ Raises(f, t, d)

\* What a task without data pushed carries no SR number: it is sound.
LEMMA NoDataHasNoNumber ==
  /\ NoData.sr = 0
  /\ NoData \notin Data
  /\ \A f \in Run : SoundData(f, NoData)
<1>1. NoData.sr = 0
  BY DEF NoData, NoResult
<1>2. NoData \notin Data
  <2>1. NoData.ad = "no data"
    BY DEF NoData
  <2>2. \A d \in Data : d.ad \in AdAnswer \cup {"not asked", "unnamed"}
    BY DEF Data
  <2> QED
    BY <2>1, <2>2 DEF AdAnswer
<1> QED
  BY <1>1, <1>2 DEF SoundData

\* Whichever way a try ends, it pushes its data or nothing.
LEMMA EndMoves ==
  ASSUME Inv, NEW f \in Run, NEW t \in Task \ {"intake"}, task[f][t] = "none",
         NEW d \in Data \cup {NoData}, SoundData(f, d),
         Ends(f, t, d) \/ Ends(f, t, NoData), srs \subseteq srs'
  PROVE  Moves(f, t)
<1>1. CASE Ends(f, t, d)
  BY <1>1 DEF Moves, Ends, SoundData
<1>2. CASE Ends(f, t, NoData)
  BY <1>2, NoDataHasNoNumber DEF Moves, Ends
<1> QED
  BY <1>1, <1>2

\* A task that does nothing but hand on d.
LEMMA IdleKeeps ==
  ASSUME Inv, NEW f \in Run, NEW t \in Task \ {"intake"}, task[f][t] = "none",
         NEW d \in Data \cup {NoData}, SoundData(f, d),
         Ends(f, t, d) \/ Ends(f, t, NoData), UNCHANGED <<row, world, about>>
  PROVE  Inv'
<1>1. Moves(f, t)
  BY EndMoves DEF world
<1>2. WorldOK'
  BY DEF Inv, TypeOK, WorldOK, world
<1> QED
  BY <1>1, <1>2, StepKeeps DEF world

\* A task that may set the row of its request.
LEMMA UpdatesKeeps ==
  ASSUME Inv, NEW f \in Run, NEW t \in Task \ {"intake"}, task[f][t] = "none",
         NEW d \in Data, SoundData(f, d), NEW s \in Status,
         NEW n \in SUBSET (SR \cup {Foreign}), NEW how,
         Updates(f, t, d, s, n, how), UNCHANGED <<world, about>>
  PROVE  Inv'
<1>1. Ends(f, t, d) \/ Ends(f, t, NoData)
  BY DEF Updates, Ends, Fails, Breaks
<1>2. Moves(f, t)
  BY <1>1, EndMoves DEF world
<1>3. d # NoData
  BY NoDataHasNoNumber
<1>4. about[f] \in Request /\ task[f]["intake"] = "success"
  BY <1>3 DEF SoundData
<1>5. WorldOK'
  BY DEF Inv, TypeOK, WorldOK, world
<1> QED
  BY <1>2, <1>4, <1>5, StepKeeps DEF world, Updates

\* A task that may send a mail.
LEMMA SendsKeeps ==
  ASSUME Inv, NEW f \in Run, NEW t \in Task \ {"intake"}, task[f][t] = "none",
         NEW d \in Data \cup {NoData}, SoundData(f, d),
         NEW kind \in MailKind, NEW n \in SUBSET SR, NEW how,
         Sends(f, t, d, kind, n, how), UNCHANGED <<row, srs, noted, about>>
  PROVE  Inv'
<1>1. Ends(f, t, d) \/ Ends(f, t, NoData)
  BY DEF Sends, Fails, Ends, Breaks
<1>2. Moves(f, t)
  BY <1>1, EndMoves
<1>3. WorldOK'
  BY DEF Inv, TypeOK, WorldOK, Sends
<1> QED
  BY <1>2, <1>3, StepKeeps

\* What a task pulls from the XCom is sound.
LEMMA PulledIsSound ==
  ASSUME Inv, NEW f \in Run, NEW u \in Task
  PROVE  /\ xcom[f][u] \in Data \cup {NoData}
         /\ SoundData(f, xcom[f][u])
         /\ SoundData(f, NoData)
BY NoDataHasNoNumber DEF Inv, TypeOK, FlowOK, Sound

-----------------------------------------------------------------------------
(* The tasks all flows have                                                *)

\* The branch operator changes nothing but its own end.
LEMMA BranchKeeps ==
  ASSUME Inv, NEW f \in Run, Branch(f)
  PROVE  Inv'
<1>1. "branch" \in Task \ {"intake"} /\ task[f]["branch"] = "none"
  BY DEF Branch, Follows, Task
<1>2. Ends(f, "branch", NoData)
  BY DEF Branch, Ends
<1> QED
  BY <1>1, <1>2, PulledIsSound, IdleKeeps DEF Branch

\* A task that reads the row changes nothing but its own end.
LEMMA ReadsKeeps ==
  ASSUME Inv, NEW f \in Run, NEW t \in Task \ {"intake"}, task[f][t] = "none",
         NEW u \in Task, ReadsFrom(f, t, u), UNCHANGED <<row, world, about>>
  PROVE  Inv'
<1>1. Ends(f, t, xcom[f][u]) \/ Ends(f, t, NoData)
  BY DEF ReadsFrom, Ends, Breaks
<1> QED
  BY <1>1, PulledIsSound, IdleKeeps

\* The AD check adds its answer to what it hands on.
LEMMA AsksKeeps ==
  ASSUME Inv, NEW f \in Run, NEW t \in Task \ {"intake"}, task[f][t] = "none",
         NEW answers \in SUBSET AdAnswer, Asks(f, t, answers),
         UNCHANGED <<row, world, about>>
  PROVE  Inv'
<1> DEFINE d == xcom[f]["fetch"]
<1>1. "fetch" \in Task
  BY DEF Task
<1>2. d \in Data \cup {NoData} /\ SoundData(f, d) /\ SoundData(f, NoData)
  BY <1>1, PulledIsSound
<1>3. CASE Ends(f, t, NoData)
  BY <1>2, <1>3, IdleKeeps
<1>4. ASSUME NEW a \in AdAnswer, d # NoData, Ends(f, t, [d EXCEPT !.ad = a])
      PROVE  Inv'
  <2>1. [d EXCEPT !.ad = a] \in Data /\ [d EXCEPT !.ad = a].sr = d.sr
    BY <1>2, <1>4 DEF Data
  <2>2. SoundData(f, [d EXCEPT !.ad = a])
    BY <1>2, <1>4, <2>1 DEF SoundData
  <2> QED
    BY <1>4, <2>1, <2>2, IdleKeeps
<1> QED
  BY <1>3, <1>4 DEF Asks, Opens, Given, Breaks, Ends

\* The first task settles the request of the run, which has written nothing
\* yet, and leaves the row without a verdict.
LEMMA IntakeKeeps ==
  ASSUME Inv, NEW f \in Run, Intake(f)
  PROVE  Inv'
<1> USE DEF Inv, TypeOK
<1>1. task[f]["intake"] = "none" /\ "intake" \in Task
  BY DEF Intake, Task
<1>2. UNCHANGED <<srs, noted, mails>>
  BY DEF Intake, world
<1>3. about' \in [Run -> Request \cup {NoRequest}]
      /\ \A g \in Run : g # f => about'[g] = about[g]
  BY NamedAssumption DEF Intake, NewRequest, UpdateRequest
<1>4. RowOK'
  <2>1. EmailedSr \subseteq SUBSET (SR \cup {Foreign})
    BY SrGivenAssumption DEF EmailedSr
  <2>2. CASE NewRequest(f)
    <3>1. status' \in [Request -> Status]
      BY <2>2 DEF RowOK, NewRequest, Status
    <3>2. srNo' \in [Request -> SUBSET (SR \cup {Foreign})]
      <4>1. PICK q \in Request, n \in EmailedSr : srNo' = [srNo EXCEPT ![q] = n]
        BY <2>2 DEF NewRequest
      <4> QED
        BY <2>1, <4>1 DEF RowOK
    <3> QED
      BY <2>2, <3>1, <3>2 DEF RowOK, NewRequest
  <2>3. CASE UpdateRequest(f)
    <3>1. Named[f] \in Request
      BY <2>3, NamedAssumption DEF UpdateRequest
    <3>2. status' \in [Request -> Status]
      BY <2>3, <3>1 DEF RowOK, UpdateRequest, Status
    <3>3. srNo' \in [Request -> SUBSET (SR \cup {Foreign})]
      BY <2>1, <2>3, <3>1 DEF RowOK, UpdateRequest, TakesSr
    <3> QED
      BY <2>3, <3>2, <3>3 DEF RowOK, UpdateRequest
  <2>4. CASE UNCHANGED row
    BY <2>4 DEF RowOK, row
  <2> QED
    BY <2>2, <2>3, <2>4 DEF Intake
<1>5. \A w \in written : w.run # f /\ w.run \in Run
  BY <1>1 DEF RowsWritten
<1>6. written' = written
  BY DEF Intake, NewRequest, UpdateRequest, row
<1>7. \/ Ends(f, "intake", NoData)
      \/ Returns(f, "intake", Begun) /\ about'[f] \in Request
  <2>1. ASSUME NewRequest(f) \/ UpdateRequest(f)
        PROVE  about'[f] \in Request
    BY <2>1, NamedAssumption DEF NewRequest, UpdateRequest
  <2> QED
    BY <2>1 DEF Intake, Breaks, Ends
<1>8. RowsWritten'
  <2>1. ASSUME NEW q \in Request
        PROVE  RowIsWritten(q)'
    <3>1. RowIsWritten(q)
      BY DEF RowsWritten
    <3>2. \/ status'[q] = status[q] /\ srNo'[q] = srNo[q]
          \/ status'[q] \in {"absent", "Data Inserted", "Data updated"}
      BY NamedAssumption
         DEF Intake, NewRequest, UpdateRequest, TakesSr, row, RowOK
    <3> QED
      BY <1>3, <1>5, <1>6, <3>1, <3>2 DEF RowIsWritten
  <2>2. \A w \in written' : w.run \in Run /\ task'[w.run]["intake"] = "success"
    BY <1>5, <1>6, <1>7 DEF RowsWritten, Ends, Returns, Raises, FlowOK
  <2> QED
    BY <2>1, <2>2 DEF RowsWritten
<1>9. WorldOK'
  BY <1>2 DEF WorldOK
<1>10. Begun \in Data /\ Begun.sr = 0
  <2>1. 0 \in -2 .. MaxTries
    BY TriesAssumption
  <2> QED
    BY <2>1 DEF Begun, Data, NoResult
<1>11. FlowOK' /\ Bounded'
  BY <1>1, <1>7, <1>10, TryIsTyped DEF Ends
<1>12. Sound'
  <2> SUFFICES ASSUME NEW g \in Run, NEW u \in Task
               PROVE  SoundData(g, xcom[g][u])'
    BY DEF Sound
  <2>1. SoundData(g, xcom[g][u])
    BY DEF Sound
  <2>2. CASE g # f
    BY <1>2, <1>3, <1>7, <2>1, <2>2
       DEF Ends, Returns, Raises, FlowOK, SoundData
  <2>3. CASE g = f
    <3>1. xcom[f][u] = NoData
      BY <1>1, <2>1, <2>3 DEF SoundData
    <3>2. CASE xcom'[f][u] = NoData
      BY <2>3, <3>2, NoDataHasNoNumber DEF SoundData
    <3>3. CASE Returns(f, "intake", Begun) /\ about'[f] \in Request
      <4>1. task'[f]["intake"] = "success"
        BY <1>1, <3>3 DEF Returns, FlowOK
      <4>2. xcom'[f][u] = NoData \/ xcom'[f][u] = Begun
        BY <3>1, <3>3 DEF Returns, FlowOK
      <4> QED
        BY <1>10, <2>3, <3>2, <3>3, <4>1, <4>2 DEF SoundData
    <3> QED
      BY <1>7, <3>1, <3>2, <3>3 DEF Ends, Returns, Raises, FlowOK
  <2> QED
    BY <2>2, <2>3
<1> QED
  BY <1>3, <1>4, <1>8, <1>9, <1>11, <1>12

\* Nothing was pushed and there are no SRs at first.
LEMMA InitIsSound ==
  ASSUME Init
  PROVE  Inv
<1>0. MaxTries > 0 /\ 0 \in 0 .. MaxTries
  BY TriesAssumption
<1> USE DEF Init
<1>1. RowOK /\ WorldOK
  <2> HIDE DEF Init
  <2>1. \A n \in EmailedSr : n \subseteq SR \cup {Foreign}
    BY SrGivenAssumption DEF EmailedSr
  <2>2. srNo \in [Request -> SUBSET (SR \cup {Foreign})]
    BY <2>1 DEF Init
  <2>3. status \in [Request -> Status]
    BY DEF Status, Init
  <2> QED
    BY <2>2, <2>3 DEF RowOK, WorldOK, Init
<1>2. FlowOK
  BY <1>0 DEF FlowOK
<1>3. Bounded
  BY <1>0 DEF Bounded
<1>4. \A f \in Run, t \in Task : xcom[f][t] = NoData
  OBVIOUS
<1>5. Sound
  BY <1>4, NoDataHasNoNumber DEF Sound
<1>6. RowsWritten
  BY DEF RowsWritten, RowIsWritten
<1> QED
  BY <1>1, <1>2, <1>3, <1>5, <1>6 DEF Inv, TypeOK
=============================================================================
