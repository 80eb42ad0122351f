------------------------- MODULE DbHousekeepingProofs -------------------------
(***************************************************************************)
(* Theorems about DbHousekeeping, for any number of rows, tries, batches   *)
(* and faults, whatever the settings, and with any number of transactions  *)
(* of the older DAGs.                                                      *)
(***************************************************************************)
EXTENDS DbHousekeeping, FiniteSetTheorems, TLAPS

\* A try that is past its beginning.
Deleting == Trying \ {"begin"}

\* The types of what the theorems are about.
Typed ==
  /\ family \in Family
  /\ now \in Nat
  /\ policy \in Policy /\ snapshot \in Policy
  /\ state \in [Row -> {"absent", "open", "closed", "gone"}]
  /\ made \in [Row -> Nat] /\ ended \in [Row -> Nat]
  /\ summary \subseteq 0 .. now
  /\ cutoff \in Int
  /\ held \subseteq Row
  /\ count \in Nat /\ removed \in Nat /\ tries \in Nat
  /\ result \in Nat \cup {NoResult}

\* Rows without a status are never open.
StatusAsMade == family \notin HasStatus => \A r \in Row : state[r] # "open"

\* The cutoff of a try lies where its policy puts it, or earlier: time goes on.
CutoffIsPast ==
  pc \in Deleting => snapshot # Off /\ cutoff <= now - HalfDays(snapshot)

\* What the open transaction deletes is retired, until it is gone.
HeldIsRetired ==
  pc \in LockedFrom => \A r \in held : state[r] = "gone" \/ Retired(r, cutoff)

RetiredInv == Typed /\ StatusAsMade /\ CutoffIsPast /\ HeldIsRetired

\* n rows were deleted by this try, and by no other if none has failed.
CountIs(n) == n <= removed /\ (tries = 0 => n = removed)

\* Nothing was deleted unless a try has failed.
NoneYet == tries = 0 => removed = 0

\* Where a try stands between transactions.
Between == {"loop", "claimed", "kids deleted", "summary", "push"}

\* The task has not pushed a result yet.
NothingPushed == pc \in {"idle", "policy"} \cup Trying => result = NoResult

\* What a try has counted, at each point of it.
TryCounts ==
  /\ pc \in {"idle", "policy", "begin", "close", "enforce"} => count = 0
  /\ pc \in Between => CountIs(count)
  /\ pc = "deleted" => /\ count <= removed + Cardinality(held)
                       /\ tries = 0 => count = removed + Cardinality(held)

\* What was deleted before a try, and what the task has pushed.
RunCounts ==
  /\ pc \in {"idle", "policy"} => tries = 0 /\ removed = 0
  /\ pc = "begin" => NoneYet
  /\ pc = "close" /\ task = "success" =>
       IF result = NoResult THEN NoneYet ELSE CountIs(result)

Counted == NothingPushed /\ TryCounts /\ RunCounts

CountInv == Typed /\ Counted /\ ReportIsTrue

-----------------------------------------------------------------------------
(* Counting and ordering                                                   *)

\* A policy is a number of days.
LEMMA PolicyIsNat == Policy \subseteq Nat
  BY PolicyAssumption DEF Policy, Off

\* Sets of rows are finite.
LEMMA RowsCount ==
  ASSUME NEW S \in SUBSET Row
  PROVE  Cardinality(S) \in Nat
  BY RowAssumption, FS_Subset, FS_CardinalityType

\* The days that are summarised are finitely many.
LEMMA DaysCount ==
  ASSUME NEW n \in Nat, NEW S \in SUBSET (0 .. n)
  PROVE  Cardinality(S) \in Nat
<1>1. IsFiniteSet(0 .. n)
  BY FS_Interval, SMT
<1> QED
  BY <1>1, FS_Subset, FS_CardinalityType

\* The day of a time is not after it, and follows its order.
LEMMA DayIsOrdered ==
  /\ \A t \in Nat : Day(t) \in 0 .. t
  /\ \A t \in Int : Day(t) \in Int
  /\ \A s, t \in Int : s <= t => Day(s) <= Day(t)
  BY SMT DEF Day

\* What is retired at a cutoff is retired at any later one.
LEMMA RetiredLater ==
  ASSUME Typed, NEW r \in Row, NEW c \in Int, NEW d \in Int, c <= d, Retired(r, c)
  PROVE  Retired(r, d)
<1>1. Day(c) <= Day(d) /\ Day(c) \in Int /\ Day(d) \in Int /\ Day(made[r]) \in Int
  BY DayIsOrdered DEF Typed
<1>2. made[r] \in Int /\ ended[r] \in Int
  BY SMT DEF Typed
<1> QED
  BY <1>1, <1>2, SMT DEF Retired, When

\* The steps of housekeeping, each under its name.
LEMMA Steps ==
  ASSUME Housekeep
  PROVE  \/ CreateWorklog \/ LoadPolicy \/ BeginTry
         \/ ClaimBatch \/ DeleteKids \/ DeleteRows \/ DeleteBatch
         \/ (family = "user_audit" /\ DeleteOfDay)
         \/ Commit \/ LeaveLoop \/ LeaveDays \/ CleanSummary \/ PushResult
         \/ Fail \/ LoseDeadlock \/ CloseWorklog \/ Enforce
  BY Zenon DEF Housekeep, CleanTaskHistory, CleanAlertHistoryRecords,
               CleanNotificationAuditHistory, CleanTicketingAuditHistory,
               CleanUserAuditHistory, CleanAlertAudit

\* The steps that do something to the rows or their summaries.
LEMMA RowSteps ==
  ASSUME [Next]_vars
  PROVE  \/ UNCHANGED rows
         \/ OlderCommit \/ Commit
         \/ \E r \in Row : Insert(r) \/ Close(r) \/ Reopen(r)
         \/ CleanSummary
<1>1. CASE UNCHANGED vars
  BY <1>1, Zenon DEF vars
<1>2. CASE SetPolicy \/ Tick
  BY <1>2, Zenon DEF SetPolicy, Tick
<1>3. CASE Older
  BY <1>3, Zenon DEF Older, OlderSelect, OlderDeleteKids, OlderDeleteRows, OlderRollback
<1>4. CASE Housekeep
  BY <1>4, Steps, Zenon DEF CreateWorklog, LoadPolicy, BeginTry, ClaimBatch, DeleteKids, DeleteRows,
                     DeleteBatch, DeleteOfDay, LeaveLoop, LeaveDays, PushResult, Fail,
                     LoseDeadlock, Rollback, CloseWorklog, Enforce, TryUnchanged
<1> QED
  BY <1>1, <1>2, <1>3, <1>4, Zenon DEF Next

\* A behaviour is about one family.
LEMMA FamilyStays ==
  ASSUME [Next]_vars
  PROVE  family' = family
<1>1. CASE UNCHANGED vars
  BY <1>1, Zenon DEF vars
<1>2. CASE SetPolicy \/ Tick \/ \E r \in Row : Insert(r) \/ Close(r) \/ Reopen(r)
  BY <1>2, Zenon DEF SetPolicy, Tick, Insert, Close, Reopen, OthersUnchanged
<1>3. CASE Older
  BY <1>3, Zenon DEF Older, OlderSelect, OlderDeleteKids, OlderDeleteRows, OlderCommit,
                     OlderRollback, HousekeepingUnchanged
<1>4. CASE Housekeep
  BY <1>4, Steps, Zenon DEF CreateWorklog, LoadPolicy, BeginTry, ClaimBatch, DeleteKids, DeleteRows,
                     DeleteBatch, DeleteOfDay, Commit, LeaveLoop, LeaveDays, CleanSummary,
                     PushResult, Fail, LoseDeadlock, Rollback, CloseWorklog, Enforce,
                     TryUnchanged, WorldUnchanged
<1> QED
  BY <1>1, <1>2, <1>3, <1>4, Zenon DEF Next

-----------------------------------------------------------------------------
(* Types                                                                   *)

\* Init gives every variable a value of its type.
LEMMA InitTyped == Init => Typed
<1> SUFFICES ASSUME Init PROVE Typed
  OBVIOUS
<1>1. First \in Nat /\ Families \subseteq Family /\ Off \in Policy
  BY SizesAssumption, PolicyAssumption DEF Policy
<1>2. made \in [Row -> Nat]
  BY <1>1, SMT DEF Init
<1>3. ended \in [Row -> Nat]
  BY <1>2, SMT DEF Init
<1>4. state \in [Row -> {"absent", "open", "closed", "gone"}]
  BY SMT DEF Init
<1>5. summary \subseteq 0 .. now
  <2>1. \A r \in Row : Day(made[r]) \in 0 .. First
    <3> TAKE r \in Row
    <3>1. made[r] \in 0 .. First
      BY Zenon DEF Init
    <3>2. Day(made[r]) \in 0 .. made[r]
      BY <1>2, DayIsOrdered
    <3> QED
      BY <1>1, <3>1, <3>2, SMT
  <2> QED
    BY <2>1, Zenon DEF Init
<1> QED
  BY <1>1, <1>2, <1>3, <1>4, <1>5, SMT DEF Init, Typed, NoResult

\* What is left alone keeps its type.
LEMMA TypedStays ==
  ASSUME Typed,
         UNCHANGED <<family, now, policy, snapshot, state, made, ended, summary, cutoff, held,
                     count, removed, tries, result>>
  PROVE  Typed'
  BY Zenon DEF Typed

\* A count that grows by a number is one.
LEMMA CountTyped ==
  ASSUME Typed, NEW n \in Nat, count' = count + n,
         UNCHANGED <<family, now, policy, snapshot, state, made, ended, summary, cutoff, held,
                     removed, tries, result>>
  PROVE  Typed'
<1>1. count' \in Nat
  BY SMT DEF Typed
<1> QED
  BY <1>1, Zenon DEF Typed

\* What a transaction has deleted keeps the types of the rows.
LEMMA GoneTyped ==
  ASSUME Typed, NEW S, Gone(S)
  PROVE  /\ state' \in [Row -> {"absent", "open", "closed", "gone"}]
         /\ made' = made /\ ended' = ended /\ summary' = summary
  BY SMT DEF Gone, Typed

\* A try that is rolled back keeps the types.
LEMMA RollbackTyped == Typed /\ Rollback => Typed'
  BY SMT DEF Rollback, TryEnds, WorldUnchanged, rows, Typed

\* Every step keeps the types.
LEMMA NextTyped == Typed /\ [Next]_vars => Typed'
<1> SUFFICES ASSUME Typed, [Next]_vars PROVE Typed'
  OBVIOUS
<1>1. CASE UNCHANGED vars
  BY <1>1, SMT DEF vars, rows, dag, try, Typed
<1>2. ASSUME NEW r \in Row, Insert(r) PROVE Typed'
  <2>1. state' \in [Row -> {"absent", "open", "closed", "gone"}] /\ made' \in [Row -> Nat]
    BY <1>2, SMT DEF Insert, Typed
  <2>2. summary' \subseteq 0 .. now
    BY <1>2, DayIsOrdered DEF Insert, Typed
  <2> QED
    BY <1>2, <2>1, <2>2, SMT DEF Insert, OthersUnchanged, dag, try, Typed
<1>3. ASSUME NEW r \in Row, Close(r) PROVE Typed'
  BY <1>3, SMT DEF Close, OthersUnchanged, dag, try, Typed
<1>4. ASSUME NEW r \in Row, Reopen(r) PROVE Typed'
  BY <1>4, SMT DEF Reopen, OthersUnchanged, dag, try, Typed
<1>5. CASE SetPolicy
  BY <1>5, SMT DEF SetPolicy, OthersUnchanged, rows, dag, try, Typed
<1>6. CASE Tick
  BY <1>6, SMT DEF Tick, OthersUnchanged, rows, dag, try, Typed
<1>7. CASE Older
  <2>1. CASE UNCHANGED rows
    <3>1. HousekeepingUnchanged
      BY <1>7, Zenon DEF Older, OlderSelect, OlderDeleteKids, OlderDeleteRows, OlderCommit,
                         OlderRollback
    <3> QED
      BY <2>1, <3>1, TypedStays DEF HousekeepingUnchanged, rows, dag, try
  <2>2. CASE OlderCommit
    <3>1. Gone(oids) /\ HousekeepingUnchanged
      BY <2>2, Zenon DEF OlderCommit
    <3> QED
      BY <3>1, GoneTyped, Zenon DEF HousekeepingUnchanged, dag, try, Typed
  <2> QED
    BY <1>7, <2>1, <2>2, Zenon DEF Older, OlderSelect, OlderDeleteKids, OlderDeleteRows,
                                   OlderRollback
<1>8. CASE Housekeep
  <2>1. CASE CreateWorklog
    BY <2>1, SMT DEF CreateWorklog, WorldUnchanged, rows, try, Typed
  <2>2. CASE LoadPolicy
    BY <2>2, SMT DEF LoadPolicy, WorldUnchanged, rows, try, Typed
  <2>3. CASE BeginTry
    <3>1. now - HalfDays(snapshot) \in Int
      BY PolicyIsNat, SMT DEF Typed, HalfDays
    <3> QED
      BY <2>3, <3>1, SMT DEF BeginTry, Returns, WorldUnchanged, rows, dag, try, NoResult, Typed
  <2>4. CASE ClaimBatch
    BY <2>4, SMT DEF ClaimBatch, OldestBatch, Batch, TryUnchanged, WorldUnchanged, rows, dag, Typed
  <2>5. CASE DeleteKids
    BY <2>5, TypedStays DEF DeleteKids, TryUnchanged, WorldUnchanged, rows, dag, try
  <2>6. CASE DeleteRows
    <3>1. Cardinality(held) \in Nat
      BY RowsCount DEF Typed
    <3> QED
      BY <2>6, <3>1, CountTyped DEF DeleteRows, TryUnchanged, WorldUnchanged, rows, dag
  <2>7. CASE DeleteBatch
    <3>1. held' \subseteq Row
      BY <2>7, SMT DEF DeleteBatch, OldestBatch, Batch
    <3>2. Cardinality(held') \in Nat
      BY <3>1, RowsCount
    <3> QED
      BY <2>7, <3>1, <3>2, SMT DEF DeleteBatch, TryUnchanged, WorldUnchanged, rows, dag, Typed
  <2>8. CASE DeleteOfDay
    <3>1. held' \subseteq Row
      BY <2>8, SMT DEF DeleteOfDay, Batch
    <3>2. Cardinality(held') \in Nat
      BY <3>1, RowsCount
    <3> QED
      BY <2>8, <3>1, <3>2, SMT DEF DeleteOfDay, TryUnchanged, WorldUnchanged, rows, dag, Typed
  <2>9. CASE Commit
    <3>1. Cardinality(held) \in Nat
      BY RowsCount DEF Typed
    <3>2. Gone(held) /\ removed' = removed + Cardinality(held) /\ held' = {}
          /\ UNCHANGED <<cutoff, count, dag>> /\ WorldUnchanged
      BY <2>9, Zenon DEF Commit
    <3> QED
      <4>1. removed' \in Nat /\ held' \subseteq Row
        BY <3>1, <3>2, SMT DEF Typed
      <4> QED
        BY <3>2, <4>1, GoneTyped, Zenon DEF WorldUnchanged, dag, Typed
  <2>10. CASE LeaveLoop \/ LeaveDays
    BY <2>10, TypedStays DEF LeaveLoop, LeaveDays, TryUnchanged, WorldUnchanged, rows, dag, try
  <2>11. CASE CleanSummary
    <3>1. Cardinality(DropSummaries(cutoff)) \in Nat
      BY DaysCount DEF DropSummaries, Typed
    <3>2. count' \in Nat /\ removed' \in Nat
      BY <2>11, <3>1, SMT DEF CleanSummary, Typed
    <3>3. summary' \subseteq 0 .. now
      BY <2>11, Zenon DEF CleanSummary, Typed
    <3>4. UNCHANGED <<family, now, policy, state, made, ended, dag, cutoff, held>>
      BY <2>11, Zenon DEF CleanSummary, WorldUnchanged
    <3> QED
      BY <3>2, <3>3, <3>4, Zenon DEF dag, Typed
  <2>12. CASE PushResult
    BY <2>12, SMT DEF PushResult, Returns, TryEnds, WorldUnchanged, rows, Typed
  <2>13. CASE Fail \/ LoseDeadlock
    BY <2>13, RollbackTyped DEF Fail, LoseDeadlock
  <2>14. CASE CloseWorklog
    BY <2>14, SMT DEF CloseWorklog, WorldUnchanged, rows, try, Typed
  <2>15. CASE Enforce
    BY <2>15, SMT DEF Enforce, WorldUnchanged, rows, try, NoResult, Policy, Typed
  <2> QED
    BY <1>8, <2>1, <2>2, <2>3, <2>4, <2>5, <2>6, <2>7, <2>8, <2>9, <2>10, <2>11, <2>12, <2>13,
       <2>14, <2>15, Steps, Zenon
<1> QED
  BY <1>1, <1>2, <1>3, <1>4, <1>5, <1>6, <1>7, <1>8, Zenon DEF Next

\* Typed holds at every point of every behaviour.
LEMMA AlwaysTyped == Spec => []Typed
<1> QED
  BY InitTyped, NextTyped, PTL DEF Spec

-----------------------------------------------------------------------------
(* Summaries                                                               *)

\* The day of a row that is still there is still summarised: every day that is
\* dropped from the summary has lost its last row.
THEOREM SummariesStay == Spec => []SummariesKept
<1>1. Init => SummariesKept
  BY Zenon DEF Init, SummariesKept
<1>2. Typed /\ SummariesKept /\ [Next]_vars => SummariesKept'
  <2> SUFFICES ASSUME Typed, SummariesKept, [Next]_vars, (family \in HasSummary)',
                      NEW r \in Row, Present(r)'
               PROVE  Day(made'[r]) \in summary'
    BY Zenon DEF SummariesKept
  <2>1. family' = family
    BY FamilyStays
  <2>2. ASSUME UNCHANGED rows
        PROVE  Day(made'[r]) \in summary'
    BY <2>1, <2>2, Zenon DEF SummariesKept, Present, rows
  <2>3. ASSUME NEW S, Gone(S)
        PROVE  Day(made'[r]) \in summary'
    <3>1. Present(r)
      BY <2>3, SMT DEF Gone, Present, Typed
    <3> QED
      BY <2>1, <2>3, <3>1, Zenon DEF SummariesKept, Gone
  <2>4. ASSUME NEW q \in Row, Insert(q) PROVE Day(made'[r]) \in summary'
    <3>1. CASE r = q
      BY <2>1, <2>4, <3>1, SMT DEF Insert, Typed
    <3>2. CASE r # q
      <4>1. Present(r) /\ made'[r] = made[r]
        BY <2>4, <3>2, SMT DEF Insert, Present, Typed
      <4> QED
        <5>1. Day(made[r]) \in summary
          BY <2>1, <4>1, Zenon DEF SummariesKept
        <5>2. summary \subseteq summary'
          BY <2>4, SMT DEF Insert
        <5> QED
          BY <4>1, <5>1, <5>2, Zenon
    <3> QED
      BY <3>1, <3>2
  <2>5. ASSUME NEW q \in Row, Close(q) PROVE Day(made'[r]) \in summary'
    <3>1. Present(r)
      BY <2>5, SMT DEF Close, Present, Typed
    <3> QED
      BY <2>1, <2>5, <3>1, Zenon DEF Close, SummariesKept
  <2>6. ASSUME NEW q \in Row, Reopen(q) PROVE Day(made'[r]) \in summary'
    BY <2>1, <2>6, Zenon DEF Reopen, IsEpisode, HasSummary
  <2>7. CASE CleanSummary
    <3>1. Present(r) /\ made' = made
      BY <2>7, Zenon DEF CleanSummary, Present
    <3>2. Day(made[r]) \in summary
      BY <2>1, <3>1, Zenon DEF SummariesKept
    <3> QED
      BY <2>7, <3>1, <3>2, Zenon DEF CleanSummary, DropSummaries
  <2> QED
    BY <2>2, <2>3, <2>4, <2>5, <2>6, <2>7, RowSteps, Zenon DEF OlderCommit, Commit
<1> QED
  BY <1>1, <1>2, AlwaysTyped, PTL DEF Spec

-----------------------------------------------------------------------------
(* What is deleted                                                         *)

\* A row is where it was as far as what it is retired by goes.
SameRow(r) == state'[r] = state[r] /\ made'[r] = made[r] /\ ended'[r] = ended[r]

\* A row that is left alone stays retired.
LEMMA SameRowRetired ==
  ASSUME NEW r \in Row, SameRow(r), UNCHANGED <<family, cutoff>>, Retired(r, cutoff)
  PROVE  Retired(r, cutoff)'
  BY Zenon DEF SameRow, Retired, When, IsEpisode

\* What is no step of housekeeping leaves it alone, and time does not go back.
LEMMA OutsideSteps ==
  ASSUME Typed, [Next]_vars, ~Housekeep
  PROVE  /\ UNCHANGED <<family, pc, dag, try, held, removed>>
         /\ now <= now'
<1>1. UNCHANGED <<family, pc, dag, try, held, removed>>
  <2>1. CASE UNCHANGED vars
    BY <2>1, Zenon DEF vars
  <2>2. CASE SetPolicy \/ Tick \/ \E r \in Row : Insert(r) \/ Close(r) \/ Reopen(r)
    BY <2>2, Zenon DEF SetPolicy, Tick, Insert, Close, Reopen, OthersUnchanged
  <2>3. CASE Older
    BY <2>3, Zenon DEF Older, OlderSelect, OlderDeleteKids, OlderDeleteRows, OlderCommit,
                       OlderRollback, HousekeepingUnchanged
  <2> QED
    BY <2>1, <2>2, <2>3, Zenon DEF Next
<1>2. now' = now \/ now' = now + 1
  <2>1. CASE UNCHANGED vars
    BY <2>1, Zenon DEF vars
  <2>2. CASE SetPolicy \/ Tick \/ \E r \in Row : Insert(r) \/ Close(r) \/ Reopen(r)
    BY <2>2, Zenon DEF SetPolicy, Tick, Insert, Close, Reopen
  <2>3. CASE Older
    BY <2>3, Zenon DEF Older, OlderSelect, OlderDeleteKids, OlderDeleteRows, OlderCommit,
                       OlderRollback, HousekeepingUnchanged
  <2> QED
    BY <2>1, <2>2, <2>3, Zenon DEF Next
<1> QED
  BY <1>1, <1>2, SMT DEF Typed

\* A step opens no row that has no status.
LEMMA NextStatus == Typed /\ StatusAsMade /\ [Next]_vars => StatusAsMade'
<1> SUFFICES ASSUME Typed, StatusAsMade, [Next]_vars, family \notin HasStatus, NEW r \in Row
             PROVE  state'[r] # "open"
  BY FamilyStays, Zenon DEF StatusAsMade
<1>1. state[r] # "open"
  BY Zenon DEF StatusAsMade
<1>2. CASE UNCHANGED rows \/ CleanSummary
  BY <1>1, <1>2, Zenon DEF rows, CleanSummary
<1>3. CASE OlderCommit \/ Commit
  BY <1>1, <1>3, SMT DEF OlderCommit, Commit, Gone
<1>4. ASSUME NEW q \in Row, Insert(q) \/ Close(q) \/ Reopen(q)
      PROVE  state'[r] # "open"
  BY <1>1, <1>4, SMT DEF Insert, Close, Reopen, IsEpisode, HasStatus, Typed
<1> QED
  BY <1>2, <1>3, <1>4, RowSteps, Zenon

\* A step keeps the cutoff in the past.
LEMMA NextCutoff == Typed /\ CutoffIsPast /\ [Next]_vars => CutoffIsPast'
<1> SUFFICES ASSUME Typed, CutoffIsPast, [Next]_vars, pc' \in Deleting
             PROVE  snapshot' # Off /\ cutoff' <= now' - HalfDays(snapshot')
  BY Zenon DEF CutoffIsPast, Deleting, Trying
<1>1. snapshot \in Nat /\ now \in Nat /\ now' \in Nat /\ cutoff \in Int
  BY NextTyped, PolicyIsNat DEF Typed
<1>2. CASE ~Housekeep
  BY <1>1, <1>2, OutsideSteps, SMT DEF dag, try, CutoffIsPast, HalfDays
<1>3. CASE Housekeep
  <2>1. CASE BeginTry
    <3>1. pc' # "close"
      BY Zenon DEF Deleting, Trying
    <3>2. /\ snapshot # Off
          /\ cutoff' = now - HalfDays(snapshot)
          /\ UNCHANGED <<snapshot, now>>
      BY <2>1, <3>1, Zenon DEF BeginTry, Returns, WorldUnchanged, dag
    <3> QED
      BY <1>1, <3>2, SMT DEF HalfDays
  <2>2. CASE ~BeginTry
    <3>1. pc \in Deleting /\ UNCHANGED <<snapshot, cutoff, now>>
      BY <1>3, <2>2, Steps, Zenon
         DEF CreateWorklog, LoadPolicy, ClaimBatch, DeleteKids, DeleteRows, DeleteBatch,
             DeleteOfDay, Commit, LeaveLoop, LeaveDays, CleanSummary, PushResult, Returns, Fail,
             LoseDeadlock, Rollback, CloseWorklog, Enforce, TryUnchanged, WorldUnchanged, dag, try,
             Deleting, Trying
    <3> QED
      BY <3>1, Zenon DEF CutoffIsPast
  <2> QED
    BY <2>1, <2>2
<1> QED
  BY <1>2, <1>3

\* A step selects what is retired, and touches no row that is locked.
LEMMA NextHeld == RetiredInv /\ [Next]_vars => HeldIsRetired'
<1> SUFFICES ASSUME Typed, StatusAsMade, HeldIsRetired, [Next]_vars, pc' \in LockedFrom,
                    NEW r \in Row, r \in held'
             PROVE  state'[r] = "gone" \/ Retired(r, cutoff)'
  <2>1. RetiredInv /\ [Next]_vars => held' \subseteq Row
    BY NextTyped, Zenon DEF RetiredInv, Typed
  <2> QED
    BY <2>1, Zenon DEF RetiredInv, HeldIsRetired, LockedFrom
<1> DEFINE Was == pc \in LockedFrom /\ r \in held /\ UNCHANGED <<family, cutoff>>
<1>1. Was => state[r] = "gone" \/ Retired(r, cutoff)
  BY Zenon DEF HeldIsRetired
<1>2. ASSUME Was, SameRow(r) \/ state'[r] = "gone"
      PROVE  state'[r] = "gone" \/ Retired(r, cutoff)'
  BY <1>1, <1>2, SameRowRetired, Zenon DEF SameRow
<1>3. ASSUME UNCHANGED rows
      PROVE  SameRow(r)
  BY <1>3, Zenon DEF rows, SameRow
<1>4. CASE ~Housekeep
  <2>1. Was
    BY <1>4, OutsideSteps, Zenon DEF try
  <2>2. CASE UNCHANGED rows
    BY <1>2, <1>3, <2>1, <2>2
  <2>3. CASE OlderCommit
    BY <1>2, <2>1, <2>3, SMT DEF OlderCommit, Gone, SameRow
  <2>4. ASSUME NEW q \in Row, Insert(q) \/ Close(q) \/ Reopen(q)
        PROVE  SameRow(r)
    <3>1. r # q
      BY <1>1, <2>1, <2>4, Zenon DEF Insert, Close, Reopen, Locked, Retired
    <3> QED
      BY <2>4, <3>1, SMT DEF Insert, Close, Reopen, SameRow, Typed
  <2>5. ~CleanSummary /\ ~Commit
    <3>1. pc' = pc
      BY <1>4, OutsideSteps
    <3> QED
      <4>1. CleanSummary => pc = "summary"
        BY Zenon DEF CleanSummary
      <4>2. Commit => pc' \in {"loop", "summary"}
        BY SMT DEF Commit
      <4>3. pc \in LockedFrom
        BY <2>1
      <4>4. pc # "summary" /\ pc \notin {"loop", "summary"}
        BY <4>3, Zenon DEF LockedFrom
      <4> QED
        BY <3>1, <4>1, <4>2, <4>4, Zenon
  <2> QED
    BY <1>2, <2>1, <2>2, <2>3, <2>4, <2>5, RowSteps, Zenon
<1>5. CASE Housekeep
  <2>1. CASE ClaimBatch
    <3>1. Retired(r, cutoff)
      BY <2>1, SMT DEF ClaimBatch, OldestBatch, Batch
    <3> QED
      BY <1>3, <2>1, <3>1, FamilyStays, SameRowRetired, Zenon DEF ClaimBatch, TryUnchanged
  <2>2. CASE DeleteBatch
    <3>1. Retired(r, cutoff)
      BY <2>2, SMT DEF DeleteBatch, OldestBatch, Batch
    <3> QED
      BY <1>3, <2>2, <3>1, FamilyStays, SameRowRetired, Zenon DEF DeleteBatch, TryUnchanged
  <2>3. CASE family = "user_audit" /\ DeleteOfDay
    <3>1. Present(r) /\ Day(made[r]) = day /\ day < Day(cutoff)
      BY <2>3, SMT DEF DeleteOfDay, Batch
    <3>2. Retired(r, cutoff)
      BY <2>3, <3>1, SMT DEF StatusAsMade, HasStatus, Present, Retired
    <3> QED
      BY <1>3, <2>3, <3>2, FamilyStays, SameRowRetired, Zenon DEF DeleteOfDay, TryUnchanged
  <2>4. CASE DeleteKids \/ DeleteRows
    <3>1. Was /\ UNCHANGED rows
      BY <2>4, Zenon DEF DeleteKids, DeleteRows, LockedFrom, TryUnchanged, WorldUnchanged, try
    <3> QED
      BY <1>2, <1>3, <3>1
  <2>5. CASE \/ CreateWorklog \/ LoadPolicy \/ BeginTry \/ Commit \/ LeaveLoop \/ LeaveDays
             \/ CleanSummary \/ PushResult \/ Fail \/ LoseDeadlock \/ CloseWorklog \/ Enforce
    <3>1. pc' \notin LockedFrom
      BY <2>5, Zenon DEF CreateWorklog, LoadPolicy, BeginTry, Returns, Commit, LeaveLoop, LeaveDays,
                         CleanSummary, PushResult, Fail, LoseDeadlock, Rollback, CloseWorklog,
                         Enforce, LockedFrom
    <3> QED
      BY <3>1
  <2> QED
    BY <1>5, <2>1, <2>2, <2>3, <2>4, <2>5, Steps, Zenon
<1> QED
  BY <1>4, <1>5

\* The invariant holds at every point of every behaviour.
LEMMA AlwaysRetired == Spec => []RetiredInv
<1>1. Init => RetiredInv
  <2> SUFFICES ASSUME Init PROVE StatusAsMade /\ pc = "idle"
    BY InitTyped, Zenon DEF RetiredInv, CutoffIsPast, HeldIsRetired, Deleting, Trying, LockedFrom
  <2> QED
    BY SMT DEF Init, StatusAsMade
<1>2. RetiredInv /\ [Next]_vars => RetiredInv'
  BY NextTyped, NextStatus, NextCutoff, NextHeld, Zenon DEF RetiredInv
<1> QED
  BY <1>1, <1>2, PTL DEF Spec

\* Housekeeping takes no row but one that the policy of its run retires at that
\* moment, whatever the services and the older DAGs do to it meanwhile.
THEOREM OnlyRetiredGo == Spec => RetiredOnly
<1>1. RetiredInv /\ [Next]_vars =>
        [UNCHANGED older =>
           \A r \in Row : state[r] # "gone" /\ state'[r] = "gone" =>
             /\ snapshot # Off
             /\ Retired(r, now - HalfDays(snapshot))]_vars
  <2> SUFFICES ASSUME RetiredInv, [Next]_vars, UNCHANGED older,
                      NEW r \in Row, state[r] # "gone", state'[r] = "gone"
               PROVE  snapshot # Off /\ Retired(r, now - HalfDays(snapshot))
    BY Zenon
  <2> USE DEF RetiredInv
  <2>1. ~UNCHANGED rows /\ ~OlderCommit /\ ~CleanSummary
    BY SMT DEF rows, OlderCommit, older, CleanSummary
  <2>2. \A q \in Row : ~(Insert(q) \/ Close(q) \/ Reopen(q))
    BY SMT DEF Insert, Close, Reopen, Typed
  <2>3. Commit
    BY <2>1, <2>2, RowSteps, Zenon
  <2>4. r \in held /\ pc = "deleted"
    BY <2>3, SMT DEF Commit, Gone
  <2>5. Retired(r, cutoff)
    BY <2>4, Zenon DEF HeldIsRetired, LockedFrom
  <2>6. snapshot # Off /\ cutoff <= now - HalfDays(snapshot)
    BY <2>4, Zenon DEF CutoffIsPast, Deleting, Trying
  <2>7. cutoff \in Int /\ now - HalfDays(snapshot) \in Int
    BY PolicyIsNat, SMT DEF Typed, HalfDays
  <2> QED
    BY <2>5, <2>6, <2>7, RetiredLater, Zenon
<1> QED
  BY <1>1, AlwaysRetired, PTL DEF Spec, RetiredOnly

-----------------------------------------------------------------------------
(* What is reported                                                        *)

\* A step that leaves what is counted alone keeps it.
LEMMA CountedStays ==
  ASSUME Counted, UNCHANGED <<pc, task, tries, held, count, removed, result>>
  PROVE  Counted'
  BY Zenon DEF Counted, NothingPushed, TryCounts, RunCounts, NoneYet, CountIs

\* What a task about to begin a try has to count right.
LEMMA BeginCounted ==
  ASSUME pc' = "begin", count' = 0, result' = NoResult, NoneYet'
  PROVE  Counted'
<1>1. pc' \notin Between /\ pc' \notin {"idle", "policy", "deleted", "close"}
  BY SMT DEF Between
<1> QED
  BY <1>1, Zenon DEF Counted, NothingPushed, TryCounts, RunCounts

\* What a try between transactions has counted.
LEMMA CountedBetween ==
  ASSUME Counted, pc \in Between
  PROVE  CountIs(count) /\ result = NoResult
<1>1. pc \in Trying
  BY Zenon DEF Between, Trying
<1> QED
  BY <1>1, Zenon DEF Counted, NothingPushed, TryCounts

\* What a try between transactions has to count right.
LEMMA BetweenCounted ==
  ASSUME pc' \in Between, result' = NoResult, CountIs(count)'
  PROVE  Counted'
<1>1. pc' \notin {"idle", "policy", "begin", "close", "enforce"} /\ pc' # "deleted"
  BY Zenon DEF Between
<1> QED
  BY <1>1, Zenon DEF Counted, NothingPushed, TryCounts, RunCounts

\* What a try that has deleted has to count right.
LEMMA DeletedCounted ==
  ASSUME pc' = "deleted", result' = NoResult,
         count' <= removed' + Cardinality(held'),
         tries' = 0 => count' = removed' + Cardinality(held')
  PROVE  Counted'
  BY SMT DEF Between, Counted, NothingPushed, TryCounts, RunCounts

\* What a task that ends has to report right.
LEMMA CloseCounted ==
  ASSUME pc' = "close", count' = 0,
         task' = "success" => IF result' = NoResult THEN NoneYet' ELSE CountIs(result)'
  PROVE  Counted'
  BY SMT DEF Between, Counted, NothingPushed, TryCounts, RunCounts, Trying

\* What a try that is rolled back leaves to be counted.
LEMMA RollbackCounted ==
  ASSUME Typed, Counted, pc \in Trying, Rollback
  PROVE  Counted'
<1>1. result = NoResult
  BY Zenon DEF Counted, NothingPushed
<1>2. count' = 0 /\ result' = NoResult
  BY <1>1, Zenon DEF Rollback, TryEnds
<1>3. tries' # 0
  <2>1. tries' = tries + 1
    BY Zenon DEF Rollback
  <2> QED
    BY <2>1, SMT DEF Typed
<1>4. CASE pc' = "begin"
  BY <1>2, <1>3, <1>4, BeginCounted DEF NoneYet
<1>5. CASE pc' = "close" /\ task' = "failed"
  BY <1>2, <1>5, CloseCounted, SMT
<1> QED
  BY <1>4, <1>5, Zenon DEF Rollback

\* A step keeps the counts.
LEMMA NextCounted == Typed /\ Counted /\ [Next]_vars => Counted'
<1> SUFFICES ASSUME Typed, Counted, [Next]_vars PROVE Counted'
  OBVIOUS
<1>1. CASE ~Housekeep
  BY <1>1, OutsideSteps, CountedStays, Zenon DEF dag, try
<1>2. CASE Housekeep
  <2>1. CASE CreateWorklog
    <3>1. pc = "idle" /\ pc' = "policy" /\ UNCHANGED <<tries, result, count, removed>>
      BY <2>1, Zenon DEF CreateWorklog, try
    <3> QED
      BY <3>1, SMT DEF Between, Counted, NothingPushed, TryCounts, RunCounts
  <2>2. CASE LoadPolicy
    <3>1. pc = "policy" /\ UNCHANGED <<tries, result, count, removed>>
      BY <2>2, Zenon DEF LoadPolicy, try
    <3>2. tries = 0 /\ removed = 0 /\ count = 0 /\ result = NoResult
      BY <3>1, Zenon DEF Counted, NothingPushed, TryCounts, RunCounts
    <3>3. CASE pc' = "begin"
      BY <3>1, <3>2, <3>3, BeginCounted DEF NoneYet
    <3>4. CASE pc' = "close" /\ task' = "upstream_failed"
      BY <3>1, <3>2, <3>4, CloseCounted, SMT
    <3> QED
      BY <2>2, <3>3, <3>4, Zenon DEF LoadPolicy
  <2>3. CASE BeginTry
    <3>1. pc = "begin" /\ UNCHANGED <<count, tries, removed>>
      BY <2>3, Zenon DEF BeginTry, Returns, try, dag
    <3>2. count = 0 /\ NoneYet /\ result = NoResult
      BY <3>1, SMT DEF Counted, NothingPushed, TryCounts, RunCounts, Trying
    <3>3. CASE pc' = "close" /\ result' \in {0, NoResult}
      <4>1. IF result' = NoResult THEN NoneYet' ELSE CountIs(result)'
        BY <3>1, <3>2, <3>3, SMT DEF NoneYet, CountIs, Typed
      <4> QED
        BY <3>1, <3>2, <3>3, <4>1, CloseCounted
    <3>4. CASE pc' = "loop" /\ result' = result
      <4>1. CountIs(count)'
        BY <3>1, <3>2, SMT DEF NoneYet, CountIs, Typed
      <4> QED
        BY <3>2, <3>4, <4>1, BetweenCounted, SMT DEF Between
    <3> QED
      BY <2>3, <3>3, <3>4, Zenon DEF BeginTry, Returns, dag
  <2>4. ASSUME pc \in Between, pc' \in Between, UNCHANGED <<tries, count, removed, result>>
        PROVE  Counted'
    <3>1. CountIs(count) /\ result = NoResult
      BY <2>4, CountedBetween
    <3> QED
      BY <2>4, <3>1, BetweenCounted, Zenon DEF CountIs
  <2>5. CASE DeleteKids \/ LeaveLoop \/ LeaveDays
    BY <2>4, <2>5, Zenon DEF DeleteKids, LeaveLoop, LeaveDays, TryUnchanged, dag, try, Between
  <2>6. CASE ClaimBatch
    <3>1. pc' \in {"summary", "claimed"}
      BY <2>6, Zenon DEF ClaimBatch
    <3> QED
      BY <2>4, <2>6, <3>1, Zenon DEF ClaimBatch, TryUnchanged, dag, Between
  <2>7. ASSUME pc \in Between, held' \subseteq Row, count' = count + Cardinality(held'),
               UNCHANGED <<tries, removed, result>>,
               pc' = "deleted" \/ (pc' = "summary" /\ held' = {})
        PROVE  Counted'
    <3>1. CountIs(count) /\ result = NoResult
      BY <2>7, CountedBetween
    <3>2. Cardinality(held') \in Nat
      BY <2>7, RowsCount
    <3>3. CASE pc' = "deleted"
      <4>1. count' <= removed' + Cardinality(held')
        BY <2>7, <3>1, <3>2, SMT DEF CountIs, Typed
      <4>2. tries' = 0 => count' = removed' + Cardinality(held')
        BY <2>7, <3>1, <3>2, SMT DEF CountIs, Typed
      <4> QED
        BY <2>7, <3>1, <3>3, <4>1, <4>2, DeletedCounted
    <3>4. CASE pc' = "summary" /\ held' = {}
      <4>1. Cardinality(held') = 0
        BY <3>4, FS_EmptySet
      <4>2. CountIs(count)'
        BY <2>7, <3>1, <4>1, SMT DEF CountIs, Typed
      <4> QED
        BY <2>7, <3>1, <3>4, <4>2, BetweenCounted, Zenon DEF Between
    <3> QED
      BY <2>7, <3>3, <3>4
  <2>8. CASE DeleteRows
    BY <2>7, <2>8, Zenon DEF DeleteRows, TryUnchanged, dag, Between, Typed
  <2>9. CASE DeleteBatch
    <3>1. held' \subseteq Row
      BY <2>9, SMT DEF DeleteBatch, OldestBatch, Batch
    <3> QED
      BY <2>7, <2>9, <3>1, Zenon DEF DeleteBatch, TryUnchanged, dag, Between
  <2>10. CASE DeleteOfDay
    <3>1. held' \subseteq Row
      BY <2>10, SMT DEF DeleteOfDay, Batch
    <3> QED
      BY <2>7, <2>10, <3>1, Zenon DEF DeleteOfDay, TryUnchanged, dag, Between
  <2>11. CASE Commit
    <3>1. pc' \in Between
      BY <2>11, SMT DEF Commit, Between
    <3>2. Cardinality(held) \in Nat
      BY RowsCount DEF Typed
    <3>3. pc = "deleted" /\ removed' = removed + Cardinality(held)
          /\ UNCHANGED <<count, tries, result>>
      BY <2>11, Zenon DEF Commit, dag
    <3>4. result = NoResult /\ CountIs(count)'
      BY <3>2, <3>3, SMT DEF Counted, NothingPushed, TryCounts, CountIs, Trying, Typed
    <3> QED
      BY <3>1, <3>3, <3>4, BetweenCounted
  <2>12. CASE CleanSummary
    <3>1. PICK n \in Nat : count' = count + n /\ removed' = removed + n
      <4>1. Cardinality(DropSummaries(cutoff)) \in Nat
        BY DaysCount DEF DropSummaries, Typed
      <4> QED
        BY <2>12, <4>1, SMT DEF CleanSummary
    <3>2. pc = "summary" /\ pc' = "push" /\ UNCHANGED <<tries, result>>
      BY <2>12, Zenon DEF CleanSummary, dag
    <3>3. result = NoResult /\ CountIs(count)
      BY <3>2, CountedBetween, Zenon DEF Between
    <3>4. CountIs(count)'
      BY <3>1, <3>2, <3>3, SMT DEF CountIs, Typed
    <3> QED
      BY <3>2, <3>3, <3>4, BetweenCounted, SMT DEF Between
  <2>13. CASE PushResult
    <3>1. pc = "push" /\ pc' = "close" /\ result' = count /\ count' = 0
          /\ UNCHANGED <<tries, removed>>
      BY <2>13, Zenon DEF PushResult, Returns, TryEnds
    <3>2. CountIs(count) /\ count # NoResult
      BY <3>1, CountedBetween, SMT DEF Between, NoResult, Typed
    <3>3. result' # NoResult /\ CountIs(result)'
      BY <3>1, <3>2, Zenon DEF CountIs
    <3> QED
      BY <3>1, <3>3, CloseCounted
  <2>14. CASE Fail \/ LoseDeadlock
    <3>1. pc \in Trying
      BY <2>14, Zenon DEF Fail, LoseDeadlock, Trying
    <3> QED
      BY <2>14, <3>1, RollbackCounted, Zenon DEF Fail, LoseDeadlock
  <2>15. CASE CloseWorklog
    <3>1. pc = "close" /\ pc' = "enforce" /\ UNCHANGED count
      BY <2>15, Zenon DEF CloseWorklog, try
    <3> QED
      BY <3>1, SMT DEF Between, Trying, Counted, NothingPushed, TryCounts, RunCounts
  <2>16. CASE Enforce
    <3>1. /\ pc = "enforce" /\ pc' = "idle" /\ UNCHANGED count
          /\ tries' = 0 /\ removed' = 0 /\ result' = NoResult
      BY <2>16, Zenon DEF Enforce, try
    <3> QED
      BY <3>1, SMT DEF Between, Trying, Counted, NothingPushed, TryCounts, RunCounts
  <2> QED
    BY <1>2, <2>1, <2>2, <2>3, <2>5, <2>6, <2>8, <2>9, <2>10, <2>11, <2>12, <2>13, <2>14, <2>15,
       <2>16, Steps, Zenon
<1> QED
  BY <1>1, <1>2

\* What is reported comes from what was counted.
LEMMA NextReport == Typed /\ Counted /\ ReportIsTrue /\ [Next]_vars => ReportIsTrue'
<1> SUFFICES ASSUME Typed, Counted, ReportIsTrue, [Next]_vars, pc' = "enforce"
             PROVE  ReportIsTrue'
  BY Zenon DEF ReportIsTrue
<1>1. CASE ~Housekeep
  <2>1. UNCHANGED <<pc, report, removed, tries>>
    BY <1>1, OutsideSteps, Zenon DEF dag
  <2> QED
    BY <2>1, Zenon DEF ReportIsTrue
<1>2. CASE CloseWorklog
  <2>1. pc = "close" /\ report' \in {ReportOf, NoReport} /\ UNCHANGED <<removed, tries>>
    BY <1>2, Zenon DEF CloseWorklog
  <2>2. CASE report' = NoReport
    BY <2>2, SMT DEF NoReport, ReportIsTrue
  <2>3. CASE report' = ReportOf
    <3>1. CASE task # "success"
      BY <2>3, <3>1, SMT DEF ReportOf, ReportIsTrue
    <3>2. CASE task = "success" /\ result = NoResult
      BY <2>1, <2>3, <3>2, SMT DEF ReportOf, ReportIsTrue, Counted, RunCounts, NoneYet
    <3>3. CASE task = "success" /\ result # NoResult
      <4>1. report' = [status |-> "completed", rows |-> result]
        BY <2>3, <3>3, Zenon DEF ReportOf
      <4> QED
        BY <2>1, <3>3, <4>1, SMT DEF ReportIsTrue, Counted, RunCounts, CountIs
    <3> QED
      BY <3>1, <3>2, <3>3
  <2> QED
    BY <2>1, <2>2, <2>3
<1>3. CASE Housekeep /\ ~CloseWorklog
  BY <1>3, Steps, Zenon
     DEF CreateWorklog, LoadPolicy, BeginTry, Returns, ClaimBatch, DeleteKids, DeleteRows,
         DeleteBatch, DeleteOfDay, Commit, LeaveLoop, LeaveDays, CleanSummary, PushResult, Fail,
         LoseDeadlock, Rollback, Enforce
<1> QED
  BY <1>1, <1>2, <1>3

\* What the worklog says was deleted was deleted; it is all that the run has
\* deleted unless a try failed, and a run said to be skipped deleted nothing.
THEOREM ReportTells == Spec => []ReportIsTrue
<1>1. Init => CountInv
  <2> SUFFICES ASSUME Init PROVE Counted /\ ReportIsTrue
    BY InitTyped DEF CountInv
  <2> QED
    BY SMT DEF Init, Between, Counted, NothingPushed, TryCounts, RunCounts, ReportIsTrue, Trying
<1>2. CountInv /\ [Next]_vars => CountInv'
  BY NextTyped, NextCounted, NextReport, Zenon DEF CountInv
<1>3. CountInv => ReportIsTrue
  BY DEF CountInv
<1> QED
  BY <1>1, <1>2, <1>3, PTL DEF Spec
=============================================================================
