------------------------ MODULE TicketExecutorProofs ------------------------
(***************************************************************************)
(* Theorems about TicketExecutor, for any number of executions, tickets,   *)
(* plans and contexts.                                                     *)
(***************************************************************************)
EXTENDS TicketExecutor, SequenceTheorems, TLAPS

USE DEF Ticket, NoTicket, Output

-----------------------------------------------------------------------------
(* Type correctness                                                        *)

OnTicket == Here \ {"idle", "search", "next"}
Planned == {"pin_plan", "recheck", "lookup", "pin_context", "writes", "effects",
            "verify", "call", "finish", "check"}
Holding == {"verify", "call", "finish"}

\* What the locals of an execution are, by where it stands.
Located ==
  \A r \in Run :
    /\ pc[r] # "idle" => fails[r] < MaxReadFailures
    /\ pc[r] \in OnTicket => tkt[r] \in Ticket
    /\ pc[r] \in Planned => choice[r] \in Plan
    /\ pc[r] \in Holding \cup {"check"} => todo[r] # <<>>
    /\ pc[r] = "pin_context" => ctx[r] \in Context
    /\ pc[r] = "finish" => result[r] \in Finished

TypeInv == TypeOK /\ Located

\* InOrder gives the outputs to apply as a sequence of effects.
LEMMA InOrderType ==
  ASSUME NEW outs
  PROVE  InOrder(outs) \in Seq(Action \cup Output)
<1>1. <<"ticket_note">> \in Seq(Action \cup Output)
  OBVIOUS
<1>2. <<"email">> \in Seq(Action \cup Output)
  OBVIOUS
<1>3. <<>> \in Seq(Action \cup Output)
  OBVIOUS
<1> QED
  BY <1>1, <1>2, <1>3, ConcatProperties DEF InOrder

\* The write actions of a plan are a sequence of effects.
LEMMA WritesType ==
  ASSUME NEW p \in Plan
  PROVE  Writes[p] \in Seq(Action \cup Output)
<1>1. Writes[p] \in Seq(Action)
  BY RecipeAssumption
<1> QED
  BY <1>1, SeqMonotonic

\* The first of the effects still to apply is an effect, the others are a
\* sequence of them.
LEMMA TodoType ==
  ASSUME TypeOK, NEW r \in Run, todo[r] # <<>>
  PROVE  /\ Head(todo[r]) \in Action \cup Output
         /\ Tail(todo[r]) \in Seq(Action \cup Output)
BY HeadTailProperties DEF TypeOK

\* The effect in hand is a ledger key, and it acts on the world exactly if
\* this execution delivers it.
LEMMA HeldKeyType ==
  ASSUME TypeOK, NEW r \in Run, tkt[r] \in Ticket, todo[r] # <<>>
  PROVE  /\ HeldKey(r) \in Key
         /\ Delivers(HeldKey(r).effect, mode[r]) <=> HeldKey(r) \in DeliveredKey
<1> DEFINE e == Head(todo[r])
<1>1. e \in Action \cup Output
  BY TodoType
<1>2. ctx[r] \in Context \cup {NoContext} /\ mode[r] \in Mode
  BY DEF TypeOK
<1>3. HeldKey(r) = [ticket |-> tkt[r], effect |-> e,
                    target |-> IF e \in Output THEN mode[r] ELSE ctx[r],
                    live |-> mode[r] = "live"]
  BY DEF HeldKey, KeyOf
<1>4. HeldKey(r) \in Key
  BY <1>1, <1>2, <1>3 DEF Key
<1>5. /\ HeldKey(r).effect = e
      /\ HeldKey(r).live = (mode[r] = "live")
      /\ e \in Output => HeldKey(r).target = mode[r]
  BY <1>3
<1> QED
  BY <1>4, <1>5 DEF DeliveredKey, Delivers

\* The type invariant holds at first.
LEMMA InitTypeInv == Init => TypeInv
<1> SUFFICES ASSUME Init PROVE TypeInv
  OBVIOUS
<1>1. TypeOK
  BY SizesAssumption DEF Init, TypeOK, EffectStatus, Terminal, Finished, Here
<1>2. Located
  BY DEF Init, Located, OnTicket, Here, Planned, Holding
<1> QED
  BY <1>1, <1>2 DEF TypeInv

\* The part of TypeOK about the locals of the loop body.
WorkTyped ==
  /\ tkt \in [Run -> Ticket \cup {NoTicket}]
  /\ choice \in [Run -> Plan \cup {NoPlan}]
  /\ ctx \in [Run -> Context \cup {NoContext}]
  /\ todo \in [Run -> Seq(Action \cup Output)]
  /\ answering \in [Run -> BOOLEAN]
  /\ result \in [Run -> Finished \cup {"absent"}]

\* Letting go of a ticket keeps the locals typed.
LEMMA DropType ==
  ASSUME TypeOK, NEW r \in Run, DropTicket(r)
  PROVE  WorkTyped'
BY DEF TypeOK, DropTicket, WorkTyped

\* Every step keeps the type invariant.
LEMMA StepTypeInv == TypeInv /\ [Next]_vars => TypeInv'
<1> SUFFICES ASSUME TypeInv, [Next]_vars PROVE TypeInv'
  OBVIOUS
<1> USE DEF TypeInv, At, Goto, store, world, scan, work
<1>1. ASSUME NEW r \in Run, Start(r) PROVE TypeInv'
  <2>1. TypeOK'
    BY <1>1, SizesAssumption DEF TypeOK, Here, Located, OnTicket, Holding,
         Planned, Start
  <2>2. Located'
    BY <1>1, SizesAssumption DEF TypeOK, Located, OnTicket, Holding,
         Planned, Here, Start
  <2> QED
    BY <2>1, <2>2
<1>2. ASSUME NEW r \in Run, Search(r) PROVE TypeInv'
  <2>1. TypeOK'
    <3>1. cursor' \in [Run -> 0 .. NTickets]
      <4>1. CASE UNCHANGED cursor
        BY <4>1 DEF TypeOK
      <4>2. CASE \E last \in Ticket : cursor' = [cursor EXCEPT ![r] = last]
        BY <4>2, SizesAssumption DEF TypeOK
      <4> QED
        BY <1>2, <4>1, <4>2 DEF Search
    <3>3. page' \in [Run -> SUBSET Ticket]
      <4>1. CASE UNCHANGED page
        BY <4>1 DEF TypeOK
      <4>2. CASE \E w \in SUBSET Ticket : page' = [page EXCEPT ![r] = w]
        BY <4>2 DEF TypeOK
      <4>3. UNCHANGED page \/ \E w \in SUBSET Ticket :
                                page' = [page EXCEPT ![r] = w]
        BY <1>2 DEF Search
      <4> QED
        BY <4>1, <4>2, <4>3
    <3>2. pc' \in [Run -> Here]
      BY <1>2 DEF TypeOK, Search, Here
    <3> QED
      BY <1>2, <3>1, <3>2, <3>3 DEF TypeOK, Search
  <2>2. Located'
    BY <1>2, SizesAssumption DEF TypeOK, Located, OnTicket, Holding,
         Planned, Here, Search
  <2> QED
    BY <2>1, <2>2
<1>3. ASSUME NEW r \in Run, Take(r) PROVE TypeInv'
  <2>1. TypeOK'
    <3>1. /\ page' \in [Run -> SUBSET Ticket]
          /\ tkt' \in [Run -> Ticket \cup {NoTicket}]
      <4>1. CASE UNCHANGED <<page, tkt>>
        BY <4>1 DEF TypeOK
      <4>2. ASSUME NEW t \in page[r],
                   page' = [page EXCEPT ![r] = @ \ {t}],
                   tkt' = [tkt EXCEPT ![r] = t]
            PROVE  /\ page' \in [Run -> SUBSET Ticket]
                   /\ tkt' \in [Run -> Ticket \cup {NoTicket}]
        <5>1. page \in [Run -> SUBSET Ticket] /\ t \in Ticket
          BY DEF TypeOK
        <5> QED
          BY <4>2, <5>1 DEF TypeOK
      <4> QED
        BY <1>3, <4>1, <4>2 DEF Take
    <3>2. pc' \in [Run -> Here]
      BY <1>3 DEF TypeOK, Take, Here
    <3> QED
      BY <1>3, <3>1, <3>2 DEF TypeOK, Take
  <2>2. Located'
    BY <1>3 DEF TypeOK, Located, OnTicket, Holding, Planned, Here, Take
  <2> QED
    BY <2>1, <2>2
<1>4. ASSUME NEW r \in Run, Ingest(r) PROVE TypeInv'
  <2>1. TypeOK'
    <3>1. status' \in [Ticket -> {"absent", "pending"} \cup Terminal]
      BY <1>4 DEF TypeOK, Ingest
    <3>2. pc' \in [Run -> Here]
      BY <1>4 DEF TypeOK, Ingest, Here
    <3>3. WorkTyped'
      <4>1. CASE DropTicket(r)
        BY <4>1, DropType
      <4>2. tkt[r] \in Ticket
        BY <1>4 DEF Ingest, Located, OnTicket, Here
      <4>3. CASE /\ choice' = [choice EXCEPT ![r] = plan[tkt[r]]]
                 /\ ctx' = [ctx EXCEPT ![r] = context[tkt[r]]]
                 /\ UNCHANGED <<tkt, todo, answering, result>>
        BY <4>2, <4>3 DEF TypeOK, WorkTyped
      <4> QED
        BY <1>4, <4>1, <4>3 DEF Ingest
    <3> QED
      BY <1>4, <3>1, <3>2, <3>3 DEF TypeOK, Ingest, WorkTyped
  <2>2. Located'
    BY <1>4 DEF TypeOK, Located, OnTicket, Holding, Planned, Here, Ingest,
         DropTicket
  <2> QED
    BY <2>1, <2>2
<1>5. ASSUME NEW r \in Run, Select(r) PROVE TypeInv'
  <2>1. TypeOK'
    <3>1. pc' \in [Run -> Here]
      BY <1>5 DEF TypeOK, Here, Select
    <3>2. choice' \in [Run -> Plan \cup {NoPlan}]
      <4>1. choice \in [Run -> Plan \cup {NoPlan}]
        BY DEF TypeOK
      <4>2. choice' = choice \/ \E p \in Plan : choice' = [choice EXCEPT ![r] = p]
        BY <1>5 DEF Select
      <4> QED
        BY <4>1, <4>2
    <3> QED
      BY <1>5, <3>1, <3>2 DEF TypeOK, Select
  <2>2. Located'
    BY <1>5 DEF TypeOK, Located, OnTicket, Holding, Planned, Here, Select
  <2> QED
    BY <2>1, <2>2
<1>6. ASSUME NEW r \in Run, PinPlan(r) PROVE TypeInv'
  <2>1. TypeOK'
    BY <1>6 DEF TypeOK, Here, Located, OnTicket, Holding, Planned, PinPlan,
         Pinned
  <2>2. Located'
    BY <1>6 DEF TypeOK, Located, OnTicket, Holding, Planned, Here, PinPlan,
         Pinned
  <2> QED
    BY <2>1, <2>2
<1>7. ASSUME NEW r \in Run, Recheck(r) PROVE TypeInv'
  <2>1. TypeOK'
    BY <1>7 DEF TypeOK, Here, Located, OnTicket, Holding, Planned, Recheck
  <2>2. Located'
    BY <1>7 DEF TypeOK, Located, OnTicket, Holding, Planned, Here, Recheck
  <2> QED
    BY <2>1, <2>2
<1>8. ASSUME NEW r \in Run, LookupFound(r) PROVE TypeInv'
  <2>1. TypeOK'
    <3>1. pc' \in [Run -> Here]
      BY <1>8 DEF TypeOK, Here, LookupFound
    <3>2. ctx' \in [Run -> Context \cup {NoContext}]
      BY <1>8 DEF TypeOK, LookupFound
    <3> QED
      BY <1>8, <3>1, <3>2 DEF TypeOK, LookupFound
  <2>2. Located'
    BY <1>8 DEF TypeOK, Located, OnTicket, Holding, Planned, Here,
         LookupFound
  <2> QED
    BY <2>1, <2>2
<1>9. ASSUME NEW r \in Run, LookupAbsent(r) PROVE TypeInv'
  <2>1. TypeOK'
    BY <1>9 DEF TypeOK, Here, Located, OnTicket, Holding, Planned,
         LookupAbsent
  <2>2. Located'
    BY <1>9 DEF TypeOK, Located, OnTicket, Holding, Planned, Here,
         LookupAbsent
  <2> QED
    BY <2>1, <2>2
<1>10. ASSUME NEW r \in Run, LookupUnavailable(r) PROVE TypeInv'
  <2>1. TypeOK'
    <3>1. fails' \in [Run -> 0 .. MaxReadFailures]
      <4>1. fails[r] + 1 \in 0 .. MaxReadFailures
        <5>1. fails[r] \in 0 .. MaxReadFailures
          BY DEF TypeOK
        <5>2. fails[r] < MaxReadFailures
          BY <1>10 DEF LookupUnavailable, Located
        <5> QED
          BY <5>1, <5>2, SizesAssumption
      <4> QED
        BY <1>10, <4>1 DEF TypeOK, LookupUnavailable
    <3>2. pc' \in [Run -> Here]
      BY <1>10 DEF TypeOK, LookupUnavailable, Here
    <3>3. WorkTyped'
      BY <1>10, DropType DEF LookupUnavailable
    <3> QED
      BY <1>10, <3>1, <3>2, <3>3 DEF TypeOK, LookupUnavailable, WorkTyped
  <2>2. Located'
    BY <1>10, SizesAssumption DEF TypeOK, Located, OnTicket, Holding,
         Planned, Here, LookupUnavailable, DropTicket
  <2> QED
    BY <2>1, <2>2
<1>11. ASSUME NEW r \in Run, PinContext(r) PROVE TypeInv'
  <2>1. TypeOK'
    <3>1. tkt[r] \in Ticket
      BY <1>11 DEF PinContext, Located, OnTicket, Here
    <3>2. /\ context' \in [Ticket -> Context \cup {NoContext}]
          /\ ctx' \in [Run -> Context \cup {NoContext}]
      BY <1>11, <3>1 DEF TypeOK, PinContext, Pinned
    <3>3. pc' \in [Run -> Here] /\ fails' \in [Run -> 0 .. MaxReadFailures]
      BY <1>11, SizesAssumption DEF TypeOK, PinContext, Here
    <3> QED
      BY <1>11, <3>2, <3>3 DEF TypeOK, PinContext
  <2>2. Located'
    BY <1>11, SizesAssumption DEF TypeOK, Located, OnTicket, Holding,
         Planned, Here, PinContext, Pinned
  <2> QED
    BY <2>1, <2>2
<1>12. ASSUME NEW r \in Run, BeginWrites(r) PROVE TypeInv'
  <2>1. TypeOK'
    BY <1>12, WritesType DEF TypeOK, Here, Located, OnTicket, Holding,
         Planned, BeginWrites
  <2>2. Located'
    BY <1>12, WritesType DEF TypeOK, Located, OnTicket, Holding, Planned,
         Here, BeginWrites
  <2> QED
    BY <2>1, <2>2
<1>13. ASSUME NEW r \in Run, BeginOutputs(r) PROVE TypeInv'
  <2>1. TypeOK'
    <3>1. todo' \in [Run -> Seq(Action \cup Output)]
      <4>1. CASE UNCHANGED todo
        BY <4>1 DEF TypeOK
      <4>2. ASSUME NEW outs, todo' = [todo EXCEPT ![r] = InOrder(outs)]
            PROVE  todo' \in [Run -> Seq(Action \cup Output)]
        BY <4>2, InOrderType DEF TypeOK
      <4> QED
        BY <1>13, <4>1, <4>2 DEF BeginOutputs
    <3>2. pc' \in [Run -> Here] /\ answering' \in [Run -> BOOLEAN]
      BY <1>13 DEF TypeOK, BeginOutputs, Here
    <3> QED
      BY <1>13, <3>1, <3>2 DEF TypeOK, BeginOutputs
  <2>2. Located'
    BY <1>13, InOrderType DEF TypeOK, Located, OnTicket, Holding, Planned,
         Here, BeginOutputs
  <2> QED
    BY <2>1, <2>2
<1>14. ASSUME NEW r \in Run, FinishTicket(r) PROVE TypeInv'
  <2>1. TypeOK'
    BY <1>14 DEF TypeOK, Here, Located, OnTicket, Holding, Planned,
         FinishTicket
  <2>2. Located'
    BY <1>14 DEF TypeOK, Located, OnTicket, Holding, Planned, Here,
         FinishTicket
  <2> QED
    BY <2>1, <2>2
<1>15. ASSUME NEW r \in Run, Claim(r) PROVE TypeInv'
  <2>1. TypeOK'
    BY <1>15, HeldKeyType DEF TypeOK, Here, Located, OnTicket, Holding,
         Planned, Claim, EffectStatus
  <2>2. Located'
    BY <1>15, HeldKeyType DEF TypeOK, Located, OnTicket, Holding, Planned,
         Here, Claim
  <2> QED
    BY <2>1, <2>2
<1>16. ASSUME NEW r \in Run, Verify(r) PROVE TypeInv'
  <2>1. TypeOK'
    BY <1>16 DEF TypeOK, Here, Located, OnTicket, Holding, Planned, Verify,
         Finished
  <2>2. Located'
    <3>1. /\ pc'[r] = "call" \/ (pc'[r] = "finish" /\ result'[r] \in Finished)
          /\ \A q \in Run \ {r} : pc'[q] = pc[q] /\ result'[q] = result[q]
          /\ pc[r] = "verify"
      BY <1>16 DEF TypeOK, Verify, Finished
    <3>2. UNCHANGED <<fails, tkt, choice, todo, ctx>>
      BY <1>16 DEF Verify
    <3> QED
      BY <3>1, <3>2 DEF Located, OnTicket, Holding, Planned, Here
  <2> QED
    BY <2>1, <2>2
<1>17. ASSUME NEW r \in Run, CallAction(r) PROVE TypeInv'
  <2>1. TypeOK'
    <3>1. HeldKey(r) \in Key
      BY <1>17, HeldKeyType DEF CallAction, Located, OnTicket, Holding, Here
    <3>2. performed' \in [Key -> Nat]
      BY <1>17, <3>1 DEF CallAction, TypeOK, Takes
    <3>3. result' \in [Run -> Finished \cup {"absent"}]
      BY <1>17 DEF CallAction, TypeOK, Ends, Finished
    <3>4. pc' \in [Run -> Here]
      BY <1>17 DEF CallAction, CallUnchanged, TypeOK, Here
    <3> QED
      BY <1>17, <3>2, <3>3, <3>4 DEF CallAction, CallUnchanged, TypeOK
  <2>2. Located'
    BY <1>17, HeldKeyType DEF TypeOK, Located, OnTicket, Holding, Planned,
         Here, CallAction, Takes, Ends, CallUnchanged, Finished
  <2> QED
    BY <2>1, <2>2
<1>18. ASSUME NEW r \in Run, UpdateTicket(r) PROVE TypeInv'
  <2>1. TypeOK'
    <3>1. HeldKey(r) \in Key
      BY <1>18, HeldKeyType DEF UpdateTicket, SendOutput, Located, OnTicket, Holding, Here
    <3>2. performed' \in [Key -> Nat]
      BY <1>18, <3>1 DEF UpdateTicket, SendOutput, TypeOK, Takes
    <3>3. result' \in [Run -> Finished \cup {"absent"}]
      BY <1>18 DEF UpdateTicket, SendOutput, TypeOK, Ends, Finished
    <3>4. pc' \in [Run -> Here]
      BY <1>18 DEF UpdateTicket, SendOutput, CallUnchanged, TypeOK, Here
    <3> QED
      BY <1>18, <3>2, <3>3, <3>4 DEF UpdateTicket, SendOutput, CallUnchanged, TypeOK
  <2>2. Located'
    BY <1>18, HeldKeyType DEF TypeOK, Located, OnTicket, Holding, Planned,
         Here, UpdateTicket, SendOutput, Takes, Ends, CallUnchanged,
         Finished
  <2> QED
    BY <2>1, <2>2
<1>19. ASSUME NEW r \in Run, SendEmail(r) PROVE TypeInv'
  <2>1. TypeOK'
    <3>1. HeldKey(r) \in Key
      BY <1>19, HeldKeyType DEF SendEmail, SendOutput, Located, OnTicket, Holding, Here
    <3>2. performed' \in [Key -> Nat]
      BY <1>19, <3>1 DEF SendEmail, SendOutput, TypeOK, Takes
    <3>3. result' \in [Run -> Finished \cup {"absent"}]
      BY <1>19 DEF SendEmail, SendOutput, TypeOK, Ends, Finished
    <3>4. pc' \in [Run -> Here]
      BY <1>19 DEF SendEmail, SendOutput, CallUnchanged, TypeOK, Here
    <3> QED
      BY <1>19, <3>2, <3>3, <3>4 DEF SendEmail, SendOutput, CallUnchanged, TypeOK
  <2>2. Located'
    BY <1>19, HeldKeyType DEF TypeOK, Located, OnTicket, Holding, Planned,
         Here, SendEmail, SendOutput, Takes, Ends, CallUnchanged, Finished
  <2> QED
    BY <2>1, <2>2
<1>20. ASSUME NEW r \in Run, FinishEffect(r) PROVE TypeInv'
  <2>1. TypeOK'
    BY <1>20, HeldKeyType DEF TypeOK, Here, Located, OnTicket, Holding,
         Planned, FinishEffect, Finished, EffectStatus
  <2>2. Located'
    BY <1>20, HeldKeyType DEF TypeOK, Located, OnTicket, Holding, Planned,
         Here, FinishEffect, Finished
  <2> QED
    BY <2>1, <2>2
<1>21. ASSUME NEW r \in Run, CheckEffect(r) PROVE TypeInv'
  <2>1. TypeOK'
    <3>1. Tail(todo[r]) \in Seq(Action \cup Output)
      BY <1>21, TodoType DEF CheckEffect, Located
    <3>2. todo' \in [Run -> Seq(Action \cup Output)]
      BY <1>21, <3>1 DEF TypeOK, CheckEffect
    <3>3. pc' \in [Run -> Here]
      BY <1>21 DEF TypeOK, CheckEffect, Here
    <3> QED
      BY <1>21, <3>2, <3>3 DEF TypeOK, CheckEffect
  <2>2. Located'
    <3>1. /\ pc[r] = "check"
          /\ pc'[r] \in {"effects", "manual"}
          /\ \A q \in Run \ {r} : pc'[q] = pc[q] /\ todo'[q] = todo[q]
      BY <1>21 DEF TypeOK, CheckEffect
    <3>2. UNCHANGED <<fails, tkt, choice, ctx, result>>
      BY <1>21 DEF CheckEffect
    <3> QED
      BY <3>1, <3>2 DEF Located, OnTicket, Holding, Planned, Here
  <2> QED
    BY <2>1, <2>2
<1>22. ASSUME NEW r \in Run, Complete(r) PROVE TypeInv'
  <2>1. TypeOK'
    <3>1. status' \in [Ticket -> {"absent", "pending"} \cup Terminal]
      BY <1>22 DEF TypeOK, Complete, SetStatus, Terminal
    <3>2. pc' \in [Run -> Here]
      BY <1>22 DEF TypeOK, Complete, SetStatus, Here
    <3>3. WorkTyped'
      BY <1>22, DropType DEF Complete, SetStatus
    <3> QED
      BY <1>22, <3>1, <3>2, <3>3 DEF TypeOK, Complete, SetStatus, WorkTyped
  <2>2. Located'
    BY <1>22 DEF TypeOK, Located, OnTicket, Holding, Planned, Here,
         Complete, SetStatus, DropTicket
  <2> QED
    BY <2>1, <2>2
<1>23. ASSUME NEW r \in Run, ManualReview(r) PROVE TypeInv'
  <2>1. TypeOK'
    <3>1. status' \in [Ticket -> {"absent", "pending"} \cup Terminal]
      BY <1>23 DEF TypeOK, ManualReview, SetStatus, Terminal
    <3>2. pc' \in [Run -> Here]
      BY <1>23 DEF TypeOK, ManualReview, SetStatus, Here
    <3>3. WorkTyped'
      BY <1>23, DropType DEF ManualReview, SetStatus
    <3> QED
      BY <1>23, <3>1, <3>2, <3>3 DEF TypeOK, ManualReview, SetStatus, WorkTyped
  <2>2. Located'
    BY <1>23 DEF TypeOK, Located, OnTicket, Holding, Planned, Here,
         ManualReview, SetStatus, DropTicket
  <2> QED
    BY <2>1, <2>2
<1>24. ASSUME NEW r \in Run, Abort(r) PROVE TypeInv'
  <2>1. TypeOK'
    BY <1>24, SizesAssumption DEF TypeOK, Here, Located, OnTicket, Holding,
         Planned, Abort, DropTicket
  <2>2. Located'
    BY <1>24, SizesAssumption DEF TypeOK, Located, OnTicket, Holding,
         Planned, Here, Abort, DropTicket
  <2> QED
    BY <2>1, <2>2
<1>25. ASSUME NEW t \in Ticket, Edit(t) PROVE TypeInv'
  BY <1>25 DEF Edit, TypeOK, Located, HeldKey
<1>26. CASE UNCHANGED vars
  BY <1>26 DEF vars, TypeOK, Located
<1> QED
    BY <1>1, <1>2, <1>3, <1>4, <1>5, <1>6, <1>7, <1>8, <1>9, <1>10, <1>11,
         <1>12, <1>13, <1>14, <1>15, <1>16, <1>17, <1>18, <1>19, <1>20,
         <1>21, <1>22, <1>23, <1>24, <1>25, <1>26 DEF Next, Step, Lookup

\* Every variable keeps the values the code can give it (TypeOK).
THEOREM TypeCorrect == Spec => []TypeOK
<1>1. TypeInv => TypeOK
  BY DEF TypeInv
<1> QED
  BY InitTypeInv, StepTypeInv, <1>1, PTL DEF Spec

-----------------------------------------------------------------------------
(* The effect ledger                                                       *)

\* An execution between claim_effect and finish_effect holds a claimed effect
\* that no other execution holds and that nobody has performed before.
HeldOnce ==
  /\ \A r \in Run : pc[r] \in Holding => effect[HeldKey(r)] = "claimed"
  /\ \A r, s \in Run :
       (r # s /\ pc[r] \in Holding /\ pc[s] \in Holding)
         => HeldKey(r) # HeldKey(s)
  /\ \A r \in Run :
       pc[r] \in {"verify", "call"} => performed[HeldKey(r)] = 0

\* The verdict about to be written is true of the world.
VerdictIsTrue ==
  \A r \in Run :
    pc[r] = "finish" =>
      /\ result[r] = "definitely_failed" => performed[HeldKey(r)] = 0
      /\ (result[r] = "succeeded" /\ HeldKey(r) \in DeliveredKey)
           => performed[HeldKey(r)] = 1

LedgerInv == AtMostOnce /\ LedgerIsTrue /\ HeldOnce /\ VerdictIsTrue

\* Nothing but r moved, and what it holds, if it holds anything, is untouched.
OthersStay(r) ==
  \A s \in Run \ {r} :
    /\ pc'[s] = pc[s]
    /\ HeldKey(s)' = HeldKey(s)
    /\ result'[s] = result[s]

\* A step of r that leaves the ledger and the world alone and holds nothing.
Quiet(r) ==
  /\ UNCHANGED <<effect, performed>>
  /\ pc'[r] \notin Holding
  /\ OthersStay(r)

\* A step that leaves the ledger and the world alone, and makes no execution a
\* holder, keeps the invariant of the ledger.
LEMMA QuietStep ==
  ASSUME LedgerInv, NEW r \in Run, Quiet(r)
  PROVE  LedgerInv'
<1>1. AtMostOnce' /\ LedgerIsTrue'
  BY DEF LedgerInv, Quiet, AtMostOnce, LedgerIsTrue
<1>2. HeldOnce'
  BY DEF LedgerInv, Quiet, OthersStay, HeldOnce, Holding
<1>3. VerdictIsTrue'
  BY DEF LedgerInv, Quiet, OthersStay, VerdictIsTrue, Holding
<1> QED
  BY <1>1, <1>2, <1>3 DEF LedgerInv

\* The steps that claim nothing, call nothing and finish nothing.
Outside(r) ==
  \/ Start(r) \/ Search(r) \/ Take(r) \/ Ingest(r) \/ Select(r) \/ PinPlan(r)
  \/ Recheck(r) \/ LookupFound(r) \/ LookupAbsent(r) \/ LookupUnavailable(r)
  \/ PinContext(r) \/ BeginWrites(r) \/ BeginOutputs(r) \/ FinishTicket(r)
  \/ CheckEffect(r) \/ Complete(r) \/ ManualReview(r) \/ Abort(r)

\* Such are all the steps but the claim, the look back, the call and the
\* finish.
LEMMA OutsideIsQuiet ==
  ASSUME TypeInv, NEW r \in Run, Outside(r)
  PROVE  Quiet(r)
<1> USE DEF TypeInv, TypeOK, At, Goto, store, world, scan, work, Quiet,
            OthersStay, Holding, HeldKey
<1>1. CASE Start(r)
  BY <1>1 DEF Start
<1>2. CASE Search(r)
  BY <1>2 DEF Search
<1>3. CASE Take(r)
  BY <1>3 DEF Take
<1>4. CASE Ingest(r)
  BY <1>4 DEF Ingest, DropTicket
<1>5. CASE Select(r)
  BY <1>5 DEF Select
<1>6. CASE PinPlan(r)
  BY <1>6 DEF PinPlan
<1>7. CASE Recheck(r)
  BY <1>7 DEF Recheck
<1>8. CASE LookupFound(r)
  BY <1>8 DEF LookupFound
<1>9. CASE LookupAbsent(r)
  BY <1>9 DEF LookupAbsent
<1>10. CASE LookupUnavailable(r)
  BY <1>10 DEF LookupUnavailable, DropTicket
<1>11. CASE PinContext(r)
  BY <1>11 DEF PinContext
<1>12. CASE BeginWrites(r)
  BY <1>12 DEF BeginWrites
<1>13. CASE BeginOutputs(r)
  BY <1>13 DEF BeginOutputs
<1>14. CASE FinishTicket(r)
  BY <1>14 DEF FinishTicket
<1>15. CASE CheckEffect(r)
  BY <1>15 DEF CheckEffect
<1>16. CASE Complete(r)
  BY <1>16 DEF Complete, DropTicket, SetStatus
<1>17. CASE ManualReview(r)
  BY <1>17 DEF ManualReview, DropTicket, SetStatus
<1>18. CASE Abort(r)
  BY <1>18 DEF Abort, DropTicket
<1> QED
  BY <1>1, <1>2, <1>3, <1>4, <1>5, <1>6, <1>7, <1>8, <1>9,
     <1>10, <1>11, <1>12, <1>13, <1>14, <1>15, <1>16, <1>17, <1>18 DEF Outside

\* A claim makes one execution the only holder of an effect that was never
\* performed.
LEMMA ClaimStep ==
  ASSUME TypeInv, LedgerInv, NEW r \in Run, Claim(r)
  PROVE  LedgerInv' /\ (Ledger!Claim(HeldKey(r)) \/ UNCHANGED <<effect, performed>>)
<1> DEFINE k == HeldKey(r)
<1>1. k \in Key
  BY HeldKeyType DEF Claim, At, TypeInv, Located, OnTicket, Here
<1>2. /\ OthersStay(r)
      /\ HeldKey(r)' = k
      /\ UNCHANGED performed
  BY DEF Claim, At, Goto, OthersStay, HeldKey, store, world, scan, work,
         TypeInv, TypeOK
<1>3. CASE ~Unclaimed(k)
  <2>1. Quiet(r)
    BY <1>2, <1>3 DEF Claim, At, Goto, Quiet, Holding, TypeInv, TypeOK
  <2> QED
    BY <2>1, QuietStep DEF Quiet
<1>4. CASE Unclaimed(k)
  <2>1. /\ effect[k] = "absent"
        /\ effect' = [effect EXCEPT ![k] = "claimed"]
        /\ pc'[r] = "verify"
    BY <1>4 DEF Claim, At, Goto, Unclaimed, TypeInv, TypeOK
  <2>2. performed[k] = 0
    BY <1>1, <2>1 DEF LedgerInv, LedgerIsTrue
  <2>3. effect'[k] = "claimed" /\ \A l \in Key \ {k} : effect'[l] = effect[l]
    BY <1>1, <2>1 DEF TypeInv, TypeOK
  <2>4. AtMostOnce' /\ LedgerIsTrue'
    BY <1>2, <2>3 DEF LedgerInv, AtMostOnce, LedgerIsTrue
  <2>5. \A s \in Run \ {r} : pc[s] \in Holding =>
           HeldKey(s) \in Key /\ HeldKey(s) # k
    <3> SUFFICES ASSUME NEW s \in Run \ {r}, pc[s] \in Holding
                 PROVE  HeldKey(s) \in Key /\ HeldKey(s) # k
      OBVIOUS
    <3>1. HeldKey(s) \in Key
      BY HeldKeyType DEF TypeInv, Located, OnTicket, Here, Holding
    <3>2. effect[HeldKey(s)] = "claimed"
      BY DEF LedgerInv, HeldOnce
    <3> QED
      BY <2>1, <3>1, <3>2
  <2>6. HeldOnce'
    BY <1>1, <1>2, <2>1, <2>2, <2>3, <2>5
       DEF LedgerInv, HeldOnce, OthersStay, Holding
  <2>7. VerdictIsTrue'
    BY <1>2, <2>1 DEF LedgerInv, VerdictIsTrue, OthersStay
  <2>8. Ledger!Claim(k)
    BY <1>2, <2>1 DEF Ledger!Claim
  <2> QED
    BY <2>4, <2>6, <2>7, <2>8 DEF LedgerInv
<1> QED
  BY <1>3, <1>4

\* The second look at the ticket leaves the ledger alone, and gives up only
\* what was not performed.
LEMMA VerifyStep ==
  ASSUME TypeInv, LedgerInv, NEW r \in Run, Verify(r)
  PROVE  LedgerInv' /\ UNCHANGED <<effect, performed>>
<1>1. /\ OthersStay(r)
      /\ HeldKey(r)' = HeldKey(r)
      /\ UNCHANGED <<effect, performed>>
      /\ pc[r] = "verify"
      /\ pc'[r] = "call" \/ (pc'[r] = "finish" /\ result'[r] = "definitely_failed")
  BY DEF Verify, At, Goto, OthersStay, HeldKey, store, world, scan, TypeInv,
         TypeOK
<1>2. AtMostOnce' /\ LedgerIsTrue'
  BY <1>1 DEF LedgerInv, AtMostOnce, LedgerIsTrue
<1>3. HeldOnce'
  BY <1>1 DEF LedgerInv, HeldOnce, OthersStay, Holding
<1>4. VerdictIsTrue'
  BY <1>1 DEF LedgerInv, HeldOnce, VerdictIsTrue, OthersStay
<1> QED
  BY <1>1, <1>2, <1>3, <1>4 DEF LedgerInv

\* A call acts at most once, under the claim, and its verdict is true.
LEMMA CallStep ==
  ASSUME TypeInv, LedgerInv, NEW r \in Run,
         CallAction(r) \/ UpdateTicket(r) \/ SendEmail(r)
  PROVE  LedgerInv' /\ (Ledger!Act(HeldKey(r)) \/ UNCHANGED <<effect, performed>>)
<1> DEFINE k == HeldKey(r)
<1> USE DEF CallAction, UpdateTicket, SendEmail, SendOutput
<1>1. /\ k \in Key
      /\ Delivers(k.effect, mode[r]) <=> k \in DeliveredKey
  BY HeldKeyType DEF At, TypeInv, Located, OnTicket, Here, Holding
<1>2. /\ OthersStay(r)
      /\ HeldKey(r)' = k
      /\ UNCHANGED effect
      /\ pc[r] = "call" /\ pc'[r] = "finish"
  BY DEF CallUnchanged, Ends, At, Goto, OthersStay, HeldKey, store, scan,
         TypeInv, TypeOK
<1>3. effect[k] = "claimed" /\ performed[k] = 0
  BY <1>2 DEF LedgerInv, HeldOnce, Holding
<1>4. /\ \A l \in Key \ {k} : performed'[l] = performed[l]
      /\ performed'[k] \in {0, 1}
      /\ UNCHANGED performed \/ performed' = [performed EXCEPT ![k] = 1]
      /\ result'[r] = "definitely_failed" => performed'[k] = 0
      /\ (result'[r] = "succeeded" /\ k \in DeliveredKey) => performed'[k] = 1
  BY <1>1, <1>3 DEF Takes, Ends, TypeInv, TypeOK
<1>5. AtMostOnce' /\ LedgerIsTrue'
  BY <1>1, <1>2, <1>3, <1>4 DEF LedgerInv, AtMostOnce, LedgerIsTrue
<1>6. \A s \in Run \ {r} : pc[s] \in Holding =>
         HeldKey(s) \in Key /\ HeldKey(s) # k
  BY <1>2, HeldKeyType
     DEF TypeInv, Located, OnTicket, Here, Holding, LedgerInv, HeldOnce
<1>7. HeldOnce'
  BY <1>1, <1>2, <1>3, <1>4, <1>6 DEF LedgerInv, HeldOnce, OthersStay, Holding
<1>8. VerdictIsTrue'
  BY <1>1, <1>2, <1>4, <1>6 DEF LedgerInv, VerdictIsTrue, OthersStay, Holding
<1>9. Ledger!Act(k) \/ UNCHANGED <<effect, performed>>
  BY <1>2, <1>3, <1>4 DEF Ledger!Act
<1> QED
  BY <1>5, <1>7, <1>8, <1>9 DEF LedgerInv

\* The finish writes the verdict that the call left, which is true.
LEMMA FinishStep ==
  ASSUME TypeInv, LedgerInv, NEW r \in Run, FinishEffect(r)
  PROVE  LedgerInv' /\ Ledger!Close(HeldKey(r))
<1> DEFINE k == HeldKey(r)
<1>1. k \in Key
  BY HeldKeyType DEF FinishEffect, At, TypeInv, Located, OnTicket, Here, Holding
<1>2. /\ OthersStay(r)
      /\ UNCHANGED performed
      /\ pc[r] = "finish" /\ pc'[r] = "check"
      /\ effect' = [effect EXCEPT ![k] = result[r]]
  BY DEF FinishEffect, At, Goto, OthersStay, HeldKey, world, scan, TypeInv, TypeOK
<1>3. /\ effect[k] = "claimed"
      /\ result[r] \in Finished
      /\ result[r] = "definitely_failed" => performed[k] = 0
      /\ (result[r] = "succeeded" /\ k \in DeliveredKey) => performed[k] = 1
  BY <1>2 DEF LedgerInv, HeldOnce, VerdictIsTrue, Holding, TypeInv, Located
<1>4. effect'[k] = result[r] /\ \A l \in Key \ {k} : effect'[l] = effect[l]
  BY <1>1, <1>2 DEF TypeInv, TypeOK
<1>5. AtMostOnce' /\ LedgerIsTrue'
  BY <1>1, <1>2, <1>3, <1>4 DEF LedgerInv, AtMostOnce, LedgerIsTrue, Finished
<1>6. \A s \in Run \ {r} : pc[s] \in Holding =>
         HeldKey(s) \in Key /\ HeldKey(s) # k
  BY <1>2, HeldKeyType
     DEF TypeInv, Located, OnTicket, Here, Holding, LedgerInv, HeldOnce
<1>7. HeldOnce'
  BY <1>2, <1>4, <1>6 DEF LedgerInv, HeldOnce, OthersStay, Holding
<1>8. VerdictIsTrue'
  BY <1>2 DEF LedgerInv, VerdictIsTrue, OthersStay
<1>9. Ledger!Close(k)
  BY <1>2, <1>3 DEF Ledger!Close, Finished
<1> QED
  BY <1>5, <1>7, <1>8, <1>9 DEF LedgerInv

\* Every step keeps the invariant and is a step of the abstract ledger.
LEMMA LedgerStep ==
  ASSUME TypeInv, LedgerInv, [Next]_vars
  PROVE  LedgerInv' /\ [Ledger!Next]_<<effect, performed>>
<1>1. ASSUME NEW r \in Run, Step(r) \/ Abort(r)
      PROVE  LedgerInv' /\ [Ledger!Next]_<<effect, performed>>
  <2>1. CASE Outside(r)
    BY <2>1, OutsideIsQuiet, QuietStep DEF Quiet
  <2>2. CASE Claim(r)
    <3>1. HeldKey(r) \in Key
      BY <2>2, HeldKeyType DEF Claim, At, TypeInv, Located, OnTicket, Here
    <3> QED
      BY <2>2, <3>1, ClaimStep DEF Ledger!Next
  <2>3. CASE Verify(r)
    BY <2>3, VerifyStep
  <2>4. CASE CallAction(r) \/ UpdateTicket(r) \/ SendEmail(r)
    <3>1. HeldKey(r) \in Key
      BY <2>4, HeldKeyType DEF CallAction, UpdateTicket, SendEmail, SendOutput,
           At, TypeInv, Located, OnTicket, Here, Holding
    <3> QED
      BY <2>4, <3>1, CallStep DEF Ledger!Next
  <2>5. CASE FinishEffect(r)
    <3>1. HeldKey(r) \in Key
      BY <2>5, HeldKeyType DEF FinishEffect, At, TypeInv, Located, OnTicket,
           Here, Holding
    <3> QED
      BY <2>5, <3>1, FinishStep DEF Ledger!Next
  <2> QED
    BY <1>1, <2>1, <2>2, <2>3, <2>4, <2>5 DEF Step, Lookup, Outside
<1>2. ASSUME UNCHANGED <<effect, performed, pc, tkt, ctx, todo, mode, result>>
      PROVE  LedgerInv' /\ [Ledger!Next]_<<effect, performed>>
  BY <1>2 DEF LedgerInv, AtMostOnce, LedgerIsTrue, HeldOnce, VerdictIsTrue,
              HeldKey
<1>3. ASSUME NEW t \in Ticket, Edit(t)
      PROVE  UNCHANGED <<effect, performed, pc, tkt, ctx, todo, mode, result>>
  BY <1>3 DEF Edit, store, scan, work
<1>4. CASE UNCHANGED vars
  BY <1>2, <1>4 DEF vars, store, world, scan, work
<1> QED
  BY <1>1, <1>2, <1>3, <1>4 DEF Next

\* At first the ledger is empty and nothing was performed, as in the abstract
\* ledger.
LEMMA LedgerInit == Init => LedgerInv /\ Ledger!Init
BY DEF Init, LedgerInv, AtMostOnce, LedgerIsTrue, HeldOnce, VerdictIsTrue,
       Holding, Ledger!Init

\* The type invariant and that of the ledger hold in every state.
LEMMA LedgerInvariant == Spec => [](TypeInv /\ LedgerInv)
BY InitTypeInv, StepTypeInv, LedgerInit, LedgerStep, PTL DEF Spec

\* No effect takes place twice, whatever the number of executions, however
\* they interleave and wherever they are cut short: run_once performs its
\* semantic effects at most once.
THEOREM EffectsOnce == Spec => []AtMostOnce
BY LedgerInvariant, PTL DEF LedgerInv

\* What the ledger says of an effect is true of the world.
THEOREM LedgerTells == Spec => []LedgerIsTrue
BY LedgerInvariant, PTL DEF LedgerInv

\* run_once implements the ledger of one-shot effects.
THEOREM ExecutorImplementsLedger == Spec => ImplementsLedger
<1>1. Init => Ledger!Init
  BY LedgerInit
<1>2. TypeInv /\ LedgerInv /\ [Next]_vars => [Ledger!Next]_<<effect, performed>>
  BY LedgerStep
<1> QED
  BY <1>1, <1>2, LedgerInvariant, PTL DEF Spec, ImplementsLedger, Ledger!Spec

\* How an effect ended is never revised by a later execution.
THEOREM EndsAreFinal == Spec => EndsOnce
<1>1. ASSUME TypeInv, LedgerInv, [Next]_vars,
             NEW k \in Key, effect[k] \in Finished
      PROVE  effect'[k] = effect[k]
  <2>1. CASE UNCHANGED effect
    BY <2>1
  <2>2. ASSUME NEW e \in Key, Ledger!Claim(e) \/ Ledger!Close(e)
        PROVE  effect'[k] = effect[k]
    <3>1. effect[e] \notin Finished
      BY <2>2 DEF Ledger!Claim, Ledger!Close, Finished
    <3> QED
      BY <1>1, <2>2, <3>1 DEF Ledger!Claim, Ledger!Close, TypeInv, TypeOK
  <2> QED
    BY <1>1, <2>1, <2>2, LedgerStep DEF Ledger!Next, Ledger!Act
<1>2. TypeInv /\ LedgerInv /\ [Next]_vars =>
        [\A k \in Key : effect[k] \in Finished => effect'[k] = effect[k]]_vars
  BY <1>1
<1> QED
  BY <1>2, LedgerInvariant, PTL DEF Spec, EndsOnce

-----------------------------------------------------------------------------
(* Plans and targets: what is done for a ticket is one plan, in its order,  *)
(* on one target, and a requester is answered when all of it is done.      *)

HIDE DEF Ticket, NoTicket, Output

\* Where a plan is pinned, where the context is not pinned yet, where both are,
\* and where the effects of the plan are applied.
PlanPinned == {"recheck", "lookup", "pin_context", "writes", "effects", "verify",
               "call", "finish", "check", "complete"}
Choosing == {"select", "pin_plan", "recheck", "lookup"}
Applying == {"effects", "verify", "call", "finish", "check"}
Acting == {"writes"} \cup Applying

\* The execution follows the plan pinned for its ticket.
OnPinnedPlan(r) ==
  pc[r] \in PlanPinned => /\ plan[tkt[r]] \in Plan
                          /\ choice[r] = plan[tkt[r]]

\* It acts on the context pinned for its ticket, if the plan has a lookup, and
\* on none otherwise; what it has before is that context or none.
OnPinnedContext(r) ==
  /\ pc[r] \in Choosing => ctx[r] \in {NoContext, context[tkt[r]]}
  /\ pc[r] \in {"lookup", "pin_context"} => choice[r] \in Lookups
  /\ pc[r] \in Acting => /\ ctx[r] = context[tkt[r]]
                         /\ choice[r] \in Lookups => ctx[r] # NoContext

\* The actions that are left are those of the plan but the first n.
LeftAfter(r, n) ==
  LET w == Writes[choice[r]]
  IN  /\ Len(todo[r]) = Len(w) - n
      /\ \A i \in 1 .. Len(todo[r]) : todo[r][i] = w[n + i]

\* The first n actions of the plan succeeded.
DidFirst(r, n) == Applied(tkt[r], mode[r] = "live", n)

\* It applies the actions in order, and the outputs after all of them.
InStep(r) ==
  /\ answering[r] => pc[r] \in Applying \cup {"complete", "manual"}
  /\ pc[r] \in Applying /\ ~answering[r] =>
       \E n \in 0 .. Len(Writes[choice[r]]) : LeftAfter(r, n) /\ DidFirst(r, n)
  /\ pc[r] \in Applying /\ answering[r] =>
       todo[r] \in Seq(Output) /\ DidFirst(r, Len(Writes[choice[r]]))
  /\ pc[r] = "complete" => DidFirst(r, Len(Writes[choice[r]]))

\* The note that goes with the answer the execution is giving.
NoteOf(r) == KeyOf(tkt[r], "ticket_note", ctx[r], mode[r])

\* The email is in hand only when its note succeeded.
NoteFirst(r) ==
  pc[r] \in Applying /\ answering[r] /\ NotesEmails =>
    \/ todo[r] \in {<<>>, <<"ticket_note">>, <<"ticket_note", "email">>}
    \/ todo[r] = <<"email">> /\ effect[NoteOf(r)] = "succeeded"

RunInv(r) == OnPinnedPlan(r) /\ OnPinnedContext(r) /\ InStep(r) /\ NoteFirst(r)

\* Only a plan with a lookup has a context.
ContextOfPlan == \A t \in Ticket : context[t] # NoContext => plan[t] \in Lookups

\* Write actions are aimed at the context pinned for their ticket.
Aimed ==
  \A k \in Key :
    effect[k] # "absent" /\ k.effect \in Action =>
      /\ plan[k.ticket] \in Plan
      /\ k.target = context[k.ticket]
      /\ plan[k.ticket] \in Lookups => k.target # NoContext

\* Write actions take place live only.
ActsLive == \A k \in Key : performed[k] > 0 /\ k.effect \in Action => k.live

PlanInv ==
  /\ \A r \in Run : RunInv(r)
  /\ ContextOfPlan /\ Aimed /\ ActsLive
  /\ InPlanOrder /\ AnswerIsTrue /\ CompleteIsApplied

-----------------------------------------------------------------------------
(* What a step leaves as it was                                            *)

\* Nothing of the execution moves.
Same(s) ==
  /\ pc'[s] = pc[s] /\ mode'[s] = mode[s] /\ tkt'[s] = tkt[s]
  /\ choice'[s] = choice[s] /\ ctx'[s] = ctx[s] /\ todo'[s] = todo[s]
  /\ answering'[s] = answering[s]

\* What is pinned stays pinned, and what succeeded stays so.
StoreKept ==
  /\ \A t \in Ticket : plan[t] \in Plan => plan'[t] = plan[t]
  /\ \A t \in Ticket : context[t] # NoContext => context'[t] = context[t]
  /\ \A k \in Key : effect[k] = "succeeded" => effect'[k] = "succeeded"

\* A step of an execution moves no other.
LEMMA OthersSame ==
  ASSUME TypeOK, NEW r \in Run, Step(r) \/ Abort(r), NEW s \in Run \ {r}
  PROVE  Same(s)
<1> USE DEF TypeOK, At, Goto, store, world, scan, work, Same
<1>1. CASE Start(r)
  BY <1>1 DEF Start
<1>2. CASE Search(r)
  BY <1>2 DEF Search
<1>3. CASE Take(r)
  BY <1>3 DEF Take
<1>4. CASE Ingest(r)
  BY <1>4 DEF Ingest, DropTicket
<1>5. CASE Select(r)
  BY <1>5 DEF Select
<1>6. CASE PinPlan(r)
  BY <1>6 DEF PinPlan
<1>7. CASE Recheck(r)
  BY <1>7 DEF Recheck
<1>8. CASE LookupFound(r)
  BY <1>8 DEF LookupFound
<1>9. CASE LookupAbsent(r)
  BY <1>9 DEF LookupAbsent
<1>10. CASE LookupUnavailable(r)
  BY <1>10 DEF LookupUnavailable, DropTicket
<1>11. CASE PinContext(r)
  BY <1>11 DEF PinContext
<1>12. CASE BeginWrites(r)
  BY <1>12 DEF BeginWrites
<1>13. CASE BeginOutputs(r)
  BY <1>13 DEF BeginOutputs
<1>14. CASE FinishTicket(r)
  BY <1>14 DEF FinishTicket
<1>15. CASE Claim(r)
  BY <1>15 DEF Claim
<1>16. CASE Verify(r)
  BY <1>16 DEF Verify
<1>17. CASE CallAction(r) \/ UpdateTicket(r) \/ SendEmail(r)
  BY <1>17 DEF CallAction, UpdateTicket, SendEmail, SendOutput, CallUnchanged
<1>18. CASE FinishEffect(r)
  BY <1>18 DEF FinishEffect
<1>19. CASE CheckEffect(r)
  BY <1>19 DEF CheckEffect
<1>20. CASE Complete(r) \/ ManualReview(r)
  BY <1>20 DEF Complete, ManualReview, SetStatus, DropTicket
<1>21. CASE Abort(r)
  BY <1>21 DEF Abort, DropTicket
<1> QED
  BY <1>1, <1>2, <1>3, <1>4, <1>5, <1>6, <1>7, <1>8, <1>9, <1>10, <1>11, <1>12, <1>13, <1>14,
     <1>15, <1>16, <1>17, <1>18, <1>19, <1>20, <1>21 DEF Step, Lookup

\* Only PinPlan and PinContext pin anything.
LEMMA PinSteps ==
  ASSUME NEW r \in Run, Step(r) \/ Abort(r)
  PROVE  /\ PinPlan(r) \/ UNCHANGED plan
         /\ PinContext(r) \/ UNCHANGED context
<1> USE DEF store
<1>1. CASE \/ Start(r) \/ Search(r) \/ Take(r) \/ Ingest(r) \/ Select(r) \/ Recheck(r)
           \/ Lookup(r) \/ BeginWrites(r) \/ BeginOutputs(r) \/ FinishTicket(r)
  BY <1>1, Zenon DEF Start, Search, Take, Ingest, Select, Recheck, Lookup, LookupFound,
     LookupAbsent, LookupUnavailable, BeginWrites, BeginOutputs, FinishTicket
<1>2. CASE PinPlan(r) \/ PinContext(r)
  BY <1>2, Zenon DEF PinPlan, PinContext
<1>3. CASE \/ Claim(r) \/ Verify(r) \/ CallAction(r) \/ UpdateTicket(r) \/ SendEmail(r)
           \/ FinishEffect(r) \/ CheckEffect(r)
  BY <1>3, Zenon DEF Claim, Verify, CallAction, UpdateTicket, SendEmail, SendOutput,
     CallUnchanged, FinishEffect, CheckEffect
<1>4. CASE Complete(r) \/ ManualReview(r) \/ Abort(r)
  BY <1>4, Zenon DEF Complete, ManualReview, SetStatus, Abort
<1> QED
  BY <1>1, <1>2, <1>3, <1>4, Zenon DEF Step

\* A finished effect is not revised.
LEMMA FinishedKept ==
  ASSUME TypeInv, LedgerInv, [Next]_vars, NEW k \in Key, effect[k] \in Finished
  PROVE  effect'[k] = effect[k]
<1>1. CASE UNCHANGED effect
  BY <1>1
<1>2. ASSUME NEW e \in Key, Ledger!Claim(e) \/ Ledger!Close(e)
      PROVE  effect'[k] = effect[k]
  <2>1. effect[e] \notin Finished
    BY <1>2 DEF Ledger!Claim, Ledger!Close, Finished
  <2> QED
    BY <1>2, <2>1 DEF Ledger!Claim, Ledger!Close, TypeInv, TypeOK
<1> QED
  BY <1>1, <1>2, LedgerStep DEF Ledger!Next, Ledger!Act

\* A step of an execution keeps what is pinned and what succeeded.
LEMMA StepKeepsStore ==
  ASSUME TypeInv, LedgerInv, NEW r \in Run, Step(r) \/ Abort(r)
  PROVE  StoreKept
<1>1. \A k \in Key : effect[k] = "succeeded" => effect'[k] = "succeeded"
  BY FinishedKept DEF Finished, Next
<1>2. \A t \in Ticket : plan[t] \in Plan => plan'[t] = plan[t]
  <2>1. CASE PinPlan(r)
    <3>1. tkt[r] \in Ticket /\ plan \in [Ticket -> Plan \cup {NoPlan}]
      BY <2>1 DEF PinPlan, At, TypeInv, TypeOK, Located, OnTicket, Here
    <3> QED
      BY <2>1, <3>1, RecipeAssumption DEF PinPlan, Pinned
  <2> QED
    BY <2>1, PinSteps
<1>3. \A t \in Ticket : context[t] # NoContext => context'[t] = context[t]
  <2>1. CASE PinContext(r)
    <3>1. tkt[r] \in Ticket /\ context \in [Ticket -> Context \cup {NoContext}]
      BY <2>1 DEF PinContext, At, TypeInv, TypeOK, Located, OnTicket, Here
    <3> QED
      BY <2>1, <3>1 DEF PinContext, Pinned
  <2> QED
    BY <2>1, PinSteps
<1> QED
  BY <1>1, <1>2, <1>3 DEF StoreKept

\* What succeeded of a pinned plan stays done.
LEMMA AppliedStays ==
  ASSUME StoreKept, NEW t \in Ticket, plan[t] \in Plan, NEW live, NEW n, Applied(t, live, n)
  PROVE  Applied(t, live, n)'
BY DEF Applied, StoreKept, PlanOf

\* A context comes with a lookup.
LEMMA NextContextOfPlan ==
  ASSUME TypeInv, LedgerInv, PlanInv, NEW r \in Run, Step(r) \/ Abort(r)
  PROVE  ContextOfPlan'
<1> SUFFICES ASSUME NEW t \in Ticket, context'[t] # NoContext
             PROVE  plan'[t] \in Lookups
  BY DEF ContextOfPlan
<1>1. CASE context[t] # NoContext
  BY <1>1, StepKeepsStore, RecipeAssumption DEF PlanInv, ContextOfPlan, StoreKept
<1>2. CASE context[t] = NoContext
  <2>1. PinContext(r)
    BY <1>2, PinSteps
  <2>2. t = tkt[r]
    BY <1>2, <2>1 DEF PinContext, TypeInv, TypeOK
  <2>3. choice[r] \in Lookups /\ plan[t] = choice[r]
    BY <2>1, <2>2 DEF PinContext, At, PlanInv, RunInv, OnPinnedPlan, OnPinnedContext, PlanPinned
  <2> QED
    BY <2>3, StepKeepsStore, RecipeAssumption DEF StoreKept
<1> QED
  BY <1>1, <1>2

\* The note of a ticket in hand has an entry in the ledger.
LEMMA NoteIsKey ==
  ASSUME TypeInv, NEW r \in Run, pc[r] \in Applying
  PROVE  NoteOf(r) \in Key
<1>1. tkt[r] \in Ticket /\ mode[r] \in Mode
  BY DEF Applying, TypeInv, TypeOK, Located, OnTicket, Here
<1> QED
  BY <1>1 DEF NoteOf, KeyOf, Key, Output

\* An execution that does not move keeps its part of the invariant.
LEMMA SameRunInv ==
  ASSUME TypeInv, PlanInv, NEW s \in Run, Same(s), StoreKept, ContextOfPlan'
  PROVE  RunInv(s)'
<1>1. pc[s] \in PlanPinned \cup Choosing => tkt[s] \in Ticket
  BY DEF PlanPinned, Choosing, TypeInv, Located, OnTicket, Here
<1>2. OnPinnedPlan(s)'
  BY <1>1 DEF PlanInv, RunInv, OnPinnedPlan, Same, StoreKept
<1>3. OnPinnedContext(s)'
  <2>1. CASE pc[s] \in Choosing
    <3>1. ctx[s] \in {NoContext, context'[tkt[s]]}
      BY <1>1, <2>1 DEF PlanInv, RunInv, OnPinnedContext, StoreKept
    <3>2. pc[s] \notin Acting
      BY <2>1 DEF Choosing, Acting, Applying
    <3> QED
      BY <2>1, <3>1, <3>2 DEF PlanInv, RunInv, OnPinnedContext, Same
  <2>2. CASE pc[s] \in Acting
    <3>1. tkt[s] \in Ticket /\ plan'[tkt[s]] = choice[s]
      BY <1>1, <2>2 DEF Acting, Applying, PlanPinned, PlanInv, RunInv, OnPinnedPlan, StoreKept
    <3>2. /\ ctx[s] = context[tkt[s]]
          /\ choice[s] \in Lookups => ctx[s] # NoContext
      BY <2>2 DEF PlanInv, RunInv, OnPinnedContext
    <3>3. context'[tkt[s]] = context[tkt[s]]
      BY <3>1, <3>2 DEF StoreKept, ContextOfPlan
    <3>4. pc[s] \notin Choosing \cup {"lookup", "pin_context"}
      BY <2>2 DEF Choosing, Acting, Applying
    <3> QED
      BY <3>2, <3>3, <3>4 DEF OnPinnedContext, Same
  <2> QED
    BY <2>1, <2>2 DEF PlanInv, RunInv, OnPinnedContext, Same
<1>4. InStep(s)'
  <2>1. \A n : pc[s] \in PlanPinned /\ DidFirst(s, n) => DidFirst(s, n)'
    <3> SUFFICES ASSUME NEW n, pc[s] \in PlanPinned, DidFirst(s, n)
                 PROVE  DidFirst(s, n)'
      OBVIOUS
    <3>1. plan[tkt[s]] \in Plan
      BY DEF PlanInv, RunInv, OnPinnedPlan
    <3> QED
      BY <1>1, <3>1, AppliedStays DEF DidFirst, Same
  <2>2. Applying \cup {"complete"} \subseteq PlanPinned
    BY DEF Applying, PlanPinned
  <2>3. \A n : LeftAfter(s, n) => LeftAfter(s, n)'
    BY DEF LeftAfter, Same
  <2>4. InStep(s)
    BY DEF PlanInv, RunInv
  <2> QED
    BY <2>1, <2>2, <2>3, <2>4 DEF InStep, Same
<1>5. NoteFirst(s)'
  <2>1. pc[s] \in Applying => NoteOf(s) \in Key
    BY NoteIsKey
  <2>2. NoteOf(s)' = NoteOf(s)
    BY DEF NoteOf, KeyOf, Same
  <2>3. NoteFirst(s)
    BY DEF PlanInv, RunInv
  <2> QED
    BY <2>1, <2>2, <2>3 DEF NoteFirst, Same, StoreKept
<1> QED
  BY <1>2, <1>3, <1>4, <1>5 DEF RunInv

-----------------------------------------------------------------------------
(* The execution that moves                                                *)

\* The steps after which no plan is pinned.
Unplanned(r) ==
  \/ Start(r) \/ Search(r) \/ Take(r) \/ Ingest(r) \/ Select(r)
  \/ LookupUnavailable(r) \/ LookupAbsent(r) \/ Complete(r) \/ ManualReview(r) \/ Abort(r)

\* The steps on a pinned plan that keep it in hand.
OnPlan(r) ==
  \/ Recheck(r) \/ LookupFound(r) \/ PinContext(r) \/ BeginWrites(r) \/ BeginOutputs(r)
  \/ FinishTicket(r) \/ Claim(r) \/ Verify(r)
  \/ CallAction(r) \/ UpdateTicket(r) \/ SendEmail(r) \/ FinishEffect(r) \/ CheckEffect(r)

\* Every step is of one kind or pins a plan.
LEMMA KindsOfSteps ==
  ASSUME NEW r \in Run, Step(r) \/ Abort(r)
  PROVE  Unplanned(r) \/ PinPlan(r) \/ OnPlan(r)
BY Zenon DEF Step, Lookup, Unplanned, OnPlan

\* After these steps no plan is in hand.
LEMMA UnplannedEnds ==
  ASSUME TypeOK, NEW r \in Run, Unplanned(r)
  PROVE  pc'[r] \notin PlanPinned
<1> USE DEF TypeOK, At, Goto, PlanPinned
<1>1. CASE Start(r)
  BY <1>1 DEF Start
<1>2. CASE Search(r)
  BY <1>2 DEF Search
<1>3. CASE Take(r)
  BY <1>3 DEF Take
<1>4. CASE Ingest(r)
  BY <1>4 DEF Ingest
<1>5. CASE Select(r)
  BY <1>5 DEF Select
<1>6. CASE LookupUnavailable(r)
  BY <1>6 DEF LookupUnavailable
<1>7. CASE LookupAbsent(r)
  BY <1>7 DEF LookupAbsent
<1>8. CASE Complete(r) \/ ManualReview(r)
  BY <1>8 DEF Complete, ManualReview, SetStatus
<1>9. CASE Abort(r)
  BY <1>9 DEF Abort
<1> QED
  BY <1>1, <1>2, <1>3, <1>4, <1>5, <1>6, <1>7, <1>8, <1>9 DEF Unplanned

\* These steps keep the ticket and the plan in hand, and the switches.
LEMMA OnPlanKeeps ==
  ASSUME TypeOK, NEW r \in Run, OnPlan(r)
  PROVE  pc[r] \in PlanPinned /\ UNCHANGED <<tkt, choice, mode>>
<1> USE DEF TypeOK, At, Goto, PlanPinned, store, world, scan, work
<1>1. CASE Recheck(r) \/ LookupFound(r) \/ PinContext(r)
  BY <1>1 DEF Recheck, LookupFound, PinContext
<1>2. CASE BeginWrites(r) \/ BeginOutputs(r) \/ FinishTicket(r)
  BY <1>2 DEF BeginWrites, BeginOutputs, FinishTicket
<1>3. CASE Claim(r) \/ Verify(r)
  BY <1>3 DEF Claim, Verify
<1>4. CASE CallAction(r) \/ UpdateTicket(r) \/ SendEmail(r)
  BY <1>4 DEF CallAction, UpdateTicket, SendEmail, SendOutput, CallUnchanged
<1>5. CASE FinishEffect(r) \/ CheckEffect(r)
  BY <1>5 DEF FinishEffect, CheckEffect
<1> QED
  BY <1>1, <1>2, <1>3, <1>4, <1>5 DEF OnPlan

\* The execution that moves keeps to the pinned plan.
LEMMA MoverPlan ==
  ASSUME TypeInv, LedgerInv, PlanInv, NEW r \in Run, Step(r) \/ Abort(r)
  PROVE  OnPinnedPlan(r)'
<1>1. CASE Unplanned(r)
  BY <1>1, UnplannedEnds DEF OnPinnedPlan, TypeInv
<1>2. CASE PinPlan(r)
  <2>1. tkt[r] \in Ticket /\ choice[r] \in Plan
    BY <1>2 DEF PinPlan, At, TypeInv, Located, OnTicket, Planned, Here
  <2> QED
    BY <1>2, <2>1, RecipeAssumption
       DEF PinPlan, Pinned, store, world, scan, OnPinnedPlan, TypeInv, TypeOK
<1>3. CASE OnPlan(r)
  <2>1. pc[r] \in PlanPinned /\ UNCHANGED <<tkt, choice, mode>>
    BY <1>3, OnPlanKeeps DEF TypeInv
  <2>2. tkt[r] \in Ticket
    BY <2>1 DEF PlanPinned, TypeInv, Located, OnTicket, Here
  <2> QED
    BY <2>1, <2>2, StepKeepsStore DEF PlanInv, RunInv, OnPinnedPlan, StoreKept
<1> QED
  BY <1>1, <1>2, <1>3, KindsOfSteps

\* The execution that moves keeps to the pinned context.
LEMMA MoverContext ==
  ASSUME TypeInv, LedgerInv, PlanInv, NEW r \in Run, Step(r) \/ Abort(r)
  PROVE  OnPinnedContext(r)'
<1> USE DEF At, Goto, store, world, scan, work
<1>1. CASE Ingest(r)
  <2>1. tkt[r] \in Ticket
    BY <1>1 DEF Ingest, TypeInv, Located, OnTicket, Here
  <2>2. CASE pc'[r] = "select" /\ UNCHANGED tkt /\ ctx' = [ctx EXCEPT ![r] = context[tkt[r]]]
    BY <1>1, <2>1, <2>2
       DEF Ingest, OnPinnedContext, Choosing, Acting, Applying, TypeInv, TypeOK
  <2>3. CASE pc'[r] \in {"next", "manual"}
    BY <2>3 DEF OnPinnedContext, Choosing, Acting, Applying
  <2> QED
    BY <1>1, <2>2, <2>3 DEF Ingest, TypeInv, TypeOK
<1>2. CASE Unplanned(r) /\ ~Ingest(r) /\ ~Select(r)
  <2>1. pc'[r] \in {"search", "next", "ingest", "idle", "manual"}
    BY <1>2 DEF Unplanned, Start, Search, Take, LookupUnavailable, LookupAbsent, Complete,
                ManualReview, SetStatus, Abort, TypeInv, TypeOK
  <2> QED
    BY <2>1 DEF OnPinnedContext, Choosing, Acting, Applying
<1>3. CASE Select(r) \/ PinPlan(r)
  <2>1. /\ pc[r] \in Choosing /\ pc'[r] \in {"pin_plan", "manual", "complete", "recheck"}
        /\ UNCHANGED <<ctx, tkt, context>>
    BY <1>3 DEF Select, PinPlan, Choosing, TypeInv, TypeOK
  <2>2. pc'[r] \notin Acting \cup {"lookup", "pin_context"}
    BY <2>1 DEF Acting, Applying
  <2> QED
    BY <2>1, <2>2 DEF PlanInv, RunInv, OnPinnedContext
<1>4. CASE Recheck(r)
  <2>1. /\ pc[r] = "recheck" /\ UNCHANGED <<ctx, tkt, context, choice, plan>>
        /\ \/ pc'[r] = "manual"
           \/ pc'[r] = "lookup" /\ choice[r] \in Lookups
           \/ pc'[r] = "writes" /\ choice[r] \notin Lookups
    BY <1>4 DEF Recheck, TypeInv, TypeOK
  <2>2. /\ tkt[r] \in Ticket /\ choice[r] = plan[tkt[r]]
        /\ ctx[r] \in {NoContext, context[tkt[r]]}
    BY <2>1 DEF TypeInv, Located, OnTicket, Here, PlanInv, RunInv, OnPinnedPlan, OnPinnedContext,
                PlanPinned, Choosing
  <2>3. CASE pc'[r] = "writes" /\ choice[r] \notin Lookups
    <3>1. context[tkt[r]] = NoContext /\ ctx[r] = NoContext
      BY <2>2, <2>3 DEF PlanInv, ContextOfPlan
    <3> QED
      BY <2>1, <2>3, <3>1 DEF OnPinnedContext, Choosing
  <2> QED
    BY <2>1, <2>2, <2>3 DEF OnPinnedContext, Acting, Applying
<1>5. CASE LookupFound(r)
  <2>1. pc[r] = "lookup" /\ pc'[r] = "pin_context" /\ UNCHANGED choice
    BY <1>5 DEF LookupFound, TypeInv, TypeOK
  <2> QED
    BY <2>1 DEF PlanInv, RunInv, OnPinnedContext, Choosing, Acting, Applying
<1>6. CASE PinContext(r)
  <2>1. /\ tkt[r] \in Ticket /\ ctx[r] \in Context
        /\ pc[r] = "pin_context" /\ pc'[r] = "writes" /\ UNCHANGED <<tkt, choice>>
    BY <1>6 DEF PinContext, TypeInv, TypeOK, Located, OnTicket, Here
  <2>2. ctx'[r] = context'[tkt[r]] /\ ctx'[r] # NoContext
    BY <1>6, <2>1, RecipeAssumption DEF PinContext, Pinned, TypeInv, TypeOK
  <2> QED
    BY <2>1, <2>2 DEF OnPinnedContext, Choosing
<1>7. CASE OnPlan(r) /\ ~Recheck(r) /\ ~LookupFound(r) /\ ~PinContext(r)
  <2>1. pc[r] \in Acting /\ UNCHANGED <<tkt, choice, ctx, context>>
    BY <1>7 DEF OnPlan, BeginWrites, BeginOutputs, FinishTicket, Claim, Verify, CallAction,
                UpdateTicket, SendEmail, SendOutput, CallUnchanged, FinishEffect, CheckEffect,
                Acting, Applying
  <2>2. pc'[r] \in Acting \cup {"manual", "complete"}
    BY <1>7 DEF OnPlan, BeginWrites, BeginOutputs, FinishTicket, Claim, Verify, CallAction,
                UpdateTicket, SendEmail, SendOutput, CallUnchanged, FinishEffect, CheckEffect,
                Acting, Applying, TypeInv, TypeOK
  <2>3. pc'[r] \notin Choosing \cup {"lookup", "pin_context"}
    BY <2>2 DEF Choosing, Acting, Applying
  <2> QED
    BY <2>1, <2>3 DEF PlanInv, RunInv, OnPinnedContext
<1> QED
  BY <1>1, <1>2, <1>3, <1>4, <1>5, <1>6, <1>7, KindsOfSteps

\* What an execution with a plan in hand has done stays done.
LEMMA DidFirstStays ==
  ASSUME TypeInv, LedgerInv, PlanInv, NEW r \in Run, Step(r) \/ Abort(r),
         pc[r] \in PlanPinned, UNCHANGED <<tkt, choice, mode>>, NEW n, DidFirst(r, n)
  PROVE  DidFirst(r, n)'
<1>1. tkt[r] \in Ticket /\ plan[tkt[r]] \in Plan
  BY DEF PlanPinned, TypeInv, Located, OnTicket, Here, PlanInv, RunInv, OnPinnedPlan
<1> QED
  BY <1>1, StepKeepsStore, AppliedStays DEF DidFirst

\* The effect in hand is the next action of the plan or an output.
LEMMA NextToDo ==
  ASSUME TypeInv, PlanInv, NEW r \in Run, pc[r] \in Applying, todo[r] # <<>>
  PROVE  /\ answering[r] => Head(todo[r]) \in Output
         /\ ~answering[r] =>
              /\ Head(todo[r]) \in Action
              /\ \E n \in 0 .. Len(Writes[choice[r]]) - 1 :
                   /\ Head(todo[r]) = Writes[choice[r]][n + 1]
                   /\ LeftAfter(r, n) /\ DidFirst(r, n)
<1> DEFINE w == Writes[choice[r]]
<1>1. InStep(r)
  BY DEF PlanInv, RunInv
<1>2. CASE answering[r]
  <2>1. todo[r] \in Seq(Output)
    BY <1>1, <1>2 DEF InStep
  <2> QED
    BY <1>2, <2>1, HeadTailProperties
<1>3. CASE ~answering[r]
  <2>1. choice[r] \in Plan
    BY DEF PlanInv, RunInv, OnPinnedPlan, Applying, PlanPinned
  <2>2. w \in Seq(Action) /\ Len(w) \in Nat
    BY <2>1, RecipeAssumption
  <2>3. todo[r] \in Seq(Action \cup Output)
    BY DEF TypeInv, TypeOK
  <2>4. Len(todo[r]) \in Nat \ {0} /\ Head(todo[r]) = todo[r][1]
    BY <2>3, HeadTailProperties, EmptySeq, LenProperties
  <2>5. PICK n \in 0 .. Len(w) : LeftAfter(r, n) /\ DidFirst(r, n)
    BY <1>1, <1>3 DEF InStep
  <2>6. Len(todo[r]) = Len(w) - n /\ todo[r][1] = w[n + 1]
    BY <2>4, <2>5 DEF LeftAfter
  <2>7. n \in 0 .. Len(w) - 1 /\ n + 1 \in 1 .. Len(w)
    BY <2>2, <2>4, <2>5, <2>6
  <2>8. w[n + 1] \in Action
    BY <2>2, <2>7, ElementOfSeq
  <2> QED
    BY <1>3, <2>4, <2>5, <2>6, <2>7, <2>8
<1> QED
  BY <1>2, <1>3

\* The execution that moves applies its plan in order.
LEMMA MoverInStep ==
  ASSUME TypeInv, LedgerInv, PlanInv, NEW r \in Run, Step(r) \/ Abort(r)
  PROVE  InStep(r)'
<1> USE DEF At, Goto, store, world, scan, work
<1>1. InStep(r) /\ OnPinnedPlan(r)
  BY DEF PlanInv, RunInv
<1>2. CASE Unplanned(r)
  <2>1. pc'[r] \notin PlanPinned
    BY <1>2, UnplannedEnds DEF TypeInv
  <2>2. pc'[r] \notin Applying \cup {"complete"}
    BY <2>1 DEF Applying, PlanPinned
  <2>3. CASE DropTicket(r)
    BY <2>2, <2>3 DEF InStep, DropTicket, TypeInv, TypeOK
  <2>4. CASE UNCHANGED answering /\ pc[r] \notin Applying \cup {"complete", "manual"}
    BY <1>1, <2>2, <2>4 DEF InStep
  <2> QED
    BY <1>2, <2>3, <2>4 DEF Unplanned, Start, Search, Take, Ingest, Select, LookupUnavailable,
       LookupAbsent, Complete, ManualReview, SetStatus, Abort, Applying
<1>3. CASE PinPlan(r)
  <2>1. UNCHANGED answering /\ ~answering[r]
    BY <1>1, <1>3 DEF PinPlan, InStep, Applying
  <2>2. CASE pc'[r] = "recheck"
    BY <2>1, <2>2 DEF InStep, Applying
  <2>3. CASE pc'[r] = "complete" /\ Writes[choice'[r]] = <<>>
    <3>1. Len(Writes[choice'[r]]) = 0
      BY <2>3
    <3>2. DidFirst(r, 0)'
      BY DEF DidFirst, Applied
    <3> QED
      BY <2>1, <2>3, <3>1, <3>2 DEF InStep, Applying
  <2> QED
    BY <1>3, <2>2, <2>3 DEF PinPlan, IsNoop, TypeInv, TypeOK
<1>4. CASE Recheck(r) \/ LookupFound(r) \/ PinContext(r)
  <2>1. /\ UNCHANGED answering /\ ~answering[r]
        /\ pc'[r] \notin Applying \cup {"complete"}
    BY <1>1, <1>4 DEF Recheck, LookupFound, PinContext, InStep, Applying, TypeInv, TypeOK
  <2> QED
    BY <2>1 DEF InStep
<1>5. CASE BeginWrites(r)
  <2>1. /\ UNCHANGED <<answering, choice>> /\ ~answering[r] /\ pc'[r] = "effects"
        /\ todo'[r] = Writes[choice[r]]
    BY <1>1, <1>5 DEF BeginWrites, InStep, Applying, TypeInv, TypeOK
  <2>2. Writes[choice[r]] \in Seq(Action)
    BY <1>5, RecipeAssumption DEF BeginWrites, TypeInv, Located, Planned
  <2>3. LeftAfter(r, 0)' /\ DidFirst(r, 0)' /\ 0 \in 0 .. Len(Writes[choice[r]])
    BY <2>1, <2>2 DEF LeftAfter, DidFirst, Applied
  <2> QED
    BY <2>1, <2>3 DEF InStep
<1>6. CASE BeginOutputs(r)
  <2>1. pc[r] = "effects" /\ ~answering[r] /\ todo[r] = <<>> /\ UNCHANGED <<choice, mode, tkt>>
    BY <1>6 DEF BeginOutputs
  <2>2. CASE pc'[r] = "manual" /\ UNCHANGED answering
    BY <2>1, <2>2 DEF InStep, Applying
  <2>3. ASSUME NEW outs, todo' = [todo EXCEPT ![r] = InOrder(outs)],
               answering' = [answering EXCEPT ![r] = TRUE], UNCHANGED pc
        PROVE  InStep(r)'
    <3>1. PICK n \in 0 .. Len(Writes[choice[r]]) : LeftAfter(r, n) /\ DidFirst(r, n)
      BY <1>1, <2>1 DEF InStep, Applying
    <3>2. choice[r] \in Plan
      BY <1>1, <2>1 DEF OnPinnedPlan, PlanPinned
    <3>3. Writes[choice[r]] \in Seq(Action)
      BY <3>2, RecipeAssumption
    <3>4. n = Len(Writes[choice[r]])
      BY <2>1, <3>1, <3>3 DEF LeftAfter
    <3>5. DidFirst(r, Len(Writes[choice[r]]))'
      BY <2>1, <3>1, <3>4, DidFirstStays DEF PlanPinned
    <3>6. InOrder(outs) \in Seq(Output)
      <4>1. <<"ticket_note">> \in Seq(Output)
        BY DEF Output
      <4>2. <<"email">> \in Seq(Output)
        BY DEF Output
      <4>3. <<>> \in Seq(Output)
        OBVIOUS
      <4> QED
        BY <4>1, <4>2, <4>3, ConcatProperties DEF InOrder
    <3> QED
      BY <2>1, <2>3, <3>5, <3>6 DEF InStep, Applying, TypeInv, TypeOK
  <2> QED
    BY <1>6, <2>2, <2>3 DEF BeginOutputs, TypeInv, TypeOK
<1>7. CASE FinishTicket(r)
  <2>1. /\ pc[r] = "effects" /\ answering[r] /\ pc'[r] = "complete"
        /\ UNCHANGED <<choice, mode, tkt, answering>>
    BY <1>7 DEF FinishTicket, TypeInv, TypeOK
  <2>2. DidFirst(r, Len(Writes[choice[r]]))'
    BY <1>1, <2>1, DidFirstStays DEF InStep, Applying, PlanPinned
  <2> QED
    BY <2>1, <2>2 DEF InStep, Applying
<1>8. CASE \/ Claim(r) \/ Verify(r) \/ CallAction(r) \/ UpdateTicket(r) \/ SendEmail(r)
           \/ FinishEffect(r)
  <2>1. /\ pc[r] \in Applying /\ pc'[r] \in Applying
        /\ UNCHANGED <<tkt, choice, mode, todo, answering>>
    BY <1>8 DEF Claim, Verify, CallAction, UpdateTicket, SendEmail, SendOutput, CallUnchanged,
                FinishEffect, Applying, TypeInv, TypeOK
  <2>2. pc[r] \in PlanPinned /\ pc'[r] # "complete"
    BY <2>1 DEF Applying, PlanPinned
  <2>3. \A n : DidFirst(r, n) => DidFirst(r, n)'
    BY <2>1, <2>2, DidFirstStays
  <2>4. \A n : LeftAfter(r, n) => LeftAfter(r, n)'
    BY <2>1 DEF LeftAfter
  <2> QED
    BY <1>1, <2>1, <2>2, <2>3, <2>4 DEF InStep
<1>9. CASE CheckEffect(r)
  <2>1. /\ pc[r] = "check" /\ todo[r] # <<>> /\ tkt[r] \in Ticket
        /\ UNCHANGED <<tkt, choice, mode, ctx, effect, plan, answering>>
    BY <1>9 DEF CheckEffect, TypeInv, TypeOK, Located, Holding, OnTicket, Here
  <2>2. CASE pc'[r] = "manual"
    BY <2>2 DEF InStep, Applying
  <2>3. CASE /\ effect[HeldKey(r)] = "succeeded" /\ pc'[r] = "effects"
             /\ todo'[r] = Tail(todo[r])
    <3>1. CASE answering[r]
      <4>1. todo[r] \in Seq(Output) /\ DidFirst(r, Len(Writes[choice[r]]))
        BY <1>1, <2>1, <3>1 DEF InStep, Applying
      <4>2. Tail(todo[r]) \in Seq(Output)
        BY <2>1, <4>1, HeadTailProperties
      <4>3. DidFirst(r, Len(Writes[choice[r]]))'
        BY <2>1, <4>1, DidFirstStays DEF PlanPinned
      <4> QED
        BY <2>1, <2>3, <3>1, <4>2, <4>3 DEF InStep, Applying
    <3>2. CASE ~answering[r]
      <4>1. PICK n \in 0 .. Len(Writes[choice[r]]) - 1 :
              /\ Head(todo[r]) = Writes[choice[r]][n + 1]
              /\ LeftAfter(r, n) /\ DidFirst(r, n)
        BY <2>1, <3>2, NextToDo DEF Applying
      <4>2. choice[r] = plan[tkt[r]] /\ choice[r] \in Plan
        BY <1>1, <2>1 DEF OnPinnedPlan, PlanPinned
      <4>3. Writes[choice[r]] \in Seq(Action) /\ Len(Writes[choice[r]]) \in Nat
        BY <4>2, RecipeAssumption
      <4>4. todo[r] \in Seq(Action \cup Output)
        BY DEF TypeInv, TypeOK
      <4>5. LeftAfter(r, n + 1)'
        <5>1. Len(Tail(todo[r])) = Len(todo[r]) - 1
              /\ \A i \in 1 .. Len(Tail(todo[r])) : Tail(todo[r])[i] = todo[r][i + 1]
          BY <2>1, <4>4, HeadTailProperties
        <5>2. Len(todo[r]) \in Nat
          BY <4>4, LenProperties
        <5>3. \A i \in 1 .. Len(Tail(todo[r])) : i + 1 \in 1 .. Len(todo[r])
          BY <5>1, <5>2
        <5>4. Len(todo[r]) = Len(Writes[choice[r]]) - n
              /\ \A i \in 1 .. Len(todo[r]) : todo[r][i] = Writes[choice[r]][n + i]
          BY <4>1 DEF LeftAfter
        <5>5. \A i \in 1 .. Len(Tail(todo[r])) :
                Tail(todo[r])[i] = Writes[choice[r]][n + 1 + i]
          <6> TAKE i \in 1 .. Len(Tail(todo[r]))
          <6>1. Tail(todo[r])[i] = todo[r][i + 1]
            BY <5>1
          <6>2. todo[r][i + 1] = Writes[choice[r]][n + (i + 1)]
            BY <5>3, <5>4
          <6>3. n + (i + 1) = n + 1 + i
            BY <4>1
          <6> QED
            BY <6>1, <6>2, <6>3
        <5>6. Len(Tail(todo[r])) = Len(Writes[choice[r]]) - (n + 1)
          BY <4>3, <5>1, <5>2, <5>4
        <5> QED
          BY <2>1, <2>3, <5>5, <5>6 DEF LeftAfter
      <4>6. DidFirst(r, n + 1)
        <5>1. /\ HeldKey(r) \in Key
              /\ HeldKey(r).ticket = tkt[r]
              /\ HeldKey(r).effect = Head(todo[r])
              /\ HeldKey(r).live = (mode[r] = "live")
          BY <2>1, HeldKeyType DEF HeldKey, KeyOf, TypeInv
        <5>2. HeldKey(r).effect = PlanOf(tkt[r])[n + 1]
          BY <4>1, <4>2, <5>1 DEF PlanOf
        <5>3. \A i \in 1 .. n + 1 : i \in 1 .. n \/ i = n + 1
          BY <4>1
        <5> QED
          BY <2>3, <4>1, <5>1, <5>2, <5>3 DEF DidFirst, Applied
      <4>7. DidFirst(r, n + 1)'
        BY <2>1, <4>6, DidFirstStays DEF PlanPinned
      <4>8. n + 1 \in 0 .. Len(Writes[choice[r]])
        BY <4>1, <4>3
      <4> QED
        BY <2>1, <2>3, <3>2, <4>5, <4>7, <4>8 DEF InStep, Applying
    <3> QED
      BY <3>1, <3>2
  <2> QED
    BY <1>9, <2>2, <2>3 DEF CheckEffect, TypeInv, TypeOK
<1> QED
  BY <1>2, <1>3, <1>4, <1>5, <1>6, <1>7, <1>8, <1>9, KindsOfSteps DEF OnPlan

\* What the policy asks for, in order, begins with the note.
LEMMA PolicyNotesFirst ==
  ASSUME NEW r \in Run, NotesEmails, NEW outs \in OutputPolicy(r)
  PROVE  InOrder(outs) \in {<<>>, <<"ticket_note">>, <<"ticket_note", "email">>}
<1>1. outs \in {DefaultOutputs} \cup {Rule[x] : x \in DOMAIN Rule}
  BY DEF OutputPolicy
<1>2. "email" \in outs => "ticket_note" \in outs
  BY <1>1 DEF NotesEmails
<1>3. <<>> \o <<>> = <<>>
  OBVIOUS
<1>4. <<"ticket_note">> \o <<>> = <<"ticket_note">>
  OBVIOUS
<1>5. <<"ticket_note">> \o <<"email">> = <<"ticket_note", "email">>
  <2> DEFINE s == <<"ticket_note">>
             t == <<"email">>
             u == <<"ticket_note", "email">>
  <2>1. s \in Seq(Output)
    BY DEF Output
  <2>2. t \in Seq(Output)
    BY DEF Output
  <2>3. u \in Seq(Output)
    BY DEF Output
  <2>4. Len(s) = 1 /\ Len(t) = 1 /\ Len(u) = 2 /\ s[1] = u[1] /\ t[1] = u[2]
    OBVIOUS
  <2> HIDE DEF s, t, u
  <2>5. s \o t \in Seq(Output)
        /\ Len(s \o t) = Len(s) + Len(t)
        /\ \A i \in 1 .. Len(s) + Len(t) :
             (s \o t)[i] = IF i <= Len(s) THEN s[i] ELSE t[i - Len(s)]
    BY <2>1, <2>2, ConcatProperties
  <2>6. Len(s \o t) = Len(u) /\ \A i \in 1 .. 2 : (s \o t)[i] = u[i]
    BY <2>4, <2>5
  <2>7. s \o t = u
    BY <2>3, <2>4, <2>5, <2>6, SeqEqual
  <2> QED
    BY <2>7 DEF s, t, u
<1> QED
  BY <1>2, <1>3, <1>4, <1>5 DEF InOrder

\* The execution that moves writes the note before it sends the email.
LEMMA MoverNoteFirst ==
  ASSUME TypeInv, LedgerInv, PlanInv, NEW r \in Run, Step(r) \/ Abort(r)
  PROVE  NoteFirst(r)'
<1> USE DEF At, Goto, store, world, scan, work
<1> SUFFICES ASSUME pc'[r] \in Applying, answering'[r], NotesEmails
             PROVE  \/ todo'[r] \in {<<>>, <<"ticket_note">>, <<"ticket_note", "email">>}
                    \/ todo'[r] = <<"email">> /\ effect'[NoteOf(r)'] = "succeeded"
  BY DEF NoteFirst
<1>1. InStep(r) /\ NoteFirst(r)
  BY DEF PlanInv, RunInv
<1>2. CASE Unplanned(r)
  BY <1>2, UnplannedEnds DEF TypeInv, Applying, PlanPinned
<1>3. CASE \/ PinPlan(r) \/ Recheck(r) \/ LookupFound(r) \/ PinContext(r) \/ FinishTicket(r)
           \/ BeginWrites(r)
  BY <1>1, <1>3 DEF PinPlan, Recheck, LookupFound, PinContext, FinishTicket, BeginWrites,
                    InStep, Applying, TypeInv, TypeOK
<1>4. CASE BeginOutputs(r)
  <2>1. PICK outs \in OutputPolicy(r) : todo' = [todo EXCEPT ![r] = InOrder(outs)]
    BY <1>4 DEF BeginOutputs, Applying, TypeInv, TypeOK
  <2> QED
    BY <2>1, PolicyNotesFirst DEF TypeInv, TypeOK
<1>5. CASE \/ Claim(r) \/ Verify(r) \/ CallAction(r) \/ UpdateTicket(r) \/ SendEmail(r)
           \/ FinishEffect(r)
  <2>1. /\ pc[r] \in Applying /\ UNCHANGED <<tkt, choice, ctx, mode, todo, answering>>
    BY <1>5 DEF Claim, Verify, CallAction, UpdateTicket, SendEmail, SendOutput, CallUnchanged,
                FinishEffect, Applying
  <2>2. NoteOf(r) \in Key /\ NoteOf(r)' = NoteOf(r)
    BY <2>1, NoteIsKey DEF NoteOf, KeyOf
  <2>3. effect[NoteOf(r)] = "succeeded" => effect'[NoteOf(r)] = "succeeded"
    BY <2>2, StepKeepsStore DEF StoreKept
  <2> QED
    BY <1>1, <2>1, <2>2, <2>3 DEF NoteFirst
<1>6. CASE CheckEffect(r)
  <2>1. /\ pc[r] = "check" /\ todo[r] # <<>> /\ answering[r]
        /\ UNCHANGED <<tkt, choice, mode, ctx, effect, plan, answering>>
        /\ effect[HeldKey(r)] = "succeeded" /\ todo'[r] = Tail(todo[r])
    BY <1>6 DEF CheckEffect, TypeInv, TypeOK, Located, Holding, OnTicket, Here, Applying
  <2>2. \/ todo[r] = <<"ticket_note">> \/ todo[r] = <<"ticket_note", "email">>
        \/ todo[r] = <<"email">>
    BY <1>1, <2>1 DEF NoteFirst, Applying
  <2>3. CASE todo[r] = <<"ticket_note", "email">>
    <3>1. Tail(todo[r]) = <<"email">> /\ Head(todo[r]) = "ticket_note"
      BY <2>3
    <3>2. HeldKey(r) = NoteOf(r) /\ NoteOf(r)' = NoteOf(r)
      BY <2>1, <3>1 DEF HeldKey, NoteOf, KeyOf
    <3> QED
      BY <2>1, <3>1, <3>2
  <2>4. CASE todo[r] = <<"ticket_note">> \/ todo[r] = <<"email">>
    <3>1. Tail(todo[r]) = <<>>
      <4>1. todo[r] \in Seq(Output) /\ Len(todo[r]) = 1
        BY <1>1, <2>1, <2>4 DEF InStep, Applying
      <4>2. Tail(todo[r]) \in Seq(Output) /\ Len(Tail(todo[r])) = 0
        BY <2>1, <4>1, HeadTailProperties
      <4> QED
        BY <4>2, EmptySeq
    <3> QED
      BY <2>1, <3>1
  <2> QED
    BY <2>2, <2>3, <2>4
<1> QED
  BY <1>2, <1>3, <1>4, <1>5, <1>6, KindsOfSteps DEF OnPlan

-----------------------------------------------------------------------------
(* What was claimed and what was performed                                 *)

\* The effect that a step claims is the one in hand of an execution that is
\* applying its plan.
LEMMA NewlyClaimed ==
  ASSUME TypeInv, LedgerInv, NEW r \in Run, Step(r) \/ Abort(r),
         NEW k \in Key, effect[k] = "absent", effect'[k] # "absent"
  PROVE  Claim(r) /\ k = HeldKey(r)
<1>1. ~UNCHANGED effect
  OBVIOUS
<1>2. CASE Outside(r)
  BY <1>1, <1>2, OutsideIsQuiet DEF Quiet
<1>3. CASE Verify(r)
  BY <1>1, <1>3, VerifyStep
<1>4. CASE CallAction(r) \/ UpdateTicket(r) \/ SendEmail(r)
  BY <1>1, <1>4 DEF CallAction, UpdateTicket, SendEmail, SendOutput, CallUnchanged, store
<1>5. CASE FinishEffect(r)
  <2>1. HeldKey(r) \in Key /\ effect[HeldKey(r)] = "claimed"
    BY <1>5, HeldKeyType
       DEF FinishEffect, At, TypeInv, Located, OnTicket, Here, Holding, LedgerInv, HeldOnce
  <2> QED
    BY <1>5, <2>1 DEF FinishEffect, TypeInv, TypeOK
<1>6. CASE Claim(r)
  BY <1>6 DEF Claim, TypeInv, TypeOK
<1> QED
  BY <1>2, <1>3, <1>4, <1>5, <1>6, Zenon DEF Step, Lookup, Outside

\* What a step performs is the effect in hand of an execution that calls and
\* delivers it.
LEMMA NewlyPerformed ==
  ASSUME TypeInv, LedgerInv, NEW r \in Run, Step(r) \/ Abort(r),
         NEW k \in Key, performed'[k] # performed[k]
  PROVE  pc[r] = "call" /\ k = HeldKey(r) /\ Delivers(k.effect, mode[r])
<1>1. ~UNCHANGED performed
  OBVIOUS
<1>2. CASE Outside(r)
  BY <1>1, <1>2, OutsideIsQuiet DEF Quiet
<1>3. CASE Claim(r) \/ Verify(r) \/ FinishEffect(r)
  BY <1>1, <1>3 DEF Claim, Verify, FinishEffect, world
<1>4. CASE CallAction(r) \/ UpdateTicket(r) \/ SendEmail(r)
  <2>1. pc[r] = "call" /\ Takes(r)
    BY <1>1, <1>4 DEF CallAction, UpdateTicket, SendEmail, SendOutput, At
  <2> QED
    BY <1>1, <2>1 DEF Takes, TypeInv, TypeOK
<1> QED
  BY <1>2, <1>3, <1>4, Zenon DEF Step, Lookup, Outside

\* What the effect in hand is made of.
LEMMA InHand ==
  ASSUME TypeInv, PlanInv, NEW r \in Run, pc[r] \in Applying, todo[r] # <<>>
  PROVE  /\ tkt[r] \in Ticket
         /\ plan[tkt[r]] \in Plan /\ choice[r] = plan[tkt[r]]
         /\ HeldKey(r) \in Key
         /\ HeldKey(r).ticket = tkt[r]
         /\ HeldKey(r).effect = Head(todo[r])
         /\ HeldKey(r).live = (mode[r] = "live")
         /\ Head(todo[r]) \notin Output => HeldKey(r).target = ctx[r]
<1>1. tkt[r] \in Ticket
  BY DEF Applying, TypeInv, Located, OnTicket, Here
<1>2. plan[tkt[r]] \in Plan /\ choice[r] = plan[tkt[r]]
  BY DEF PlanInv, RunInv, OnPinnedPlan, Applying, PlanPinned
<1> QED
  BY <1>1, <1>2, HeldKeyType DEF HeldKey, KeyOf, TypeInv

\* Claimed effects are aimed at the pinned context.
LEMMA NextAimed ==
  ASSUME TypeInv, LedgerInv, PlanInv, NEW r \in Run, Step(r) \/ Abort(r)
  PROVE  Aimed'
<1> SUFFICES ASSUME NEW k \in Key, effect'[k] # "absent", k.effect \in Action
             PROVE  /\ plan'[k.ticket] \in Plan
                    /\ k.target = context'[k.ticket]
                    /\ plan'[k.ticket] \in Lookups => k.target # NoContext
  BY DEF Aimed
<1>1. k.ticket \in Ticket
  BY DEF Key
<1>2. /\ plan[k.ticket] \in Plan
      /\ k.target = context[k.ticket]
      /\ plan[k.ticket] \in Lookups => k.target # NoContext
  <2>1. CASE effect[k] # "absent"
    BY <2>1 DEF PlanInv, Aimed
  <2>2. CASE effect[k] = "absent"
    <3>1. Claim(r) /\ k = HeldKey(r)
      BY <2>2, NewlyClaimed
    <3>2. pc[r] = "effects" /\ todo[r] # <<>>
      BY <3>1 DEF Claim, At
    <3>3. pc[r] \in Applying /\ pc[r] \in Acting
      BY <3>2 DEF Applying, Acting
    <3>4. k.effect \notin Output
      BY RecipeAssumption
    <3>5. k.target = ctx[r] /\ k.ticket = tkt[r] /\ choice[r] = plan[tkt[r]]
          /\ plan[tkt[r]] \in Plan
      BY <3>1, <3>2, <3>3, <3>4, InHand
    <3> QED
      BY <3>3, <3>5 DEF PlanInv, RunInv, OnPinnedContext
  <2> QED
    BY <2>1, <2>2
<1>3. plan'[k.ticket] = plan[k.ticket]
  BY <1>1, <1>2, StepKeepsStore DEF StoreKept
<1>4. context'[k.ticket] = context[k.ticket]
  <2>1. CASE context[k.ticket] # NoContext
    BY <1>1, <2>1, StepKeepsStore DEF StoreKept
  <2>2. CASE context[k.ticket] = NoContext
    BY <1>1, <1>2, <1>3, <2>2, NextContextOfPlan DEF ContextOfPlan
  <2> QED
    BY <2>1, <2>2
<1> QED
  BY <1>2, <1>3, <1>4

\* An action is claimed when those before it in the plan succeeded.
LEMMA NextInPlanOrder ==
  ASSUME TypeInv, LedgerInv, PlanInv, NEW r \in Run, Step(r) \/ Abort(r)
  PROVE  InPlanOrder'
<1> SUFFICES ASSUME NEW k \in Key, effect'[k] # "absent", k.effect \in Action
             PROVE  (\E j \in DOMAIN PlanOf(k.ticket) :
                       /\ PlanOf(k.ticket)[j] = k.effect
                       /\ Applied(k.ticket, k.live, j - 1))'
  BY DEF InPlanOrder
<1>1. k.ticket \in Ticket
  BY DEF Key
<1>2. /\ plan[k.ticket] \in Plan
      /\ \E j \in DOMAIN PlanOf(k.ticket) :
           PlanOf(k.ticket)[j] = k.effect /\ Applied(k.ticket, k.live, j - 1)
  <2>1. CASE effect[k] # "absent"
    BY <2>1 DEF PlanInv, Aimed, InPlanOrder
  <2>2. CASE effect[k] = "absent"
    <3>1. Claim(r) /\ k = HeldKey(r)
      BY <2>2, NewlyClaimed
    <3>2. pc[r] = "effects" /\ todo[r] # <<>>
      BY <3>1 DEF Claim, At
    <3>3. pc[r] \in Applying
      BY <3>2 DEF Applying
    <3>4. /\ k.ticket = tkt[r] /\ choice[r] = plan[tkt[r]] /\ plan[tkt[r]] \in Plan
          /\ k.effect = Head(todo[r]) /\ k.live = (mode[r] = "live")
      BY <3>1, <3>2, <3>3, InHand
    <3>5. ~answering[r]
      BY <3>2, <3>3, <3>4, NextToDo, RecipeAssumption DEF TypeInv, TypeOK
    <3>6. PICK n \in 0 .. Len(Writes[choice[r]]) - 1 :
            /\ Head(todo[r]) = Writes[choice[r]][n + 1]
            /\ DidFirst(r, n)
      BY <3>2, <3>3, <3>5, NextToDo
    <3>7. Writes[choice[r]] \in Seq(Action)
      BY <3>4, RecipeAssumption
    <3>8. n + 1 \in DOMAIN Writes[choice[r]] /\ (n + 1) - 1 = n
      BY <3>6, <3>7
    <3>9. /\ PlanOf(k.ticket) = Writes[choice[r]]
          /\ Applied(k.ticket, k.live, n)
      BY <3>4, <3>6 DEF PlanOf, DidFirst
    <3> QED
      BY <3>4, <3>6, <3>8, <3>9
  <2> QED
    BY <2>1, <2>2
<1>3. PlanOf(k.ticket)' = PlanOf(k.ticket)
  BY <1>1, <1>2, StepKeepsStore DEF StoreKept, PlanOf
<1>4. \A n : Applied(k.ticket, k.live, n) => Applied(k.ticket, k.live, n)'
  BY <1>1, <1>2, StepKeepsStore, AppliedStays
<1>5. PICK j \in DOMAIN PlanOf(k.ticket) :
        PlanOf(k.ticket)[j] = k.effect /\ Applied(k.ticket, k.live, j - 1)
  BY <1>2
<1>6. Applied(k.ticket, k.live, j - 1)'
  BY <1>4, <1>5
<1> QED
  BY <1>3, <1>5, <1>6

\* Only a live execution performs actions.
LEMMA NextActsLive ==
  ASSUME TypeInv, LedgerInv, PlanInv, NEW r \in Run, Step(r) \/ Abort(r)
  PROVE  ActsLive'
<1> SUFFICES ASSUME NEW k \in Key, performed'[k] > 0, k.effect \in Action
             PROVE  k.live
  BY DEF ActsLive
<1>1. CASE performed'[k] = performed[k]
  BY <1>1 DEF PlanInv, ActsLive
<1>2. CASE performed'[k] # performed[k]
  <2>1. pc[r] = "call" /\ k = HeldKey(r) /\ Delivers(k.effect, mode[r])
    BY <1>2, NewlyPerformed
  <2>2. mode[r] = "live"
    BY <2>1, RecipeAssumption DEF Delivers
  <2>3. HeldKey(r).live = (mode[r] = "live")
    BY DEF HeldKey, KeyOf
  <2> QED
    BY <2>1, <2>2, <2>3
<1> QED
  BY <1>1, <1>2

\* An email takes place after its note.
LEMMA NextMailIsNoted ==
  ASSUME TypeInv, LedgerInv, PlanInv, NEW r \in Run, Step(r) \/ Abort(r),
         NotesEmails, NEW k \in Key, performed'[k] > 0, k.effect = "email"
  PROVE  effect'[[k EXCEPT !.effect = "ticket_note"]] = "succeeded"
<1> DEFINE note == [k EXCEPT !.effect = "ticket_note"]
<1>1. note \in Key
  BY DEF Key, Output
<1>2. k.effect \in Output
  BY DEF Output
<1>3. effect[note] = "succeeded"
  <2>1. CASE performed'[k] = performed[k]
    BY <1>2, <2>1 DEF PlanInv, AnswerIsTrue
  <2>2. CASE performed'[k] # performed[k]
    <3>1. pc[r] = "call" /\ k = HeldKey(r)
      BY <2>2, NewlyPerformed
    <3>2. pc[r] \in Applying /\ todo[r] # <<>>
      BY <3>1 DEF Applying, TypeInv, Located, Holding
    <3>3. Head(todo[r]) = "email"
      BY <3>1, <3>2, InHand
    <3>4. answering[r]
      BY <1>2, <3>2, <3>3, NextToDo, RecipeAssumption DEF TypeInv, TypeOK
    <3>5. todo[r] = <<"email">> /\ effect[NoteOf(r)] = "succeeded"
      <4>1. todo[r] # <<"ticket_note">> /\ todo[r] # <<"ticket_note", "email">>
        BY <3>3
      <4> QED
        BY <3>2, <3>4, <4>1 DEF PlanInv, RunInv, NoteFirst
    <3>6. note = NoteOf(r)
      BY <3>1, <3>3 DEF HeldKey, NoteOf, KeyOf, Output
    <3> QED
      BY <3>5, <3>6
  <2> QED
    BY <2>1, <2>2
<1> QED
  BY <1>1, <1>3, StepKeepsStore DEF StoreKept

\* An output takes place when the whole plan is applied.
LEMMA NextAnswerIsTrue ==
  ASSUME TypeInv, LedgerInv, PlanInv, NEW r \in Run, Step(r) \/ Abort(r)
  PROVE  AnswerIsTrue'
<1> SUFFICES ASSUME NEW k \in Key, performed'[k] > 0, k.effect \in Output
             PROVE  (/\ plan[k.ticket] \in Plan
                     /\ Applied(k.ticket, k.live, Len(PlanOf(k.ticket))))'
  BY NextMailIsNoted DEF AnswerIsTrue
<1>1. k.ticket \in Ticket
  BY DEF Key
<1>2. plan[k.ticket] \in Plan /\ Applied(k.ticket, k.live, Len(PlanOf(k.ticket)))
  <2>1. CASE performed'[k] = performed[k]
    BY <2>1 DEF PlanInv, AnswerIsTrue
  <2>2. CASE performed'[k] # performed[k]
    <3>1. pc[r] = "call" /\ k = HeldKey(r)
      BY <2>2, NewlyPerformed
    <3>2. pc[r] \in Applying /\ todo[r] # <<>>
      BY <3>1 DEF Applying, TypeInv, Located, Holding
    <3>3. /\ k.ticket = tkt[r] /\ choice[r] = plan[tkt[r]] /\ plan[tkt[r]] \in Plan
          /\ k.effect = Head(todo[r]) /\ k.live = (mode[r] = "live")
      BY <3>1, <3>2, InHand
    <3>4. answering[r]
      BY <3>2, <3>3, NextToDo, RecipeAssumption DEF TypeInv, TypeOK
    <3>5. DidFirst(r, Len(Writes[choice[r]]))
      BY <3>2, <3>4 DEF PlanInv, RunInv, InStep
    <3> QED
      BY <3>3, <3>5 DEF DidFirst, PlanOf
  <2> QED
    BY <2>1, <2>2
<1>3. plan'[k.ticket] = plan[k.ticket]
  BY <1>1, <1>2, StepKeepsStore DEF StoreKept
<1>4. PlanOf(k.ticket)' = PlanOf(k.ticket)
  BY <1>3 DEF PlanOf
<1>5. Applied(k.ticket, k.live, Len(PlanOf(k.ticket)))'
  <2> DEFINE n == Len(PlanOf(k.ticket))
  <2>1. \A m : Applied(k.ticket, k.live, m) => Applied(k.ticket, k.live, m)'
    BY <1>1, <1>2, StepKeepsStore, AppliedStays
  <2> QED
    BY <1>2, <1>4, <2>1
<1> QED
  BY <1>2, <1>3, <1>5

\* Only Complete makes a ticket complete.
LEMMA NewlyComplete ==
  ASSUME TypeInv, NEW r \in Run, Step(r) \/ Abort(r),
         NEW t \in Ticket, status[t] # "complete", status'[t] = "complete"
  PROVE  Complete(r) /\ t = tkt[r]
<1> USE DEF store, world
<1>1. CASE Ingest(r)
  BY <1>1 DEF Ingest, TypeInv, TypeOK
<1>2. CASE Complete(r)
  BY <1>2 DEF Complete, SetStatus, TypeInv, TypeOK
<1>3. CASE ManualReview(r)
  BY <1>3 DEF ManualReview, SetStatus, TypeInv, TypeOK
<1>4. CASE \/ Start(r) \/ Search(r) \/ Take(r) \/ Select(r) \/ PinPlan(r) \/ Recheck(r)
           \/ Lookup(r) \/ PinContext(r) \/ BeginWrites(r) \/ BeginOutputs(r)
           \/ FinishTicket(r)
  BY <1>4 DEF Start, Search, Take, Select, PinPlan, Recheck, Lookup, LookupFound,
     LookupAbsent, LookupUnavailable, PinContext, BeginWrites, BeginOutputs, FinishTicket
<1>5. CASE \/ Claim(r) \/ Verify(r) \/ CallAction(r) \/ UpdateTicket(r) \/ SendEmail(r)
           \/ FinishEffect(r) \/ CheckEffect(r) \/ Abort(r)
  BY <1>5 DEF Claim, Verify, CallAction, UpdateTicket, SendEmail, SendOutput,
     CallUnchanged, FinishEffect, CheckEffect, Abort
<1> QED
  BY <1>1, <1>2, <1>3, <1>4, <1>5, Zenon DEF Step

\* A ticket is complete with its whole plan applied.
LEMMA NextCompleteIsApplied ==
  ASSUME TypeInv, LedgerInv, PlanInv, NEW r \in Run, Step(r) \/ Abort(r)
  PROVE  CompleteIsApplied'
<1> SUFFICES ASSUME NEW t \in Ticket, status'[t] = "complete"
             PROVE  (/\ plan[t] \in Plan
                     /\ \E live \in BOOLEAN : Applied(t, live, Len(PlanOf(t))))'
  BY DEF CompleteIsApplied
<1>1. plan[t] \in Plan /\ \E live \in BOOLEAN : Applied(t, live, Len(PlanOf(t)))
  <2>1. CASE status[t] = "complete"
    BY <2>1 DEF PlanInv, CompleteIsApplied
  <2>2. CASE status[t] # "complete"
    <3>1. pc[r] = "complete" /\ t = tkt[r]
      BY <2>2, NewlyComplete DEF Complete, At
    <3>2. plan[t] \in Plan /\ choice[r] = plan[t]
      BY <3>1 DEF PlanInv, RunInv, OnPinnedPlan, PlanPinned
    <3>3. DidFirst(r, Len(Writes[choice[r]]))
      BY <3>1 DEF PlanInv, RunInv, InStep
    <3>4. Applied(t, mode[r] = "live", Len(PlanOf(t)))
      BY <3>1, <3>2, <3>3 DEF DidFirst, PlanOf
    <3>5. (mode[r] = "live") \in BOOLEAN
      OBVIOUS
    <3> QED
      BY <3>2, <3>4, <3>5
  <2> QED
    BY <2>1, <2>2
<1>2. plan'[t] = plan[t]
  BY <1>1, StepKeepsStore DEF StoreKept
<1>3. PlanOf(t)' = PlanOf(t)
  BY <1>2 DEF PlanOf
<1>4. \E live \in BOOLEAN : Applied(t, live, Len(PlanOf(t)))'
  <2>1. PICK live \in BOOLEAN : Applied(t, live, Len(PlanOf(t)))
    BY <1>1
  <2>2. \A m : Applied(t, live, m) => Applied(t, live, m)'
    BY <1>1, StepKeepsStore, AppliedStays
  <2> QED
    BY <1>3, <2>1, <2>2 DEF Applied
<1> QED
  BY <1>1, <1>2, <1>4

-----------------------------------------------------------------------------
(* The invariant and what follows from it                                  *)

\* At first no plan is pinned and nothing is claimed.
LEMMA PlanInit == Init => PlanInv
<1> SUFFICES ASSUME Init PROVE PlanInv
  OBVIOUS
<1>1. \A r \in Run : RunInv(r)
  BY DEF Init, RunInv, OnPinnedPlan, OnPinnedContext, InStep, NoteFirst, PlanPinned,
         Choosing, Acting, Applying
<1>2. ContextOfPlan /\ Aimed /\ InPlanOrder
  BY DEF Init, ContextOfPlan, Aimed, InPlanOrder
<1>3. ActsLive /\ AnswerIsTrue
  BY DEF Init, ActsLive, AnswerIsTrue
<1>4. CompleteIsApplied
  BY DEF Init, CompleteIsApplied
<1> QED
  BY <1>1, <1>2, <1>3, <1>4 DEF PlanInv

\* What the invariant reads, apart from the executions.
record == <<plan, context, effect, performed, status>>

\* A step that moves no execution and writes nothing down keeps the invariant.
LEMMA StillStep ==
  ASSUME TypeInv, PlanInv, UNCHANGED record, \A s \in Run : Same(s)
  PROVE  PlanInv'
<1> USE DEF record
<1>1. StoreKept
  BY DEF StoreKept
<1>2. ContextOfPlan'
  BY DEF PlanInv, ContextOfPlan
<1>3. \A s \in Run : RunInv(s)'
  BY <1>1, <1>2, SameRunInv
<1>4. Aimed' /\ ActsLive'
  BY DEF PlanInv, Aimed, ActsLive
<1>5. InPlanOrder'
  BY DEF PlanInv, InPlanOrder, Applied, PlanOf
<1>6. AnswerIsTrue'
  BY DEF PlanInv, AnswerIsTrue, Applied, PlanOf
<1>7. CompleteIsApplied'
  BY DEF PlanInv, CompleteIsApplied, Applied, PlanOf
<1> QED
  BY <1>2, <1>3, <1>4, <1>5, <1>6, <1>7 DEF PlanInv

\* Every step keeps the invariant.
LEMMA PlanStep ==
  ASSUME TypeInv, LedgerInv, PlanInv, [Next]_vars
  PROVE  PlanInv'
<1>1. ASSUME NEW r \in Run, Step(r) \/ Abort(r) PROVE PlanInv'
  <2>1. ContextOfPlan'
    BY <1>1, NextContextOfPlan
  <2>2. RunInv(r)'
    BY <1>1, MoverPlan, MoverContext, MoverInStep, MoverNoteFirst DEF RunInv
  <2>3. \A s \in Run \ {r} : RunInv(s)'
    BY <1>1, <2>1, OthersSame, StepKeepsStore, SameRunInv DEF TypeInv
  <2>4. Aimed' /\ ActsLive'
    BY <1>1, NextAimed, NextActsLive
  <2>5. InPlanOrder' /\ AnswerIsTrue' /\ CompleteIsApplied'
    BY <1>1, NextInPlanOrder, NextAnswerIsTrue, NextCompleteIsApplied
  <2> QED
    BY <2>1, <2>2, <2>3, <2>4, <2>5 DEF PlanInv
<1>2. ASSUME NEW t \in Ticket, Edit(t) PROVE PlanInv'
  <2>1. UNCHANGED record /\ \A s \in Run : Same(s)
    BY <1>2 DEF Edit, record, store, scan, work, Same
  <2> QED
    BY <2>1, StillStep
<1>3. CASE UNCHANGED vars
  <2>1. UNCHANGED record /\ \A s \in Run : Same(s)
    BY <1>3 DEF vars, record, store, world, scan, work, Same
  <2> QED
    BY <2>1, StillStep
<1> QED
  BY <1>1, <1>2, <1>3 DEF Next

\* The three invariants hold in every state.
LEMMA PlanInvariant == Spec => [](TypeInv /\ LedgerInv /\ PlanInv)
<1>1. Init => PlanInv
  BY PlanInit
<1>2. TypeInv /\ LedgerInv /\ PlanInv /\ [Next]_vars => PlanInv'
  BY PlanStep
<1> QED
  BY <1>1, <1>2, LedgerInvariant, PTL DEF Spec

\* A write action is applied to one target only, however many executions look
\* the target up and whatever they find.
THEOREM TargetsOnce == Spec => []OneTarget
<1>1. TypeInv /\ LedgerInv /\ PlanInv => OneTarget
  <2> SUFFICES ASSUME TypeInv, LedgerInv, PlanInv,
                      NEW k \in Key, NEW l \in Key,
                      performed[k] > 0, performed[l] > 0,
                      k.effect \in Action, l.effect \in Action,
                      k.ticket = l.ticket, k.effect = l.effect
               PROVE  k = l
    BY DEF OneTarget
  <2>1. effect[k] # "absent" /\ effect[l] # "absent"
    BY DEF LedgerInv, LedgerIsTrue, TypeInv, TypeOK
  <2>2. k.target = context[k.ticket] /\ l.target = context[l.ticket]
    BY <2>1 DEF PlanInv, Aimed
  <2>3. k.live \in BOOLEAN /\ l.live \in BOOLEAN /\ k.live /\ l.live
    BY DEF PlanInv, ActsLive, Key
  <2>4. k.live = l.live
    BY <2>3, Zenon
  <2> QED
    BY <2>2, <2>4 DEF Key
<1> QED
  BY <1>1, PlanInvariant, PTL

\* Whatever is claimed for a ticket belongs to the one plan pinned for it.
THEOREM PlansOnce == Spec => []OnePlan
<1>1. PlanInv => OnePlan
  BY DEF PlanInv, Aimed, InPlanOrder, OnePlan
<1> QED
  BY <1>1, PlanInvariant, PTL

\* An action is attempted only after every earlier one of its plan succeeded.
THEOREM PlansInOrder == Spec => []InPlanOrder
BY PlanInvariant, PTL DEF PlanInv

\* The requester is answered only when every action of the plan succeeded, and
\* by email only when the ticket is noted.
THEOREM AnswersTrue == Spec => []AnswerIsTrue
BY PlanInvariant, PTL DEF PlanInv

\* A ticket is complete only with every action of its plan applied.
THEOREM CompletesApplied == Spec => []CompleteIsApplied
BY PlanInvariant, PTL DEF PlanInv

-----------------------------------------------------------------------------
(* One execution at a time                                                 *)

\* No two executions overlap.
OneAtATime == \A r, s \in Run : r = s

\* An execution past the ingest works on a ticket that is not finished.
Unfinished ==
  \A r \in Run : pc[r] \in OnTicket \ {"ingest"} => status[tkt[r]] \notin Terminal

\* What a step does to the status of tickets and to who works on them: it lets
\* go of the ticket, goes on with it, takes up one that is not finished, or
\* finishes the one it works on.
LEMMA StatusSteps ==
  ASSUME TypeInv, NEW r \in Run, Step(r) \/ Abort(r)
  PROVE  \/ /\ UNCHANGED status
            /\ pc'[r] \notin OnTicket \ {"ingest"}
         \/ /\ UNCHANGED status
            /\ pc[r] \in OnTicket \ {"ingest"} /\ tkt'[r] = tkt[r]
         \/ /\ pc[r] = "ingest" /\ tkt[r] \in Ticket
            /\ status' = [status EXCEPT ![tkt[r]] = IF @ = "absent" THEN "pending" ELSE @]
            /\ pc'[r] \notin OnTicket \ {"ingest"} \/
                 (status[tkt[r]] \notin Terminal /\ tkt'[r] = tkt[r])
         \/ /\ pc[r] \in OnTicket \ {"ingest"} /\ pc'[r] = "next"
            /\ \E s \in Terminal : status' = [status EXCEPT ![tkt[r]] = s]
<1> USE DEF At, Goto
<1>1. pc \in [Run -> Here] /\ tkt \in [Run -> Ticket \cup {NoTicket}]
  BY DEF TypeInv, TypeOK
<1>2. CASE Start(r) \/ Search(r) \/ Take(r) \/ Abort(r)
  BY <1>1, <1>2 DEF Start, Search, Take, Abort, store, OnTicket
<1>3. CASE Ingest(r)
  <2>1. tkt[r] \in Ticket
    BY <1>3 DEF Ingest, TypeInv, Located, OnTicket, Here
  <2> QED
    BY <1>1, <1>3, <2>1 DEF Ingest, OnTicket
<1>4. CASE Select(r) \/ PinPlan(r) \/ Recheck(r) \/ PinContext(r) \/ BeginWrites(r)
           \/ BeginOutputs(r) \/ FinishTicket(r)
  BY <1>1, <1>4 DEF Select, PinPlan, Recheck, PinContext, BeginWrites, BeginOutputs,
     FinishTicket, store, work, OnTicket, Here
<1>5. CASE Lookup(r)
  BY <1>1, <1>5 DEF Lookup, LookupFound, LookupAbsent, LookupUnavailable, store, work,
     OnTicket, Here
<1>6. CASE Claim(r) \/ Verify(r) \/ CallAction(r) \/ UpdateTicket(r) \/ SendEmail(r)
           \/ FinishEffect(r) \/ CheckEffect(r)
  BY <1>1, <1>6 DEF Claim, Verify, CallAction, UpdateTicket, SendEmail, SendOutput,
     CallUnchanged, FinishEffect, CheckEffect, store, work, OnTicket, Here
<1>7. CASE Complete(r) \/ ManualReview(r)
  BY <1>1, <1>7 DEF Complete, ManualReview, SetStatus, OnTicket, Here, Terminal
<1> QED
  BY <1>2, <1>3, <1>4, <1>5, <1>6, <1>7 DEF Step

\* A finished ticket stays finished, however many executions there are: what
\* they may do is disagree on how.
LEMMA StaysTerminal ==
  ASSUME TypeInv, [Next]_vars, NEW t \in Ticket, status[t] \in Terminal
  PROVE  status'[t] \in Terminal
<1>1. status \in [Ticket -> {"absent", "pending"} \cup Terminal]
  BY DEF TypeInv, TypeOK
<1>2. ASSUME NEW r \in Run, Step(r) \/ Abort(r)
      PROVE  status'[t] \in Terminal
  BY <1>1, <1>2, StatusSteps DEF Terminal
<1>3. CASE UNCHANGED status
  BY <1>3
<1> QED
  BY <1>2, <1>3 DEF Next, Edit, vars, store

\* No execution reopens a finished ticket, however many overlap; its verdict
\* may still be replaced by another one's.
THEOREM NeverReopened ==
  Spec => [][\A t \in Ticket : status[t] \in Terminal => status'[t] \in Terminal]_vars
<1>1. TypeInv /\ [Next]_vars =>
        [\A t \in Ticket : status[t] \in Terminal => status'[t] \in Terminal]_vars
  BY StaysTerminal
<1> QED
  BY <1>1, LedgerInvariant, PTL DEF Spec

\* With one execution at a time nobody else finishes the ticket it works on.
LEMMA OneStep ==
  ASSUME OneAtATime, TypeInv, Unfinished, [Next]_vars
  PROVE  /\ Unfinished'
         /\ \A t \in Ticket : status[t] \in Terminal => status'[t] = status[t]
<1>1. /\ status \in [Ticket -> {"absent", "pending"} \cup Terminal]
      /\ \A r \in Run : pc[r] \in OnTicket => tkt[r] \in Ticket
  BY DEF TypeInv, TypeOK, Located
<1>2. CASE UNCHANGED <<status, pc, tkt>>
  BY <1>2 DEF Unfinished
<1>3. ASSUME NEW r \in Run, Step(r) \/ Abort(r)
      PROVE  /\ Unfinished'
             /\ \A t \in Ticket : status[t] \in Terminal => status'[t] = status[t]
  <2>1. \A s \in Run : s = r
    BY DEF OneAtATime
  <2>2. pc[r] \in OnTicket \ {"ingest"} =>
          tkt[r] \in Ticket /\ status[tkt[r]] \notin Terminal
    BY <1>1 DEF Unfinished
  <2>3. \A t \in Ticket : status[t] \in Terminal => status'[t] = status[t]
    <3> SUFFICES ASSUME NEW t \in Ticket, status[t] \in Terminal
                 PROVE  status'[t] = status[t]
      OBVIOUS
    <3>1. CASE UNCHANGED status
      BY <3>1
    <3>2. CASE status' = [status EXCEPT ![tkt[r]] = IF @ = "absent" THEN "pending" ELSE @]
      <4>1. status[t] # "absent"
        BY DEF Terminal
      <4> QED
        BY <1>1, <3>2, <4>1
    <3>3. CASE /\ pc[r] \in OnTicket \ {"ingest"}
               /\ \E s \in Terminal : status' = [status EXCEPT ![tkt[r]] = s]
      <4>1. tkt[r] # t
        BY <2>2, <3>3
      <4> QED
        BY <1>1, <3>3, <4>1
    <3> QED
      BY <1>3, <3>1, <3>2, <3>3, StatusSteps
  <2>4. pc'[r] \in OnTicket \ {"ingest"} => status'[tkt'[r]] \notin Terminal
    <3>1. CASE UNCHANGED status /\ pc[r] \in OnTicket \ {"ingest"} /\ tkt'[r] = tkt[r]
      BY <2>2, <3>1
    <3>2. CASE /\ tkt[r] \in Ticket /\ status[tkt[r]] \notin Terminal /\ tkt'[r] = tkt[r]
               /\ status' = [status EXCEPT ![tkt[r]] = IF @ = "absent" THEN "pending" ELSE @]
      BY <1>1, <3>2 DEF Terminal
    <3>3. CASE pc'[r] \notin OnTicket \ {"ingest"}
      BY <3>3
    <3>4. "next" \notin OnTicket
      BY DEF OnTicket
    <3> QED
      BY <1>3, <3>1, <3>2, <3>3, <3>4, StatusSteps
  <2> QED
    BY <2>1, <2>3, <2>4 DEF Unfinished
<1> QED
  BY <1>2, <1>3 DEF Next, Edit, vars, store, work

\* With one execution at a time, a finished ticket is never reopened nor moved
\* between complete and manual_review by a later scan.
THEOREM FinishedIsFinal ==
  ASSUME OneAtATime
  PROVE  Spec => FinishedStays
<1>1. Init => Unfinished
  BY DEF Init, Unfinished, OnTicket
<1>2. TypeInv /\ Unfinished /\ [Next]_vars => Unfinished'
  BY OneStep
<1>3. TypeInv /\ Unfinished /\ [Next]_vars =>
        [\A t \in Ticket : status[t] \in Terminal => status'[t] = status[t]]_vars
  BY OneStep
<1> QED
  BY <1>1, <1>2, <1>3, LedgerInvariant, PTL DEF Spec, FinishedStays
=============================================================================
