--------------------------- MODULE MCTicketExecutor ---------------------------
(* Small instances of TicketExecutor for TLC.                              *)
EXTENDS TicketExecutor, TLC

CONSTANTS r1, r2, unlink, notify, c1, c2

MCLookups == {"full"}
MCAction == {unlink, notify}

\* A plan with a lookup and two writes, and one with a single write.
TwoPlans == {"full", "short"}
TwoPlanWrites == [p \in TwoPlans |->
                    IF p = "full" THEN <<unlink, notify>> ELSE <<notify>>]

\* A plan with a lookup and a write, and one with neither.
TwoKinds == {"full", "noop"}
TwoKindWrites == [p \in TwoKinds |-> IF p = "full" THEN <<notify>> ELSE <<>>]

\* The lookup has a rule; so has one outcome of the write action.
MCOutcome == {"accepted", "other"}
MCRule == <<notify, "accepted">> :> {"ticket_note", "email"}
          @@ <<"lookup", "found">> :> {"ticket_note"}
NoRules == <<>>
OneOutcome == {"accepted"}
BothOutputs == {"ticket_note", "email"}

AllApproved == [m \in Mode |-> Ticket]
FirstApproved == [m \in Mode |-> {1}]

Symmetric == Permutations(Run) \cup Permutations(Context)
=============================================================================
