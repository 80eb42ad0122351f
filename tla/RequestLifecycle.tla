--------------------------- MODULE RequestLifecycle ---------------------------
(***************************************************************************)
(* What the resolver promises of a request to those who look at the table, *)
(* at AD and at the work order (WO), and not at the runs: work is done for *)
(* a request only while it is open; it is completed once, with something   *)
(* that was done; its WO is closed only after that, with the same; it is   *)
(* given up or rejected only when nothing was done; and no error is taken  *)
(* back.  While it is open, work may be done for it more than once.        *)
(***************************************************************************)
EXTENDS Integers

CONSTANTS Pw, NoPw,  \* what can be done in AD, and nothing
          AdKind     \* the kinds of requests for which something is done

VARIABLES kind, status,
          applied,      \* what was done in AD
          recorded,     \* with what of it the row was completed
          closed        \* with what the WO was closed

Init ==
  /\ status = "SR Submitted"
  /\ applied = {}
  /\ recorded = {}
  /\ closed = NoPw

Open == status \in {"SR Submitted", "SR Approved"}

Becomes(s) == status' = s /\ UNCHANGED <<kind, applied, recorded, closed>>

Approve ==
  /\ kind \in AdKind /\ status = "SR Submitted"
  /\ Becomes("SR Approved")

\* The update that approves it may be lost, and the work be done nevertheless;
\* if it cannot be recorded then, it may be done again.
Work(p) ==
  /\ kind \in AdKind /\ Open
  /\ applied' = applied \cup {p}
  /\ UNCHANGED <<kind, status, recorded, closed>>

Complete(p) ==
  /\ kind \in AdKind /\ Open
  /\ p \in applied
  /\ status' = "Completed"
  /\ recorded' = {p}
  /\ UNCHANGED <<kind, applied, closed>>

Close(p) ==
  /\ status = "Completed" /\ recorded = {p}
  /\ closed' = p
  /\ UNCHANGED <<kind, status, applied, recorded>>

\* The script did not finish, or answered what cannot be read.
WorkFails ==
  /\ kind \in AdKind /\ Open
  /\ \/ Becomes("Error in AD Process")
     \/ /\ applied # {}
        /\ \E s \in {"Error in Process", "Error in Decryption"} : Becomes(s)

\* The WO could not be commented or closed: the work is done all the same.
WoFails == status = "Completed" /\ recorded # {} /\ Becomes("Error in ITSM Process")

\* The WO could not be looked up, although work may have been done before.
LookupFails ==
  /\ kind \in AdKind /\ status = "SR Submitted"
  /\ Becomes("Error in ITSM Process")

Reject ==
  /\ kind \in AdKind /\ status = "SR Submitted" /\ applied = {}
  /\ Becomes("SR approval Rejected.")

\* A request that waits for too long is handed over to the FO.
GiveUp ==
  /\ status = "SR Submitted" /\ applied = {}
  /\ Becomes("Completed")

Next ==
  \/ Approve \/ WorkFails \/ WoFails \/ LookupFails \/ Reject \/ GiveUp
  \/ \E p \in Pw : Work(p) \/ Complete(p) \/ Close(p)

Spec == Init /\ [][Next]_<<kind, status, applied, recorded, closed>>
=============================================================================
