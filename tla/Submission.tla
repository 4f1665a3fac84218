----------------------------- MODULE Submission -----------------------------
(***************************************************************************)
(* The status of a submission and the transitions its status may take      *)
(* (internal/submission/types.go).  "absent" is not a status of the code:  *)
(* it is how the model writes that the store has no row for an event.      *)
(***************************************************************************)

Pending  == {"pending"}
InFlight == {"submitted", "processing"}
Terminal == {"accepted", "rejected", "aborted"}
Statuses == Pending \cup InFlight \cup Terminal

\* validTransitions: what each non-terminal status may become.  No pair leads
\* back to "pending" from a status that carries a NAV transaction.
ValidTransitions ==
  ({"pending"}    \X {"pending", "submitted", "rejected", "aborted"}) \cup
  ({"submitted"}  \X {"processing", "accepted", "rejected", "aborted"}) \cup
  ({"processing"} \X {"processing", "accepted", "rejected", "aborted"})

\* MUTANT: a terminal status is not recognised as final.
CanLeaveTerminal(status, to) ==
  <<status, to>> \in ValidTransitions \/ (status \in Terminal /\ to \in Terminal)

\* MUTANT: the short cut for equal statuses lets any status repeat itself.
CanRepeat(status, to) == status = to \/ <<status, to>> \in ValidTransitions

\* Transition succeeds: either the short cut of its first lines or the table.
CanTransition(status, to) ==
  \/ status = to /\ to \in {"pending", "processing"}
  \/ <<status, to>> \in ValidTransitions

IsTerminal(status) == status \in Terminal
=============================================================================
