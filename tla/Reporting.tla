----------------------------- MODULE Reporting ------------------------------
(***************************************************************************)
(* What the bridge promises of every submission, with no workers, claims   *)
(* or failures in sight: a submission is sent to NAV only while nothing is *)
(* known of it and what it reverses is accepted; it then follows one       *)
(* transaction of its own to the outcome NAV gave that transaction.        *)
(***************************************************************************)
EXTENDS Naturals, Sequences, Submission

CONSTANTS Events, NoEvent

NoTransaction == 0

VARIABLES record,  \* [status, parent, txn] of each event
          nav      \* the transactions NAV registered, [event, verdict]

vars == <<record, nav>>

Init ==
  /\ record = [e \in Events |->
                 [status |-> "absent", parent |-> NoEvent, txn |-> NoTransaction]]
  /\ nav = <<>>

Accepted(e) == e = NoEvent \/ record[e].status = "accepted"
Failed(e) == e # NoEvent /\ record[e].status \in {"rejected", "aborted"}

\* Stripe's event is taken on, as a reversal of another one or for itself.
Receive(e) ==
  /\ record[e].status = "absent"
  /\ \E parent \in {NoEvent} \cup {p \in Events : record[p].status # "absent"} :
       record' = [record EXCEPT ![e].status = "pending", ![e].parent = parent]
  /\ UNCHANGED nav

\* NAV learns of the submission.
Register(e) ==
  /\ record[e].status = "pending"
  /\ Accepted(record[e].parent)
  /\ nav' = Append(nav, [event |-> e, verdict |-> "RECEIVED"])
  /\ UNCHANGED record

\* The bridge learns under which transaction: from now on it is this one.
Adopt(e) ==
  /\ record[e].status = "pending"
  /\ \E t \in DOMAIN nav :
       /\ nav[t].event = e
       /\ record' = [record EXCEPT ![e].status = "submitted", ![e].txn = t]
  /\ UNCHANGED nav

Wait(e) ==
  /\ record[e].status \in InFlight
  /\ record' = [record EXCEPT ![e].status = "processing"]
  /\ UNCHANGED nav

Accept(e) ==
  /\ record[e].status \in InFlight
  /\ nav[record[e].txn].verdict = "FINISHED"
  /\ record' = [record EXCEPT ![e].status = "accepted"]
  /\ UNCHANGED nav

Reject(e) ==
  /\ record[e].status \in Pending \cup InFlight
  /\ record' = [record EXCEPT ![e].status = "rejected"]
  /\ UNCHANGED nav

Abort(e) ==
  /\ record[e].status = "pending"
  /\ Failed(record[e].parent)
  /\ record' = [record EXCEPT ![e].status = "aborted"]
  /\ UNCHANGED nav

Decide ==
  /\ \E t \in DOMAIN nav, verdict \in {"FINISHED", "ABORTED"} :
       /\ nav[t].verdict = "RECEIVED"
       /\ nav' = [nav EXCEPT ![t].verdict = verdict]
  /\ UNCHANGED record

Next ==
  \/ \E e \in Events : \/ Receive(e) \/ Register(e) \/ Adopt(e) \/ Wait(e)
                       \/ Accept(e) \/ Reject(e) \/ Abort(e)
  \/ Decide

Spec == Init /\ [][Next]_vars
=============================================================================
