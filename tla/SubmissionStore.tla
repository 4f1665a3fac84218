--------------------------- MODULE SubmissionStore ---------------------------
(***************************************************************************)
(* The rows of a SubmissionStore and what each operation of the interface  *)
(* does to them (internal/submission/types.go, and its reference           *)
(* implementation internal/storeinmem/store.go).  Every operation holds    *)
(* the store's lock from its first read to its last write, so each is one  *)
(* step of the modules that use it.                                        *)
(*                                                                         *)
(* Time is kept as far as the code tells moments apart.  NextAttemptAt is  *)
(* "due" (not after now), "soon" (within the worker's poll interval) or    *)
(* "later"; ClaimedUntil is after now exactly when the lease is "valid".   *)
(***************************************************************************)
EXTENDS Naturals, FiniteSets, Submission

CONSTANTS Events,      \* Stripe event ids, the keys of the store
          Workers,     \* claimer ids, one for each replica
          NoEvent,     \* an empty ParentEventID
          NoWorker,    \* an empty ClaimedBy
          CreatedAt,   \* the moment each event's row was built
          BatchLimit   \* how many rows one ClaimBatch may return

ASSUME StoreAssumption ==
  /\ NoEvent \notin Events
  /\ NoWorker \notin Workers
  /\ CreatedAt \in [Events -> Nat]
  /\ BatchLimit \in Nat \ {0}

NoTransaction == 0
Moments == {"due", "soon", "later"}

\* Submission, without the fields only logs and payloads depend on.
Row == [status    : Statuses \cup {"absent"},
        parent    : Events \cup {NoEvent},
        txn       : Nat,
        next      : Moments,
        claimedBy : Workers \cup {NoWorker},
        lease     : {"valid", "expired"}]

AbsentRow == [status |-> "absent", parent |-> NoEvent, txn |-> NoTransaction,
              next |-> "due", claimedBy |-> NoWorker, lease |-> "expired"]

Stored(row) == row.status # "absent"

\* The row the webhook handler puts: pending, due at once, nobody's.
NewRow(parent) == [AbsentRow EXCEPT !.status = "pending", !.parent = parent]

\* UpdateStatus with a mutator that ends in Transition: when the transition
\* is refused the store drops everything the mutator changed.
Transitioned(row, changed, to) ==
  IF CanTransition(row.status, to) THEN [changed EXCEPT !.status = to] ELSE row

\* MUTANT: a holder's own claim does not protect the row from its next scan.
UnheldByAnother(row, claimer) == row.claimedBy \in {NoWorker, claimer} \/ row.lease = "expired"

\* MUTANT: only a released row can be claimed, whatever became of its holder.
NeverTakenOver(row, claimer) == row.claimedBy = NoWorker

\* Nobody holds the row under a lease that is still valid, the caller included.
Unheld(row, claimer) == row.claimedBy = NoWorker \/ row.lease = "expired"

\* The filter of ClaimBatch.
Claimable(row, claimer) ==
  /\ Stored(row) /\ ~IsTerminal(row.status)
  /\ row.next = "due"
  /\ Unheld(row, claimer)

\* The batches ClaimBatch may return: as many of the claimable rows as the
\* limit allows, oldest first (rows of one age in any order).
Batches(rows, claimer) ==
  LET candidates == {e \in Events : Claimable(rows[e], claimer)}
  IN  {S \in SUBSET candidates :
         /\ \/ S = candidates /\ Cardinality(S) <= BatchLimit
            \/ Cardinality(S) = BatchLimit
         /\ \A e \in S, f \in candidates \ S : CreatedAt[e] <= CreatedAt[f]}

Claimed(row, claimer) == [row EXCEPT !.claimedBy = claimer, !.lease = "valid"]

Holds(row, claimer) == row.claimedBy = claimer

\* RenewClaim: an expired lease nobody has taken is extended as well.
Renewed(row, claimer) == IF Holds(row, claimer) THEN [row EXCEPT !.lease = "valid"] ELSE row

\* ReleaseClaim.
Released(row, claimer) ==
  IF Holds(row, claimer) THEN [row EXCEPT !.claimedBy = NoWorker, !.lease = "expired"]
  ELSE row
=============================================================================
