-------------------------- MODULE WorkerProperties --------------------------
(***************************************************************************)
(* What the workers promise, as far as the code keeps it: always, or while *)
(* leases are renewed in time.                                             *)
(***************************************************************************)
EXTENDS Worker

Abroad(e) == {t \in DOMAIN nav : nav[t].event = e}
-----------------------------------------------------------------------------
(* Whatever fails.                                                         *)

\* A row that waits for NAV, or that NAV is said to have accepted, names a
\* transaction NAV registered for this very event: the next worker can go on
\* polling where a dead one stopped (attemptSubmit, pollStatus).
InFlightCarriesTransaction ==
  \A e \in Events : rows[e].status \in InFlight \cup {"accepted"} => rows[e].txn \in Abroad(e)

\* A row is accepted only if NAV finished the transaction the row names, be
\* the poll that said so made on a stale copy of the row (overallStatus,
\* pollStatus, Transition).
AcceptedMeansFinished ==
  \A e \in Events : rows[e].status = "accepted" => nav[rows[e].txn].verdict = "FINISHED"

\* NAV hears of a reversal only when the submission it reverses is accepted
\* and on record, by whichever worker and after however many retries
\* (parentReady).
StornoAfterParent ==
  \A e \in Events :
    rows[e].parent # NoEvent /\ Abroad(e) # {} => rows[rows[e].parent].status = "accepted"

\* A submission is aborted only because its parent failed, never because the
\* parent was late or could not be read (parentReady).
AbortedMeansParentFailed ==
  \A e \in Events :
    rows[e].status = "aborted" =>
      rows[e].parent # NoEvent /\ rows[rows[e].parent].status \in {"rejected", "aborted"}

\* The transaction a row names never changes, not even when a lifecycle that
\* lost its claim writes a second one (Transition refuses submitted twice).
TransactionWriteOnce ==
  [][\A e \in Events : rows[e].txn # NoTransaction => rows'[e].txn = rows[e].txn]_vars

\* The outcome a row records is never revised by a late answer
\* (Transition, markFailure, markPollFailure).
TerminalIsFinal ==
  [][\A e \in Events : IsTerminal(rows[e].status) => rows'[e].status = rows[e].status]_vars
-----------------------------------------------------------------------------
(* While every lease is renewed in time.                                   *)

\* A goroutine works on a row only under its worker's valid claim, and never
\* beside another one of the same or another worker (ClaimBatch, RenewClaim,
\* ReleaseClaim and the order of runLifecycle's deferred calls).
OneLifecyclePerRow ==
  /\ \A l \in Lifecycles :
       lc[l].pc # "idle" => Holds(rows[RowOf(l)], Owner(l)) /\ rows[RowOf(l)].lease = "valid"
  /\ \A l, m \in Lifecycles :
       lc[l].pc # "idle" /\ lc[m].pc # "idle" /\ RowOf(l) = RowOf(m) => l = m

\* No renewal is under way for a row its worker does not hold: a renewal never
\* mistakes the worker's own release for a lost claim (renewDone.Wait).
RenewalHoldsClaim ==
  \A l \in Lifecycles : lc[l].renewing => Holds(rows[RowOf(l)], Owner(l))

\* What has a transaction on record, or an outcome, is not sent to NAV again,
\* by any worker, after any crash (runLifecycle's switch on a fresh copy).
NoResubmission ==
  [][\A e \in Events : Abroad(e)' # Abroad(e) =>
       rows[e].status = "pending" /\ rows[e].txn = NoTransaction]_vars

\* The workers, whatever else fails, do to rows and to NAV only what Reporting
\* allows: claims, leases, retries and restarts are invisible in it.
R == INSTANCE Reporting WITH
       record <- [e \in Events |-> [status |-> rows[e].status, parent |-> rows[e].parent,
                                    txn |-> rows[e].txn]]

ImplementsReporting == R!Spec

\* NAV hears of an event once, and once more at most for each failure there has
\* been: no retry, poll, restart or second replica costs a duplicate of itself
\* (validTransitions, ClaimBatch, markPollFailure).
NoDuplicateSubmission == \A e \in Events : Cardinality(Abroad(e)) <= 1 + faults
-----------------------------------------------------------------------------
(* Under the fairness of FairSpec.                                         *)

\* Every submission that is stored comes to an outcome, through failed calls,
\* restarts and crashed holders, and behind whatever parent it waits for.
Settled == \A e \in Events : Stored(rows[e]) ~> IsTerminal(rows[e].status)

\* No claim outlives its holder's work for ever: a row that is done ends up
\* released or with a lapsed lease (runLifecycle's deferred calls, the lease).
ClaimsEnd ==
  \A e \in Events :
    IsTerminal(rows[e].status) ~> rows[e].claimedBy = NoWorker \/ rows[e].lease = "expired"
-----------------------------------------------------------------------------
(* What README.md and the comments of worker.go say and a run refutes.     *)

\* README.md, of parent dependency tracking: "a STORNO submission waits for its
\* parent CREATE to be accepted on NAV's side before submitting".
StornoWaitsForOriginal ==
  \A e \in Events :
    Original[e] # NoEvent /\ Abroad(e) # {} => rows[Original[e]].status = "accepted"

\* worker.go:621-623, of a retriable failure to submit: "nothing reached NAV,
\* so the next attempt re-submits".
RetryMeansNothingReachedNAV ==
  \A l \in Lifecycles : lc[l].res = "retry" => Abroad(RowOf(l)) = {}
=============================================================================
