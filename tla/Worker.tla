------------------------------- MODULE Worker -------------------------------
(***************************************************************************)
(* The workers of worker.go, one for each replica, over one store.         *)
(*                                                                         *)
(* A worker's Run loop claims batches of rows and starts one lifecycle     *)
(* goroutine for each.  The lifecycle submits the row to NAV or polls its  *)
(* transaction, writes what it learnt into the row, reads the row again    *)
(* and goes on until the row is final or has to wait; a second goroutine   *)
(* renews the lease meanwhile.  Every call to the store or to NAV is one   *)
(* step, so other goroutines, replicas and failures come between any two.  *)
(*                                                                         *)
(* NAV is external: it registers each submission it receives as a new      *)
(* transaction and decides it later.  Attempts, LastError, metrics and     *)
(* logs are left out, the 24-hour alarm with them: no step reads them but  *)
(* backoffFor, whose delay is any of Delays.                               *)
(***************************************************************************)
EXTENDS Sequences, SubmissionStore

CONSTANTS Original,  \* the event whose invoice an event reverses, or NoEvent
          Gens,      \* lifecycles of one worker that may coexist on one row
          Delays,    \* how far off backoffFor and MaxSleep put the next attempt
          Faults,    \* what may go wrong in a run of the model ...
          MaxFaults  \* ... and how often

FaultKinds == {"flaky",        \* a call to NAV fails before NAV acts on it
               "lost_reply",   \* NAV registers a submission, its answer is lost
               "store",        \* a call to the store fails
               "crash",        \* a process dies
               "stop",         \* a process is told to shut down
               "late_renewal"} \* a goroutine is held up for a whole lease

ASSUME WorkerAssumption ==
  /\ Original \in [Events -> Events \cup {NoEvent}]
  /\ Delays \in SUBSET {"soon", "later"} /\ Delays # {}
  /\ Faults \in SUBSET FaultKinds
  /\ MaxFaults \in Nat

VARIABLES rows,   \* the store: the row of each event
          lc,     \* the lifecycle goroutines and their renewers
          up,     \* the workers whose Run loop is scanning
          nav,    \* the transactions NAV registered; a transaction id is an index
          faults  \* how many faults there have been

vars == <<rows, lc, up, nav, faults>>
-----------------------------------------------------------------------------
Lifecycles == Workers \X Events \X Gens
Owner(l) == l[1]
RowOf(l) == l[2]

PCs == {"idle", "parent", "submit", "reply", "poll", "update", "get", "release"}
Results == {"none", "submitted", "retry", "processing", "pollretry",
            "accepted", "rejected", "aborted", "defer"}

\* live: leaseCtx is not cancelled.  renewing: a RenewClaim call outlives it.
\* txn: the transaction this round is about.  res: what UpdateStatus will write.
Lifecycle == [pc : PCs, live : BOOLEAN, renewing : BOOLEAN, txn : Nat, res : Results]

Idle == [pc |-> "idle", live |-> FALSE, renewing |-> FALSE,
         txn |-> NoTransaction, res |-> "none"]

Verdicts == {"RECEIVED", "FINISHED", "ABORTED"}
Transaction == [event : Events, verdict : Verdicts]

TypeOK ==
  /\ rows \in [Events -> Row]
  /\ lc \in [Lifecycles -> Lifecycle]
  /\ up \in [Workers -> BOOLEAN]
  /\ nav \in Seq(Transaction)
  /\ faults \in 0..MaxFaults

Init ==
  /\ rows = [e \in Events |-> AbsentRow]
  /\ lc = [l \in Lifecycles |-> Idle]
  /\ up = [w \in Workers |-> TRUE]
  /\ nav = <<>>
  /\ faults = 0

Fault(kind) == kind \in Faults /\ faults < MaxFaults /\ faults' = faults + 1

\* The context of the lifecycle is live and it has come to this call.  A call
\* made after the context is cancelled returns at once and changes nothing; one
\* that passed the check counts as made before the cancellation.
At(l, pc) == lc[l].pc = pc /\ lc[l].live

\* The lifecycle calls UpdateStatus next.
Records(l, res, txn) ==
  lc' = [lc EXCEPT ![l] = [@ EXCEPT !.pc = "update", !.res = res, !.txn = txn]]

\* The lifecycle returns: its deferred function first cancels the context.  A
\* RenewClaim call may be under way just then (one that is not is one step).
Exits(l) ==
  \E renewing \in {FALSE, lc[l].live} :
    lc' = [lc EXCEPT ![l] = [Idle EXCEPT !.pc = "release", !.renewing = renewing]]

\* One round of the lifecycle's loop, on the copy of the row it has in hand.
Dispatched(l, row) ==
  IF row.status = "pending"
  THEN [l EXCEPT !.pc = "parent", !.txn = NoTransaction]
  ELSE [l EXCEPT !.pc = "poll", !.txn = row.txn]
-----------------------------------------------------------------------------
(* What comes to the store and from NAV.                                   *)

\* The webhook handler stores a new submission.  It records the original as
\* parent when its lookup finds the row, and no parent when it does not.
Put(e) ==
  /\ ~Stored(rows[e])
  /\ \E parent \in {NoEvent} \cup {p \in {Original[e]} \ {NoEvent} : Stored(rows[p])} :
       rows' = [rows EXCEPT ![e] = NewRow(parent)]
  /\ UNCHANGED <<lc, up, nav, faults>>

\* NAV finishes processing one of its transactions.
NavDecide ==
  /\ \E t \in DOMAIN nav, verdict \in {"FINISHED", "ABORTED"} :
       /\ nav[t].verdict = "RECEIVED"
       /\ nav' = [nav EXCEPT ![t].verdict = verdict]
  /\ UNCHANGED <<rows, lc, up, faults>>

\* The clock moves towards NextAttemptAt.
TimePasses(e) ==
  /\ rows[e].next # "due"
  /\ rows' = [rows EXCEPT ![e].next = IF @ = "later" THEN "soon" ELSE "due"]
  /\ UNCHANGED <<lc, up, nav, faults>>
-----------------------------------------------------------------------------
(* The Run loop and a process.                                             *)

FreeGens(w, e) == {g \in Gens : lc[<<w, e, g>>] = Idle}

\* claimAndProcess: a scan that claims something.  Each row of the batch gets
\* a lifecycle of its own, which starts on the row as it was claimed.
ClaimBatch(w) ==
  /\ up[w]
  /\ \E batch \in Batches(rows, w) \ {{}} :
       \E gen \in [batch -> Gens] :
         /\ \A e \in batch : gen[e] \in FreeGens(w, e)
         /\ rows' = [e \in Events |->
                       IF e \in batch THEN Claimed(rows[e], w) ELSE rows[e]]
         /\ lc' = [l \in Lifecycles |->
                     IF Owner(l) = w /\ RowOf(l) \in batch /\ l[3] = gen[RowOf(l)]
                     THEN Dispatched([Idle EXCEPT !.live = TRUE], rows[RowOf(l)])
                     ELSE lc[l]]
  /\ UNCHANGED <<up, nav, faults>>

Running(w) == up[w] \/ \E l \in Lifecycles : Owner(l) = w /\ lc[l] # Idle

\* The process dies: its goroutines are gone, its claims stay in the store.
Crash(w) ==
  /\ Running(w)
  /\ Fault("crash")
  /\ lc' = [l \in Lifecycles |-> IF Owner(l) = w THEN Idle ELSE lc[l]]
  /\ up' = [up EXCEPT ![w] = FALSE]
  /\ UNCHANGED <<rows, nav>>

\* Run's context is cancelled, and with it the context of every lifecycle.
Stop(w) ==
  /\ up[w]
  /\ Fault("stop")
  /\ lc' = [l \in Lifecycles |->
              IF Owner(l) = w THEN [lc[l] EXCEPT !.live = FALSE] ELSE lc[l]]
  /\ up' = [up EXCEPT ![w] = FALSE]
  /\ UNCHANGED <<rows, nav>>

\* The process is started again.  Shutdown waits for the lifecycles only until
\* its own deadline: some of them may still be at work.
Restart(w) ==
  /\ ~up[w]
  /\ up' = [up EXCEPT ![w] = TRUE]
  /\ UNCHANGED <<rows, lc, nav, faults>>
-----------------------------------------------------------------------------
(* A lifecycle.                                                            *)

\* MUTANT: a parent that is merely on its way counts as reported.
EagerParentVerdict(parent) ==
  IF parent = NoEvent \/ rows[parent].status \in InFlight \cup {"accepted"} THEN "ready"
  ELSE IF rows[parent].status \in {"rejected", "aborted"} THEN "aborted" ELSE "defer"

\* MUTANT: a parent without an outcome is taken for one that failed.
ImpatientParentVerdict(parent) ==
  IF parent = NoEvent \/ rows[parent].status = "accepted" THEN "ready" ELSE "aborted"

\* MUTANT: a parent that failed is waited for like one in flight.
PatientParentVerdict(parent) ==
  IF parent = NoEvent \/ rows[parent].status = "accepted" THEN "ready" ELSE "defer"

\* MUTANT: a child takes over whatever status its parent has.
InheritedVerdict(parent) ==
  IF parent = NoEvent \/ rows[parent].status = "accepted" THEN "ready" ELSE rows[parent].status

\* What parentReady makes of the parent's row.
ParentVerdict(parent) ==
  IF parent = NoEvent \/ rows[parent].status = "accepted" THEN "ready"
  ELSE IF rows[parent].status \in {"rejected", "aborted"} THEN "aborted" ELSE "defer"

ParentReady(l) ==
  LET parent == rows[RowOf(l)].parent IN
  /\ At(l, "parent")
  /\ \/ /\ ParentVerdict(parent) = "ready"
        /\ lc' = [lc EXCEPT ![l].pc = "submit"]
        /\ UNCHANGED faults
     \/ /\ ParentVerdict(parent) # "ready"
        /\ Records(l, ParentVerdict(parent), NoTransaction)
        /\ UNCHANGED faults
     \/ /\ parent # NoEvent
        /\ Fault("store")
        /\ Records(l, "defer", NoTransaction)
  /\ UNCHANGED <<rows, up, nav>>

\* attemptSubmit up to the moment NAV has the request, or the call has failed
\* for a reason that keeps it from NAV: no payload, an error NAV reports.
Submit(l) ==
  /\ At(l, "submit")
  /\ \/ /\ nav' = Append(nav, [event |-> RowOf(l), verdict |-> "RECEIVED"])
        /\ lc' = [lc EXCEPT ![l].pc = "reply", ![l].txn = Len(nav) + 1]
        /\ UNCHANGED faults
     \/ /\ Records(l, "rejected", NoTransaction)
        /\ UNCHANGED <<nav, faults>>
     \/ /\ Fault("flaky")
        /\ Records(l, "retry", NoTransaction)
        /\ UNCHANGED nav
  /\ UNCHANGED <<rows, up>>

\* attemptSubmit when the call returns: with the transaction id, or with a
\* transport error, which is retriable like every error that is no NAVError.
Reply(l) ==
  /\ At(l, "reply")
  /\ \/ /\ Records(l, "submitted", lc[l].txn)
        /\ UNCHANGED faults
     \/ /\ Fault("lost_reply")
        /\ Records(l, "retry", NoTransaction)
  /\ UNCHANGED <<rows, up, nav>>

\* MUTANT: a status that is not an abort is taken for the final one.
HastyVerdict(txn) == IF nav[txn].verdict = "ABORTED" THEN "rejected" ELSE "accepted"

\* What pollStatus makes of the overall status NAV reports.
PollVerdict(txn) ==
  CASE nav[txn].verdict = "ABORTED"  -> "rejected"
    [] nav[txn].verdict = "FINISHED" -> "accepted"
    [] OTHER                         -> "processing"

\* pollStatus: NAV answers, or refuses the question in a way that is not
\* retriable, as it also is when the row has no transaction to ask about.
Poll(l) ==
  /\ At(l, "poll")
  /\ \/ /\ \E res \in {"rejected"} \cup
                      {PollVerdict(t) : t \in {lc[l].txn} \ {NoTransaction}} :
             Records(l, res, lc[l].txn)
        /\ UNCHANGED faults
     \/ /\ lc[l].txn # NoTransaction
        /\ Fault("flaky")
        /\ Records(l, "pollretry", lc[l].txn)
  /\ UNCHANGED <<rows, up, nav>>

\* MUTANT: the transaction id NAV answered with is not kept.
MutatedForgettingTransaction(row, res, txn, delay) ==
  CASE res = "submitted"  -> Transitioned(row, [row EXCEPT !.next = "soon"], "submitted")
    [] res = "processing" -> Transitioned(row, [row EXCEPT !.next = "soon"], "processing")
    [] res = "retry"      -> Transitioned(row, [row EXCEPT !.next = delay], "pending")
    [] res \in {"pollretry", "defer"} -> [row EXCEPT !.next = delay]
    [] OTHER              -> Transitioned(row, row, res)

\* MUTANT: a failed poll puts the row back in the queue of submissions.
MutatedRequeueing(row, res, txn, delay) ==
  CASE res = "submitted"  ->
         Transitioned(row, [row EXCEPT !.txn = txn, !.next = "soon"], "submitted")
    [] res = "processing" -> Transitioned(row, [row EXCEPT !.next = "soon"], "processing")
    [] res = "retry"      -> Transitioned(row, [row EXCEPT !.next = delay], "pending")
    [] res = "pollretry"  -> [row EXCEPT !.next = delay, !.status = "pending"]
    [] res = "defer"      -> [row EXCEPT !.next = delay]
    [] OTHER              -> Transitioned(row, row, res)

\* The mutators handed to UpdateStatus, one for each result.
Mutated(row, res, txn, delay) ==
  CASE res = "submitted"  ->
         Transitioned(row, [row EXCEPT !.txn = txn, !.next = "soon"], "submitted")
    [] res = "processing" -> Transitioned(row, [row EXCEPT !.next = "soon"], "processing")
    [] res = "retry"      -> Transitioned(row, [row EXCEPT !.next = delay], "pending")
    [] res \in {"pollretry", "defer"} -> [row EXCEPT !.next = delay]
    [] OTHER              -> Transitioned(row, row, res)

\* updateStatus, whose failure is only logged: the lifecycle goes on either
\* way, except that a row parentReady has deferred or aborted is given up.
UpdateStatus(l) ==
  /\ At(l, "update")
  /\ \/ /\ \E delay \in Delays :
             rows' = [rows EXCEPT ![RowOf(l)] = Mutated(@, lc[l].res, lc[l].txn, delay)]
        /\ UNCHANGED faults
     \/ Fault("store") /\ UNCHANGED rows
  /\ IF lc[l].res \in {"defer", "aborted"} THEN Exits(l)
     ELSE lc' = [lc EXCEPT ![l] = [@ EXCEPT !.pc = "get", !.res = "none",
                                            !.txn = NoTransaction]]
  /\ UNCHANGED <<up, nav>>

\* MUTANT: only a distant next attempt ends a lifecycle, not an outcome.
RestsWhenFarOff(row) == row.next = "later"

\* Nothing is left to do for the row, or nothing before a scan finds it due.
Rests(row) == IsTerminal(row.status) \/ row.next = "later"

\* The lifecycle reads its row again.  The next round starts on this copy, and
\* after a wait: nothing is read again when the wait is over.
Get(l) ==
  LET row == rows[RowOf(l)] IN
  /\ At(l, "get")
  /\ \/ /\ Rests(row)
        /\ Exits(l)
        /\ UNCHANGED faults
     \/ /\ ~Rests(row)
        /\ lc' = [lc EXCEPT ![l] = Dispatched(@, row)]
        /\ UNCHANGED faults
     \/ Fault("store") /\ Exits(l)
  /\ UNCHANGED <<rows, up, nav>>

\* The context was cancelled: whatever call the lifecycle is in or comes to
\* next fails without effect, and it returns.  NAV may have the request.
Abandon(l) ==
  /\ ~lc[l].live
  /\ lc[l].pc \notin {"idle", "release"}
  /\ Exits(l)
  /\ UNCHANGED <<rows, up, nav, faults>>

\* MUTANT: the claim is released without waiting for the renewer.
NoWait(l) == TRUE

\* renewDone.Wait().
RenewStopped(l) == ~lc[l].renewing

\* The deferred ReleaseClaim, which runs on a context of its own.
Release(l) ==
  /\ lc[l].pc = "release"
  /\ RenewStopped(l)
  /\ \/ /\ rows' = [rows EXCEPT ![RowOf(l)] = Released(@, Owner(l))]
        /\ UNCHANGED faults
     \/ Fault("store") /\ UNCHANGED rows
  /\ lc' = [lc EXCEPT ![l] = [Idle EXCEPT !.renewing = lc[l].renewing]]
  /\ UNCHANGED <<up, nav>>

Step(l) ==
  \/ ParentReady(l) \/ Submit(l) \/ Reply(l) \/ Poll(l)
  \/ UpdateStatus(l) \/ Get(l) \/ Abandon(l) \/ Release(l)
-----------------------------------------------------------------------------
(* The lease.                                                              *)

\* The ticker of renewLease fires and RenewClaim is done.  A renewal that fails
\* cancels the lifecycle's context.
Renew(l) ==
  /\ lc[l].pc # "idle" /\ lc[l].live
  /\ \/ /\ rows' = [rows EXCEPT ![RowOf(l)] = Renewed(@, Owner(l))]
        /\ lc' = [lc EXCEPT ![l].live = Holds(rows[RowOf(l)], Owner(l))]
        /\ UNCHANGED faults
     \/ /\ Fault("store")
        /\ lc' = [lc EXCEPT ![l].live = FALSE]
        /\ UNCHANGED rows
  /\ UNCHANGED <<up, nav>>

\* The call that was under way when the lifecycle returned is done, or fails
\* because its context is cancelled.
EndRenew(l) ==
  /\ lc[l].renewing
  /\ rows' \in {rows, [rows EXCEPT ![RowOf(l)] = Renewed(@, Owner(l))]}
  /\ lc' = [lc EXCEPT ![l].renewing = FALSE]
  /\ UNCHANGED <<up, nav, faults>>

WorkedOn(e) == \E l \in Lifecycles :
                 RowOf(l) = e /\ Holds(rows[e], Owner(l)) /\ lc[l].pc # "idle"

Lapses(e) ==
  /\ rows[e].lease = "valid"
  /\ rows' = [rows EXCEPT ![e].lease = "expired"]
  /\ UNCHANGED <<lc, up, nav>>

\* The lease of a row its holder no longer works on runs out.
LeaseLapse(e) == ~WorkedOn(e) /\ Lapses(e) /\ UNCHANGED faults

\* The lease runs out under a lifecycle that renews too late.
LateRenewal(e) == WorkedOn(e) /\ Fault("late_renewal") /\ Lapses(e)
-----------------------------------------------------------------------------
Next ==
  \/ NavDecide
  \/ \E e \in Events : Put(e) \/ TimePasses(e) \/ LeaseLapse(e) \/ LateRenewal(e)
  \/ \E w \in Workers : ClaimBatch(w) \/ Crash(w) \/ Stop(w) \/ Restart(w)
  \/ \E l \in Lifecycles : Step(l) \/ Renew(l) \/ EndRenew(l)

Spec == Init /\ [][Next]_vars

\* Goroutines are scheduled, calls return, Run scans at least every MaxSleep,
\* the clock advances, processes are restarted and NAV decides in the end.
Fairness ==
  /\ \A l \in Lifecycles : WF_vars(Step(l)) /\ WF_vars(EndRenew(l))
  /\ \A w \in Workers : WF_vars(ClaimBatch(w)) /\ WF_vars(Restart(w))
  /\ \A e \in Events : WF_vars(TimePasses(e)) /\ WF_vars(LeaseLapse(e))
  /\ WF_vars(NavDecide)

FairSpec == Spec /\ Fairness
=============================================================================
