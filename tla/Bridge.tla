------------------------------- MODULE Bridge -------------------------------
(***************************************************************************)
(* The bridge as it runs: Webhook's intake and the workers over one store. *)
(*                                                                         *)
(* One process is seen whole: Stripe's deliveries are served by it, its    *)
(* wakeups reach its own Run loop, and Shutdown, a crash and a restart     *)
(* take the parts of it together.  The other replicas are workers.  Each   *)
(* step is a step of Webhook, of Worker, or of both where the code of both *)
(* is one call; the deliveries of the model come from Webhook, not from    *)
(* Worker's own, freer Put.                                                *)
(***************************************************************************)
EXTENDS SubmissionStore

CONSTANTS Home,                                             \* the process seen whole
          Original, Gens, Delays, Faults, MaxFaults,        \* see Worker
          Handlers, Kinds, Rates, NoRate,                   \* see Webhook
          Mishaps, MaxMishaps                               \* Webhook's own Faults

VARIABLES rows,                                             \* the store, of both
          lc, up, nav, faults,                              \* of Worker
          payload, stripe, handler, token, timer, loop,     \* of Webhook
          announced, scanned, mishaps

W == INSTANCE WorkerProperties
H == INSTANCE Webhook WITH Faults <- Mishaps, MaxFaults <- MaxMishaps, faults <- mishaps

\* The constants suit both parts.
ASSUME BridgeAssumption ==
  /\ Home \in Workers
  /\ W!WorkerAssumption
  /\ H!WebhookAssumption

workers == <<lc, up, nav, faults>>
intake == <<payload, stripe, handler, token, timer, loop, announced, scanned, mishaps>>
vars == <<rows, workers, intake>>

Init == W!Init /\ H!Init
-----------------------------------------------------------------------------
(* What the two parts do on their own.                                     *)

\* Stripe, the deliveries, and the waiting of Run.
Serve(h) == H!Serve(h) /\ UNCHANGED workers
Deliver(e) == H!Deliver(e) /\ UNCHANGED workers
Intake ==
  \/ \E e \in Events : H!Happen(e) /\ UNCHANGED workers
  \/ \E h \in Handlers : H!Expire(h) /\ UNCHANGED workers
Pace == (H!Select \/ H!Spawn) /\ UNCHANGED workers
TimerFires == H!TimerFires /\ UNCHANGED workers

\* The lifecycles of every replica, their leases, NAV and the clock.
Step(l) == W!Step(l) /\ UNCHANGED intake
Renew(l) == W!Renew(l) /\ UNCHANGED intake
EndRenew(l) == W!EndRenew(l) /\ UNCHANGED intake
TimePasses(e) == W!TimePasses(e) /\ UNCHANGED intake
LeaseLapse(e) == W!LeaseLapse(e) /\ UNCHANGED intake
Lease(e) == (W!LeaseLapse(e) \/ W!LateRenewal(e)) /\ UNCHANGED intake
NavDecide == W!NavDecide /\ UNCHANGED intake

\* Another replica, of which only the worker is seen.
Replica(w) ==
  /\ W!ClaimBatch(w) \/ W!Crash(w) \/ W!Stop(w) \/ W!Restart(w)
  /\ UNCHANGED intake
-----------------------------------------------------------------------------
(* What they do together.                                                  *)

NothingClaimable == ~ENABLED W!ClaimBatch(Home)

\* claimAndProcess of the process seen whole: ClaimBatch returns a batch, or
\* nothing because nothing is claimable, or an error that is only logged.
HomeScan ==
  /\ H!CallsClaimBatch
  /\ \/ W!ClaimBatch(Home) /\ UNCHANGED mishaps
     \/ NothingClaimable /\ UNCHANGED <<rows, workers, mishaps>>
     \/ H!Fault("store") /\ UNCHANGED <<rows, workers>>

\* Shutdown cancels Run's context; the deliveries go on.
HomeStop == H!Stop /\ W!Stop(Home)

\* MUTANT: the store is in the memory of the process.
VolatileCrash ==
  /\ loop # "dead" /\ W!Fault("crash") /\ H!Fault("crash")
  /\ rows' = [e \in Events |-> AbsentRow]
  /\ lc' = [l \in W!Lifecycles |-> IF W!Owner(l) = Home THEN W!Idle ELSE lc[l]]
  /\ up' = [up EXCEPT ![Home] = FALSE]
  /\ handler' = [h \in Handlers |-> H!Idle]
  /\ token' = FALSE /\ timer' = "stopped" /\ loop' = "dead" /\ announced' = {}
  /\ UNCHANGED <<nav, payload, stripe, scanned>>

\* The process dies, with its deliveries, its Run loop and its lifecycles.
HomeCrash ==
  /\ H!Crash
  /\ \/ W!Crash(Home)
     \/ ~W!Running(Home) /\ UNCHANGED workers

HomeRestart == H!Restart /\ W!Restart(Home)

Next ==
  \/ Intake \/ Pace \/ TimerFires \/ NavDecide
  \/ HomeScan \/ HomeStop \/ HomeCrash \/ HomeRestart
  \/ \E h \in Handlers : Serve(h)
  \/ \E e \in Events : Deliver(e) \/ TimePasses(e) \/ Lease(e)
  \/ \E w \in Workers \ {Home} : Replica(w)
  \/ \E l \in W!Lifecycles : Step(l) \/ Renew(l) \/ EndRenew(l)

Spec == Init /\ [][Next]_vars

\* Goroutines are scheduled and calls return; time passes; Stripe delivers what
\* is due again and again, also while other deliveries keep every handler busy
\* in between; a process that is down is started again; NAV decides in the end.
\* Nothing is asked of the other replicas' Run loops.
Fairness ==
  /\ \A h \in Handlers : WF_vars(Serve(h))
  /\ \A e \in Events : SF_vars(Deliver(e)) /\ WF_vars(TimePasses(e)) /\ WF_vars(LeaseLapse(e))
  /\ \A l \in W!Lifecycles : WF_vars(Step(l)) /\ WF_vars(EndRenew(l))
  /\ WF_vars(Pace) /\ WF_vars(TimerFires) /\ WF_vars(HomeScan) /\ WF_vars(HomeRestart)
  /\ WF_vars(NavDecide)

FairSpec == Spec /\ Fairness
-----------------------------------------------------------------------------
(* The parts keep their promises together.                                 *)

\* Whatever deliveries do, in whatever order, they are to the workers no more
\* than Worker's Put of a new row: what Worker promises holds of the bridge
\* (persistMapped, findParentSubmission).
ImplementsWorker == W!Spec

\* What a delivery can know of a row: that it is there, and its parent.
Received == [e \in Events |-> IF Stored(rows[e]) THEN NewRow(rows[e].parent) ELSE AbsentRow]

I == INSTANCE Webhook WITH Faults <- Mishaps, MaxFaults <- MaxMishaps, faults <- mishaps,
                           rows <- Received

\* Whatever the workers make of a row, to the intake it stays the row that was
\* put: what Webhook promises holds of the bridge (UpdateStatus, the store).
ImplementsIntake == I!Spec

\* Every event the bridge can report comes to an outcome, once Stripe has it:
\* through refused deliveries, lost wakeups, failing scans, restarts between any
\* two steps, and behind whatever it reverses.
EventuallyReported ==
  \A e \in Events : H!Due(e) /\ ~H!Hopeless(e) ~> IsTerminal(rows[e].status)
-----------------------------------------------------------------------------
(* What README.md says and a run refutes.                                  *)

\* README.md, of parent dependency tracking: "a STORNO submission waits for its
\* parent CREATE to be accepted on NAV's side before submitting".
StornoWaitsForOriginal == W!StornoWaitsForOriginal
=============================================================================
