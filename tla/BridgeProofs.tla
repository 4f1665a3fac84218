---------------------------- MODULE BridgeProofs ----------------------------
(***************************************************************************)
(* The bridge refines both of its parts: to the workers a delivery is no   *)
(* more than the arrival of a row, to the intake the workers are not there *)
(* at all.  What each part promises by itself therefore holds of the whole *)
(* bridge.  For any numbers of events, deliveries, replicas and lifecycles *)
(* and any failures of either part.                                        *)
(***************************************************************************)
EXTENDS Bridge, TLAPS

\* Worker with its theorems.  W, of Bridge, is the same specification without.
P == INSTANCE WorkerClaimProofs

-----------------------------------------------------------------------------
(* A step of W is a step of P: same definitions under two names.           *)

LEMMA NavIsSame ==
  W!NavDecide => P!NavDecide
BY DEF W!NavDecide, P!NavDecide

LEMMA EventsAreSame ==
  ASSUME NEW e
  PROVE  /\ W!TimePasses(e) => P!TimePasses(e)
         /\ W!LeaseLapse(e) => P!LeaseLapse(e)
         /\ W!LateRenewal(e) => P!LateRenewal(e)
         /\ W!Put(e) => P!Put(e)
<1>1. W!TimePasses(e) => P!TimePasses(e)
  BY DEF
    W!TimePasses, P!TimePasses
<1>2. W!LeaseLapse(e) => P!LeaseLapse(e)
  BY DEF
    W!LeaseLapse, P!LeaseLapse, W!WorkedOn, P!WorkedOn, W!Lapses, P!Lapses,
    W!Lifecycles, P!Lifecycles, W!RowOf, P!RowOf, W!Holds, P!Holds, W!Owner, P!Owner
<1>3. W!LateRenewal(e) => P!LateRenewal(e)
  BY DEF
    W!LateRenewal, P!LateRenewal, W!WorkedOn, P!WorkedOn, W!Fault, P!Fault, W!Lapses,
    P!Lapses, W!Lifecycles, P!Lifecycles, W!RowOf, P!RowOf, W!Holds, P!Holds, W!Owner,
    P!Owner
<1>4. W!Put(e) => P!Put(e)
  BY DEF
    W!Put, P!Put, W!Stored, P!Stored, W!NewRow, P!NewRow, W!AbsentRow, P!AbsentRow,
    W!NoTransaction, P!NoTransaction
<1> QED
  BY <1>1, <1>2, <1>3, <1>4

LEMMA ProcessesAreSame ==
  ASSUME NEW w
  PROVE  /\ W!Crash(w) => P!Crash(w)
         /\ W!Stop(w) => P!Stop(w)
         /\ W!Restart(w) => P!Restart(w)
<1>1. W!Crash(w) => P!Crash(w)
  BY DEF
    W!Crash, P!Crash, W!Running, P!Running, W!Fault, P!Fault, W!Lifecycles,
    P!Lifecycles, W!Owner, P!Owner, W!Idle, P!Idle, W!NoTransaction, P!NoTransaction
<1>2. W!Stop(w) => P!Stop(w)
  BY DEF
    W!Stop, P!Stop, W!Fault, P!Fault, W!Lifecycles, P!Lifecycles, W!Owner, P!Owner
<1>3. W!Restart(w) => P!Restart(w)
  BY DEF
    W!Restart, P!Restart
<1> QED
  BY <1>1, <1>2, <1>3

LEMMA StepsAreSame ==
  ASSUME NEW l
  PROVE  W!Step(l) => P!Step(l)
<1>1. W!ParentReady(l) => P!ParentReady(l)
  BY DEF
    W!ParentReady, P!ParentReady, W!RowOf, P!RowOf, W!At, P!At, W!ParentVerdict,
    P!ParentVerdict, W!Records, P!Records, W!NoTransaction, P!NoTransaction, W!Fault,
    P!Fault
<1>2. W!Submit(l) => P!Submit(l)
  BY DEF
    W!Submit, P!Submit, W!At, P!At, W!RowOf, P!RowOf, W!Records, P!Records,
    W!NoTransaction, P!NoTransaction, W!Fault, P!Fault
<1>3. W!Reply(l) => P!Reply(l)
  BY DEF
    W!Reply, P!Reply, W!At, P!At, W!Records, P!Records, W!Fault, P!Fault,
    W!NoTransaction, P!NoTransaction
<1>4. W!Poll(l) => P!Poll(l)
  BY DEF
    W!Poll, P!Poll, W!At, P!At, W!PollVerdict, P!PollVerdict, W!NoTransaction,
    P!NoTransaction, W!Records, P!Records, W!Fault, P!Fault
<1>5. W!UpdateStatus(l) => P!UpdateStatus(l)
  BY DEF
    W!UpdateStatus, P!UpdateStatus, W!At, P!At, W!RowOf, P!RowOf, W!Mutated, P!Mutated,
    W!Fault, P!Fault, W!Exits, P!Exits, W!NoTransaction, P!NoTransaction,
    W!Transitioned, P!Transitioned, W!Idle, P!Idle, W!CanTransition, P!CanTransition,
    W!ValidTransitions, P!ValidTransitions
<1>6. W!Get(l) => P!Get(l)
  BY DEF
    W!Get, P!Get, W!RowOf, P!RowOf, W!At, P!At, W!Rests, P!Rests, W!Exits, P!Exits,
    W!Dispatched, P!Dispatched, W!Fault, P!Fault, W!IsTerminal, P!IsTerminal, W!Idle,
    P!Idle, W!NoTransaction, P!NoTransaction, W!Terminal, P!Terminal
<1>7. W!Abandon(l) => P!Abandon(l)
  BY DEF
    W!Abandon, P!Abandon, W!Exits, P!Exits, W!Idle, P!Idle, W!NoTransaction,
    P!NoTransaction
<1>8. W!Release(l) => P!Release(l)
  BY DEF
    W!Release, P!Release, W!RenewStopped, P!RenewStopped, W!RowOf, P!RowOf, W!Released,
    P!Released, W!Owner, P!Owner, W!Fault, P!Fault, W!Idle, P!Idle, W!Holds, P!Holds,
    W!NoTransaction, P!NoTransaction
<1> QED
  BY <1>1, <1>2, <1>3, <1>4, <1>5, <1>6, <1>7, <1>8 DEF W!Step, P!Step

LEMMA RenewalsAreSame ==
  ASSUME NEW l
  PROVE  /\ W!Renew(l) => P!Renew(l)
         /\ W!EndRenew(l) => P!EndRenew(l)
<1>1. W!Renew(l) => P!Renew(l)
  BY DEF
    W!Renew, P!Renew, W!RowOf, P!RowOf, W!Renewed, P!Renewed, W!Owner, P!Owner, W!Holds,
    P!Holds, W!Fault, P!Fault
<1>2. W!EndRenew(l) => P!EndRenew(l)
  BY DEF
    W!EndRenew, P!EndRenew, W!RowOf, P!RowOf, W!Renewed, P!Renewed, W!Owner, P!Owner,
    W!Holds, P!Holds
<1> QED
  BY <1>1, <1>2

LEMMA BatchesAreSame == ASSUME NEW w PROVE W!Batches(rows, w) = P!Batches(rows, w)
<1>1. \A S : W!Cardinality(S) = P!Cardinality(S)
  BY DEF W!Cardinality, P!Cardinality
<1> QED
  BY <1>1 DEF W!Batches, P!Batches, W!Claimable, P!Claimable, W!Stored, P!Stored,
    W!IsTerminal, P!IsTerminal, W!Terminal, P!Terminal, W!Unheld, P!Unheld

LEMMA ClaimsAreSame == ASSUME NEW w, W!ClaimBatch(w) PROVE P!ClaimBatch(w)
<1>1. PICK batch \in W!Batches(rows, w) \ {{}} :
        \E gen \in [batch -> Gens] :
          /\ \A e \in batch : gen[e] \in W!FreeGens(w, e)
          /\ rows' = [e \in Events |->
                        IF e \in batch THEN W!Claimed(rows[e], w) ELSE rows[e]]
          /\ lc' = [l \in W!Lifecycles |->
                      IF W!Owner(l) = w /\ W!RowOf(l) \in batch /\ l[3] = gen[W!RowOf(l)]
                      THEN W!Dispatched([W!Idle EXCEPT !.live = TRUE], rows[W!RowOf(l)])
                      ELSE lc[l]]
  BY DEF W!ClaimBatch
<1>2. PICK gen \in [batch -> Gens] :
        /\ \A e \in batch : gen[e] \in W!FreeGens(w, e)
        /\ rows' = [e \in Events |->
                      IF e \in batch THEN W!Claimed(rows[e], w) ELSE rows[e]]
        /\ lc' = [l \in W!Lifecycles |->
                    IF W!Owner(l) = w /\ W!RowOf(l) \in batch /\ l[3] = gen[W!RowOf(l)]
                    THEN W!Dispatched([W!Idle EXCEPT !.live = TRUE], rows[W!RowOf(l)])
                    ELSE lc[l]]
  BY <1>1
<1>3. /\ \A e \in batch : gen[e] \in P!FreeGens(w, e)
      /\ rows' = [e \in Events |->
                    IF e \in batch THEN P!Claimed(rows[e], w) ELSE rows[e]]
      /\ lc' = [l \in P!Lifecycles |->
                  IF P!Owner(l) = w /\ P!RowOf(l) \in batch /\ l[3] = gen[P!RowOf(l)]
                  THEN P!Dispatched([P!Idle EXCEPT !.live = TRUE], rows[P!RowOf(l)])
                  ELSE lc[l]]
  BY <1>2 DEF W!FreeGens, P!FreeGens, W!Claimed, P!Claimed, W!Lifecycles, P!Lifecycles,
    W!Owner, P!Owner, W!RowOf, P!RowOf, W!Dispatched, P!Dispatched, W!Idle, P!Idle,
    W!NoTransaction, P!NoTransaction
<1>4. batch \in P!Batches(rows, w) \ {{}}
  BY BatchesAreSame
<1>5. up[w] /\ UNCHANGED <<up, nav, faults>>
  BY Zenon DEF W!ClaimBatch
<1> QED
  BY <1>3, <1>4, <1>5, Zenon DEF P!ClaimBatch

\* What the workers, their leases, NAV and the clock may do in the bridge.
Work ==
  \/ W!NavDecide
  \/ \E e \in Events : W!TimePasses(e) \/ W!LeaseLapse(e) \/ W!LateRenewal(e)
  \/ \E w \in Workers : W!ClaimBatch(w) \/ W!Crash(w) \/ W!Stop(w) \/ W!Restart(w)
  \/ \E l \in W!Lifecycles : W!Step(l) \/ W!Renew(l) \/ W!EndRenew(l)

LEMMA WorkIsSame == Work => P!Work
<1>1. W!Lifecycles = P!Lifecycles
  BY DEF W!Lifecycles, P!Lifecycles
<1> QED
  BY <1>1, NavIsSame, EventsAreSame, ProcessesAreSame, ClaimsAreSame, StepsAreSame, RenewalsAreSame
  DEF Work, P!Work

LEMMA InitIsSame == W!Init => P!Init
BY DEF W!Init, P!Init, W!AbsentRow, P!AbsentRow, W!Lifecycles, P!Lifecycles, W!Idle, P!Idle,
  W!NoTransaction, P!NoTransaction

LEMMA ConstantsSuit == P!StoreAssumption /\ P!WorkerAssumption
BY StoreAssumption, BridgeAssumption DEF W!WorkerAssumption, W!FaultKinds, P!FaultKinds

LEMMA ReceivedByWorkers ==
  ASSUME P!TypeOK, Work, NEW e \in Events
  PROVE  /\ Stored(rows'[e]) <=> Stored(rows[e])
         /\ rows'[e].parent = rows[e].parent
BY ConstantsSuit, WorkIsSame, P!WorkAddsNothing DEF Stored, P!Stored
-----------------------------------------------------------------------------
(* Deliveries in the bridge.                                               *)

\* A delivery at work is one of an event; it looks for a parent only where there
\* is one, and holds none but the original whose row it has found.
Fits(d) ==
  /\ d.pc # "idle" => d.event \in Events
  /\ d.pc = "find" => Original[d.event] \in Events
  /\ d.parent # NoEvent => /\ d.parent \in Events
                           /\ d.parent = Original[d.event]
                           /\ Stored(rows[d.parent])

Handles == handler \in [Handlers -> H!Delivery]

Paid == payload \in [Events -> Rates \cup {NoRate}]

Tracking == P!TypeOK /\ Handles /\ Paid /\ \A h \in Handlers : Fits(handler[h])

\* Every step is one of the intake, which leaves the workers alone, or work, or
\* both at once.
LEMMA StepParts ==
  ASSUME [Next]_vars
  PROVE  \/ UNCHANGED vars
         \/ UNCHANGED workers /\ \/ \E h \in Handlers : H!Serve(h) \/ H!Expire(h)
                                 \/ \E e \in Events : H!Happen(e) \/ H!Deliver(e)
                                 \/ H!Select \/ H!TimerFires \/ H!Spawn
         \/ UNCHANGED intake /\ Work
         \/ H!Scan /\ UNCHANGED workers
         \/ H!CallsClaimBatch /\ W!ClaimBatch(Home) /\ UNCHANGED mishaps
         \/ H!Stop /\ W!Stop(Home)
         \/ H!Crash /\ (W!Crash(Home) \/ UNCHANGED workers)
         \/ H!Restart /\ W!Restart(Home)
<1>1. ASSUME HomeScan
      PROVE  \/ H!Scan /\ UNCHANGED workers
             \/ H!CallsClaimBatch /\ W!ClaimBatch(Home) /\ UNCHANGED mishaps
  BY <1>1 DEF HomeScan, H!Scan
<1>2. ASSUME NEW e \in Events, Lease(e) PROVE UNCHANGED intake /\ Work
  BY <1>2 DEF Lease, Work
<1>3. ASSUME NEW w \in Workers, Replica(w) PROVE UNCHANGED intake /\ Work
  BY <1>3 DEF Replica, Work
<1>4. ASSUME NEW l \in W!Lifecycles, Step(l) \/ Renew(l) \/ EndRenew(l)
      PROVE  UNCHANGED intake /\ Work
  BY <1>4 DEF Step, Renew, EndRenew, Work
<1>5. ASSUME NEW e \in Events, TimePasses(e) \/ NavDecide PROVE UNCHANGED intake /\ Work
  BY <1>5 DEF TimePasses, NavDecide, Work
<1> QED
  BY <1>1, <1>2, <1>3, <1>4, <1>5
  DEF Next, Intake, Pace, TimerFires, HomeStop, HomeCrash, HomeRestart, Serve, Deliver, NavDecide,
      Work

\* Only Put touches the store.
LEMMA IntakeKeepsRows ==
  ASSUME NEW h \in Handlers, H!Serve(h)
  PROVE  \/ UNCHANGED rows
         \/ /\ handler[h].pc = "put" /\ ~Stored(rows[handler[h].event])
            /\ rows' = [rows EXCEPT ![handler[h].event] = NewRow(handler[h].parent)]
BY DEF H!Serve, H!Dedup, H!FindParent, H!Map, H!Put, H!Insert, H!Wakeup, H!Answer,
  H!Stored, Stored, H!NewRow, NewRow, H!AbsentRow, AbsentRow, H!NoTransaction, NoTransaction

\* What a delivery does is nothing to the workers, or their Put.
LEMMA WorkersStep ==
  ASSUME Tracking, [Next]_vars
  PROVE  [W!Next]_W!vars
<1>1. ASSUME NEW h \in Handlers, H!Serve(h), UNCHANGED workers
      PROVE  UNCHANGED W!vars \/ \E e \in Events : W!Put(e)
  <2>1. CASE UNCHANGED rows
    BY <1>1, <2>1 DEF workers, W!vars
  <2>2. ASSUME handler[h].pc = "put", ~Stored(rows[handler[h].event]),
               rows' = [rows EXCEPT ![handler[h].event] = NewRow(handler[h].parent)]
        PROVE  \E e \in Events : W!Put(e)
    <3>1. /\ handler[h].event \in Events
          /\ handler[h].parent \in {NoEvent} \cup
               {p \in {Original[handler[h].event]} \ {NoEvent} : Stored(rows[p])}
      BY <2>2 DEF Tracking, Fits
    <3> QED
      BY <1>1, <2>2, <3>1 DEF workers, W!Put, W!Stored, Stored, W!NewRow, NewRow, W!AbsentRow,
        AbsentRow, W!NoTransaction, NoTransaction
  <2> QED
    BY <1>1, <2>1, <2>2, IntakeKeepsRows
<1>2. ASSUME UNCHANGED workers,
             \/ \E h \in Handlers : H!Expire(h)
             \/ \E e \in Events : H!Happen(e) \/ H!Deliver(e)
             \/ H!Select \/ H!TimerFires \/ H!Spawn \/ H!Scan \/ H!Crash
      PROVE  UNCHANGED W!vars
  BY <1>2 DEF workers, W!vars, H!Expire, H!Happen, H!Deliver, H!Select, H!Woken, H!TimedOut,
    H!TimerFires, H!Spawn, H!Scan, H!Crash, H!intake
<1>3. UNCHANGED vars => UNCHANGED W!vars
  BY DEF vars, workers, W!vars
<1>4. Home \in Workers
  BY BridgeAssumption
<1> QED
  BY <1>1, <1>2, <1>3, <1>4, StepParts DEF W!Next, Work

LEMMA IdleFits == H!Idle \in H!Delivery /\ Fits(H!Idle)
BY DEF H!Idle, H!Delivery, Fits

\* A delivery goes on to its next call.
LEMMA GoesOn ==
  ASSUME NEW d \in H!Delivery, Fits(d), d.pc # "idle",
         NEW pc \in {"find", "rate", "put", "wake", "ok", "unavailable"},
         pc = "find" => Original[d.event] \in Events,
         NEW new, new = [d EXCEPT !.pc = pc]
  PROVE  new \in H!Delivery /\ Fits(new)
<1>1. /\ new \in H!Delivery
      /\ new.pc = pc /\ new.event = d.event /\ new.parent = d.parent
  BY DEF H!Delivery
<1> QED
  BY <1>1 DEF Fits

LEMMA Goes ==
  ASSUME Tracking, NEW h \in Handlers, handler[h].pc # "idle",
         NEW pc \in {"find", "rate", "put", "wake", "ok", "unavailable"},
         pc = "find" => Original[handler[h].event] \in Events, H!Goes(h, pc)
  PROVE  \E n \in H!Delivery : handler' = [handler EXCEPT ![h] = n] /\ Fits(n)
<1> DEFINE n == [handler[h] EXCEPT !.pc = pc]
<1>1. handler[h] \in H!Delivery /\ Fits(handler[h])
  BY DEF Tracking, Handles
<1>2. handler' = [handler EXCEPT ![h] = n]
  BY DEF H!Goes, Tracking, Handles
<1>3. n \in H!Delivery /\ Fits(n)
  BY <1>1, GoesOn
<1> QED
  BY <1>2, <1>3

\* With what it has found, which is nothing or the original.
LEMMA Learns ==
  ASSUME NEW d \in H!Delivery, Fits(d), d.pc # "idle", NEW pc \in {"rate", "put", "ok"},
         NEW parent, parent = NoEvent \/ (/\ parent \in Events
                                          /\ parent = Original[d.event]
                                          /\ Stored(rows[parent])),
         NEW rate \in Rates \cup {NoRate},
         NEW new, new = [d EXCEPT !.pc = pc, !.parent = parent, !.rate = rate]
  PROVE  new \in H!Delivery /\ Fits(new)
<1>1. /\ new \in H!Delivery
      /\ new.pc = pc /\ new.event = d.event /\ new.parent = parent
  BY DEF H!Delivery
<1> QED
  BY <1>1 DEF Fits

\* One call of a delivery leaves it one that fits.
LEMMA Serves ==
  ASSUME Tracking, NEW h \in Handlers, H!Serve(h)
  PROVE  \E d \in H!Delivery : handler' = [handler EXCEPT ![h] = d] /\ Fits(d)
<1> DEFINE d == handler[h]
<1>a. d \in H!Delivery /\ Fits(d) /\ DOMAIN handler = Handlers
  BY DEF Tracking, Handles
<1>1. ASSUME H!Dedup(h)
      PROVE  \E n \in H!Delivery : handler' = [handler EXCEPT ![h] = n] /\ Fits(n)
  <2>1. d.pc = "get" /\ d.event \in Events
    BY <1>1, <1>a DEF H!Dedup, Fits
  <2>2. PICK pc \in {"ok", "find", "rate", "unavailable"} :
          H!Goes(h, pc) /\ (pc = "find" => Original[d.event] # NoEvent)
    BY <1>1 DEF H!Dedup, H!Proceed
  <2>3. pc = "find" => Original[d.event] \in Events
    BY <2>1, <2>2, BridgeAssumption DEF H!WebhookAssumption
  <2> QED
    BY <2>1, <2>2, <2>3, Goes
<1>2. ASSUME H!FindParent(h)
      PROVE  \E n \in H!Delivery : handler' = [handler EXCEPT ![h] = n] /\ Fits(n)
  <2>1. d.pc = "find" /\ Original[d.event] \in Events
    BY <1>2, <1>a DEF H!FindParent, Fits
  <2>2. PICK parent, rate :
          /\ handler' = [handler EXCEPT ![h] =
                           [d EXCEPT !.pc = "rate", !.parent = parent, !.rate = rate]]
          /\ \/ parent = NoEvent /\ rate = NoRate
             \/ parent = Original[d.event] /\ Stored(rows[parent]) /\ rate = payload[parent]
    BY <1>2 DEF H!FindParent, H!ParentRate, H!Stored, Stored
  <2>3. rate \in Rates \cup {NoRate}
    BY <2>1, <2>2 DEF Tracking, Paid
  <2>4. parent = NoEvent \/ (/\ parent \in Events
                             /\ parent = Original[d.event]
                             /\ Stored(rows[parent]))
    BY <2>1, <2>2
  <2> DEFINE n == [d EXCEPT !.pc = "rate", !.parent = parent, !.rate = rate]
  <2>5. n \in H!Delivery /\ Fits(n)
    BY <1>a, <2>1, <2>3, <2>4, Learns
  <2> QED
    BY <2>2, <2>5
<1>3. ASSUME H!Map(h)
      PROVE  \E n \in H!Delivery : handler' = [handler EXCEPT ![h] = n] /\ Fits(n)
  <2>1. d.pc = "rate" /\ d.rate \in Rates \cup {NoRate}
    BY <1>3, <1>a DEF H!Map, H!Delivery
  <2>2. CASE H!Goes(h, "ok") \/ H!Goes(h, "unavailable")
    BY <2>1, <2>2, Goes
  <2>3. ASSUME NEW rate \in Rates \cup {NoRate}, NEW pc \in {"ok", "put"},
               handler' = [handler EXCEPT ![h] = [d EXCEPT !.pc = pc, !.rate = rate]]
        PROVE  \E n \in H!Delivery : handler' = [handler EXCEPT ![h] = n] /\ Fits(n)
    <3> DEFINE n == [d EXCEPT !.pc = pc, !.rate = rate]
    <3>1. n = [d EXCEPT !.pc = pc, !.parent = d.parent, !.rate = rate]
      BY <1>a DEF H!Delivery
    <3>2. d.parent = NoEvent \/ (/\ d.parent \in Events
                                 /\ d.parent = Original[d.event]
                                 /\ Stored(rows[d.parent]))
      BY <1>a DEF Fits
    <3>3. n \in H!Delivery /\ Fits(n)
      BY <1>a, <2>1, <3>1, <3>2, Learns
    <3> QED
      BY <2>3, <3>3
  <2> QED
    BY <1>3, <2>1, <2>2, <2>3 DEF H!Map
<1>4. ASSUME H!Put(h) \/ H!Wakeup(h)
      PROVE  \E n \in H!Delivery : handler' = [handler EXCEPT ![h] = n] /\ Fits(n)
  <2>1. d.pc # "idle" /\ \E pc \in {"wake", "ok", "unavailable"} : H!Goes(h, pc)
    BY <1>4 DEF H!Put, H!Wakeup
  <2> QED
    BY <2>1, Goes
<1>5. ASSUME H!Answer(h)
      PROVE  \E n \in H!Delivery : handler' = [handler EXCEPT ![h] = n] /\ Fits(n)
  BY <1>5, IdleFits DEF H!Answer
<1> QED
  BY <1>1, <1>2, <1>3, <1>4, <1>5 DEF H!Serve

LEMMA Delivers ==
  ASSUME Tracking, NEW e \in Events, H!Deliver(e)
  PROVE  \E h \in Handlers, d \in H!Delivery : handler' = [handler EXCEPT ![h] = d] /\ Fits(d)
<1> DEFINE d == [H!Idle EXCEPT !.pc = IF H!Kind(e) = "ineligible" THEN "ok" ELSE "get",
                               !.event = e]
<1>1. PICK h \in Handlers : handler' = [handler EXCEPT ![h] = d]
  BY DEF H!Deliver
<1>2. d \in H!Delivery /\ Fits(d)
  BY DEF H!Idle, H!Delivery, Fits
<1> QED
  BY <1>1, <1>2

LEMMA Expires ==
  ASSUME Tracking, NEW h \in Handlers, H!Expire(h)
  PROVE  \E d \in H!Delivery : handler' = [handler EXCEPT ![h] = d] /\ Fits(d)
<1> DEFINE d == [handler[h] EXCEPT !.late = TRUE]
<1>1. handler' = [handler EXCEPT ![h] = d]
  BY DEF H!Expire, Tracking, Handles
<1>2. handler[h] \in H!Delivery /\ Fits(handler[h])
  BY DEF Tracking, Handles
<1>3. /\ d \in H!Delivery
      /\ d.pc = handler[h].pc /\ d.event = handler[h].event /\ d.parent = handler[h].parent
  BY <1>2 DEF H!Delivery
<1> QED
  BY <1>1, <1>2, <1>3 DEF Fits

\* One delivery at most moves in a step, unless the process goes.
LEMMA HandlerHistory ==
  ASSUME Tracking, [Next]_vars
  PROVE  \/ UNCHANGED handler
         \/ handler' = [h \in Handlers |-> H!Idle]
         \/ \E h \in Handlers, d \in H!Delivery : handler' = [handler EXCEPT ![h] = d] /\ Fits(d)
<1>1. ASSUME H!Crash \/ H!Restart PROVE handler' = [h \in Handlers |-> H!Idle]
  BY <1>1 DEF H!Crash, H!Restart
<1>2. ASSUME \/ \E e \in Events : H!Happen(e)
             \/ H!Select \/ H!TimerFires \/ H!Spawn \/ H!Scan \/ H!CallsClaimBatch \/ H!Stop
             \/ UNCHANGED vars \/ UNCHANGED intake
      PROVE  UNCHANGED handler
  BY <1>2 DEF H!Happen, H!Select, H!Woken, H!TimedOut, H!TimerFires, H!Spawn, H!Scan,
    H!CallsClaimBatch, H!Stop, H!intake, vars, intake
<1> QED
  BY <1>1, <1>2, Serves, Expires, Delivers, StepParts

\* No row goes away.
LEMMA RowsStay ==
  ASSUME Tracking, [Next]_vars, NEW e \in Events, Stored(rows[e])
  PROVE  Stored(rows'[e])
<1>1. ASSUME NEW h \in Handlers, H!Serve(h) PROVE Stored(rows'[e])
  <2>1. DOMAIN rows = Events /\ rows = [f \in Events |-> rows[f]]
    BY DEF Tracking, P!TypeOK
  <2> QED
    BY <1>1, <2>1, IntakeKeepsRows
<1>2. ASSUME Work PROVE Stored(rows'[e])
  BY <1>2, ReceivedByWorkers DEF Tracking
<1>3. ASSUME \/ \E h \in Handlers : H!Expire(h)
             \/ \E f \in Events : H!Happen(f) \/ H!Deliver(f)
             \/ H!Select \/ H!TimerFires \/ H!Spawn \/ H!Scan \/ H!Crash
             \/ UNCHANGED vars
      PROVE  Stored(rows'[e])
  BY <1>3 DEF vars, H!Expire, H!Happen, H!Deliver, H!Select, H!Woken, H!TimedOut,
    H!TimerFires, H!Spawn, H!Scan, H!Crash, H!intake
<1>4. Home \in Workers
  BY BridgeAssumption
<1> QED
  BY <1>1, <1>2, <1>3, <1>4, StepParts DEF Work

LEMMA PaidStep == Tracking /\ [Next]_vars => Paid'
<1> SUFFICES ASSUME Tracking, [Next]_vars PROVE Paid'
  OBVIOUS
<1>1. ASSUME NEW h \in Handlers, H!Serve(h) PROVE Paid'
  <2>1. UNCHANGED payload \/ payload' = [payload EXCEPT ![handler[h].event] = handler[h].rate]
    BY <1>1 DEF H!Serve, H!Dedup, H!FindParent, H!Map, H!Put, H!Insert, H!Wakeup, H!Answer
  <2>2. handler[h].rate \in Rates \cup {NoRate}
    BY DEF Tracking, Handles, H!Delivery
  <2> QED
    BY <2>1, <2>2 DEF Tracking, Paid
<1>2. ASSUME \/ \E h \in Handlers : H!Expire(h)
             \/ \E f \in Events : H!Happen(f) \/ H!Deliver(f)
             \/ H!Select \/ H!TimerFires \/ H!Spawn \/ H!Scan \/ H!CallsClaimBatch
             \/ H!Stop \/ H!Crash \/ H!Restart
             \/ UNCHANGED vars \/ UNCHANGED intake
      PROVE  UNCHANGED payload
  BY <1>2 DEF vars, intake, H!Expire, H!Happen, H!Deliver, H!Select, H!Woken, H!TimedOut,
    H!TimerFires, H!Spawn, H!Scan, H!CallsClaimBatch, H!Stop, H!Crash, H!Restart, H!intake
<1> QED
  BY <1>1, <1>2, StepParts DEF Tracking, Paid

LEMMA WorkersNextIsSame == [W!Next]_W!vars => [P!Next]_P!vars
<1>1. W!vars = P!vars
  BY DEF W!vars, P!vars
<1>2. ASSUME W!Next PROVE P!Next
  <2>1. Work \/ \E e \in Events : W!Put(e)
    BY <1>2 DEF W!Next, Work
  <2>2. P!Work \/ \E e \in Events : P!Put(e)
    BY <2>1, WorkIsSame, EventsAreSame
  <2> QED
    BY <2>2 DEF P!Next, P!Work
<1> QED
  BY <1>1, <1>2 DEF W!vars, P!vars

LEMMA TrackingInit == Init => Tracking
<1> SUFFICES ASSUME Init PROVE Tracking
  OBVIOUS
<1>1. P!TypeOK
  BY InitIsSame, ConstantsSuit, P!TypeInit DEF Init
<1>2. handler = [h \in Handlers |-> H!Idle] /\ payload = [e \in Events |-> NoRate]
  BY DEF Init, H!Init
<1> QED
  BY <1>1, <1>2, IdleFits DEF Tracking, Handles, Paid

LEMMA TrackingStep == Tracking /\ [Next]_vars => Tracking'
<1> SUFFICES ASSUME Tracking, [Next]_vars PROVE Tracking'
  OBVIOUS
<1>1. P!TypeOK'
  BY WorkersStep, WorkersNextIsSame, ConstantsSuit, P!TypeStep DEF Tracking
<1>2. Handles'
  BY HandlerHistory, IdleFits DEF Tracking, Handles
<1>3. ASSUME NEW h \in Handlers PROVE Fits(handler[h])'
  <2>1. PICK d \in H!Delivery : handler'[h] = d /\ Fits(d)
    BY HandlerHistory, IdleFits DEF Tracking, Handles
  <2> QED
    BY <2>1, RowsStay DEF Fits
<1> QED
  BY <1>1, <1>2, <1>3, PaidStep DEF Tracking

LEMMA AlwaysTracking == Spec => []Tracking
BY TrackingInit, TrackingStep, PTL DEF Spec

\* Whatever Stripe, the deliveries, other replicas and failures do, the workers of
\* the bridge behave as Worker says: what is proved there holds of the bridge.
THEOREM WorkersUnaware == Spec => ImplementsWorker
<1>1. Init => W!Init
  BY DEF Init
<1>2. Tracking /\ [Next]_vars => [W!Next]_W!vars
  BY WorkersStep
<1> QED
  BY <1>1, <1>2, AlwaysTracking, PTL DEF Spec, ImplementsWorker, W!Spec
-----------------------------------------------------------------------------
(* What the intake sees.  I is Webhook with Received in place of the rows: *)
(* a step of H that leaves the rows alone, or puts one, is a step of I.    *)

LEMMA ReceivedStored ==
  \A e \in Events : I!Stored(Received[e]) <=> Stored(rows[e])
BY DEF Received, I!Stored, Stored, NewRow, AbsentRow

LEMMA ReceivedKept == UNCHANGED rows => UNCHANGED Received
BY DEF Received

\* Stripe, and the deliveries up to Put.
LEMMA StripeIsSame ==
  ASSUME NEW e \in Events
  PROVE  (H!Happen(e) => I!Happen(e)) /\ (H!Deliver(e) => I!Deliver(e))
<1>a. UNCHANGED rows => UNCHANGED Received
  BY ReceivedKept
<1>1. H!Happen(e) => I!Happen(e)
  BY <1>a
  DEF
    H!Happen, I!Happen, H!run, I!run
<1>2. H!Deliver(e) => I!Deliver(e)
  BY <1>a
  DEF
    H!Deliver, I!Deliver, H!Due, I!Due, H!AckedAt, I!AckedAt, H!Fault, I!Fault, H!Idle,
    I!Idle, H!Kind, I!Kind, H!run, I!run
<1> QED
  BY <1>1, <1>2

LEMMA DeliveriesAreSame ==
  ASSUME Tracking, NEW h \in Handlers
  PROVE  /\ H!Expire(h) => I!Expire(h)
         /\ H!Serve(h) => I!Serve(h)
<1>a. UNCHANGED rows => UNCHANGED Received
  BY ReceivedKept
<1>b. handler[h].pc # "idle" => handler[h].event \in Events
  BY DEF Tracking, Fits
<1>c. handler[h].pc = "find" => Original[handler[h].event] \in Events
  BY DEF Tracking, Fits
<1>d. \A e \in Events : I!Stored(Received[e]) <=> H!Stored(rows[e])
  BY ReceivedStored DEF Stored, H!Stored
<1>1. H!Expire(h) => I!Expire(h)
  BY <1>a
  DEF
    H!Expire, I!Expire, H!Fault, I!Fault, H!run, I!run
<1>2. H!Dedup(h) => I!Dedup(h)
  BY <1>a, <1>b, <1>d
  DEF
    H!Dedup, I!Dedup, H!Works, I!Works, H!Goes, I!Goes, H!Proceed, I!Proceed, H!Fails,
    I!Fails, H!run, I!run, H!Kind, I!Kind, H!Fault, I!Fault
<1>3. H!FindParent(h) => I!FindParent(h)
  BY <1>a, <1>b, <1>c, <1>d
  DEF
    H!FindParent, I!FindParent, H!Works, I!Works, H!ParentRate, I!ParentRate, H!Fails,
    I!Fails, H!run, I!run, H!Fault, I!Fault
<1>4. H!Map(h) => I!Map(h)
  BY <1>a
  DEF
    H!Map, I!Map, H!Kind, I!Kind, H!Goes, I!Goes, H!Fails, I!Fails, H!run, I!run,
    H!Fault, I!Fault
<1>5. H!Wakeup(h) => I!Wakeup(h)
  BY <1>a
  DEF
    H!Wakeup, I!Wakeup, H!Goes, I!Goes
<1>6. H!Answer(h) => I!Answer(h)
  BY <1>a
  DEF
    H!Answer, I!Answer, H!Acked, I!Acked, H!Fault, I!Fault, H!Idle, I!Idle, H!run, I!run
<1>7. ASSUME handler[h].pc = "put", ~H!Stored(rows[handler[h].event]), H!Insert(h)
      PROVE  I!Insert(h)
  <2>1. handler[h].event \in Events /\ rows = [e \in Events |-> rows[e]]
    BY <1>7, <1>b DEF Tracking, P!TypeOK
  <2>2. rows' = [rows EXCEPT ![handler[h].event] = NewRow(handler[h].parent)]
    BY <1>7 DEF H!Insert, H!NewRow, NewRow, H!AbsentRow, AbsentRow, H!NoTransaction, NoTransaction
  <2>3. \A e \in Events :
          rows'[e] = IF e = handler[h].event THEN NewRow(handler[h].parent) ELSE rows[e]
    BY <2>1, <2>2
  <2>4. Stored(NewRow(handler[h].parent)) /\ NewRow(handler[h].parent).parent = handler[h].parent
    BY DEF NewRow, AbsentRow, Stored
  <2>5. Received' = [Received EXCEPT ![handler[h].event] = NewRow(handler[h].parent)]
    BY <2>1, <2>3, <2>4 DEF Received
  <2> QED
    BY <1>7, <2>5 DEF H!Insert, I!Insert, I!NewRow, NewRow, I!AbsentRow, AbsentRow,
      I!NoTransaction, NoTransaction
<1>8. H!Put(h) => I!Put(h)
  BY <1>a, <1>b, <1>d, <1>7
  DEF
    H!Put, I!Put, H!Works, I!Works, H!Goes, I!Goes, H!Fault, I!Fault, H!Fails, I!Fails,
    H!run, I!run
<1> QED
  BY <1>1, <1>2, <1>3, <1>4, <1>5, <1>6, <1>8 DEF H!Serve, I!Serve

\* Run and the process.
LEMMA RunIsSame ==
  /\ H!Select \/ H!TimerFires \/ H!Spawn => I!Select \/ I!TimerFires \/ I!Spawn
  /\ H!Stop => I!Stop
  /\ H!Crash => I!Crash
  /\ H!Restart /\ UNCHANGED rows => I!Restart
<1>a. UNCHANGED rows => UNCHANGED Received
  BY ReceivedKept
<1>1. H!Woken => I!Woken
  BY <1>a
  DEF
    H!Woken, I!Woken, H!intake, I!intake
<1>2. H!TimedOut => I!TimedOut
  BY <1>a
  DEF
    H!TimedOut, I!TimedOut, H!intake, I!intake
<1>3. H!TimerFires => I!TimerFires
  BY <1>a
  DEF
    H!TimerFires, I!TimerFires, H!intake, I!intake
<1>4. H!Spawn => I!Spawn
  BY <1>a
  DEF
    H!Spawn, I!Spawn, H!intake, I!intake
<1>5. H!Stop => I!Stop
  BY <1>a
  DEF
    H!Stop, I!Stop, H!Working, I!Working, H!Fault, I!Fault, H!intake, I!intake
<1>6. H!Crash => I!Crash
  BY <1>a
  DEF
    H!Crash, I!Crash, H!Fault, I!Fault, H!Idle, I!Idle
<1>7. H!Restart => I!Restart
  BY <1>a
  DEF
    H!Restart, I!Restart, H!Working, I!Working, H!Idle, I!Idle
<1> QED
  BY <1>1, <1>2, <1>3, <1>4, <1>5, <1>6, <1>7 DEF H!Select, I!Select

LEMMA ScanIsSame ==
  /\ H!CallsClaimBatch => I!CallsClaimBatch
  /\ H!Scan => I!Scan
<1>1. {e \in Events : H!Stored(rows[e])} = {e \in Events : I!Stored(Received[e])}
  BY ReceivedStored DEF Stored, H!Stored
<1>2. H!CallsClaimBatch => I!CallsClaimBatch
  BY <1>1 DEF H!CallsClaimBatch, I!CallsClaimBatch
<1> QED
  BY <1>2, ReceivedKept DEF H!Scan, I!Scan, H!Fault, I!Fault

\* Nothing that only the workers do shows.
LEMMA WorkIsUnseen == ASSUME Tracking, Work PROVE UNCHANGED Received
BY ReceivedByWorkers DEF Tracking, Received

LEMMA IntakeStep ==
  ASSUME Tracking, [Next]_vars
  PROVE  [I!Next]_I!vars
<1>1. UNCHANGED vars \/ (UNCHANGED intake /\ Work) => UNCHANGED I!vars
  BY ReceivedKept, WorkIsUnseen DEF vars, intake, I!vars, I!intake, I!run
<1>2. ASSUME UNCHANGED workers,
             \/ \E h \in Handlers : H!Serve(h) \/ H!Expire(h)
             \/ \E e \in Events : H!Happen(e) \/ H!Deliver(e)
             \/ H!Select \/ H!TimerFires \/ H!Spawn
      PROVE  I!Next
  BY <1>2, StripeIsSame, DeliveriesAreSame, RunIsSame DEF I!Next
<1>3. H!Scan => I!Next
  BY ScanIsSame DEF I!Next
<1>4. ASSUME H!CallsClaimBatch, W!ClaimBatch(Home), UNCHANGED mishaps PROVE I!Next
  <2>1. UNCHANGED Received
    BY <1>4, WorkIsUnseen, BridgeAssumption DEF Work
  <2> QED
    BY <1>4, <2>1, ScanIsSame DEF I!Scan, I!Next
<1>5. H!Stop \/ H!Crash => I!Next
  BY RunIsSame DEF I!Next
<1>6. H!Restart /\ W!Restart(Home) => I!Next
  BY RunIsSame DEF W!Restart, I!Next
<1> QED
  BY <1>1, <1>2, <1>3, <1>4, <1>5, <1>6, StepParts

\* Whatever workers, claims, NAV and the clock do, deliveries and Run behave as
\* Webhook says: what is proved there holds of the bridge.
THEOREM IntakeUndisturbed == Spec => ImplementsIntake
<1>1. Init => I!Init
  BY DEF Init, W!Init, H!Init, I!Init, Received, W!AbsentRow, H!AbsentRow, I!AbsentRow, AbsentRow, Stored,
    H!Idle, I!Idle, H!NoTransaction, I!NoTransaction, NoTransaction
<1>2. Tracking /\ [Next]_vars => [I!Next]_I!vars
  BY IntakeStep
<1> QED
  BY <1>1, <1>2, AlwaysTracking, PTL DEF Spec, ImplementsIntake, I!Spec
-----------------------------------------------------------------------------
(* What the workers promise, in the bridge.                                *)

LEMMA WorkersSpecIsSame == Spec => P!Spec
<1>1. W!Init => P!Init
  BY InitIsSame
<1>2. [W!Next]_W!vars => [P!Next]_P!vars
  BY WorkersNextIsSame
<1> QED
  BY <1>1, <1>2, WorkersUnaware, PTL DEF ImplementsWorker, W!Spec, P!Spec

\* In the whole bridge, rows say what happened at NAV, NAV hears of a reversal
\* only once what it reverses is accepted, and nothing is aborted but behind a
\* parent that failed, whatever fails on either side (parentReady,
\* overallStatus).
THEOREM RowsTellTheTruth ==
  Spec => [](/\ W!InFlightCarriesTransaction /\ W!AcceptedMeansFinished
             /\ W!StornoAfterParent /\ W!AbortedMeansParentFailed)
<1>1. P!InFlightCarriesTransaction => W!InFlightCarriesTransaction
  BY DEF P!InFlightCarriesTransaction, W!InFlightCarriesTransaction, P!Abroad, W!Abroad,
    P!InFlight, W!InFlight
<1>2. P!AcceptedMeansFinished => W!AcceptedMeansFinished
  BY DEF P!AcceptedMeansFinished, W!AcceptedMeansFinished
<1>3. P!StornoAfterParent => W!StornoAfterParent
  BY DEF P!StornoAfterParent, W!StornoAfterParent, P!Abroad, W!Abroad
<1>4. P!AbortedMeansParentFailed => W!AbortedMeansParentFailed
  BY DEF P!AbortedMeansParentFailed, W!AbortedMeansParentFailed
<1>5. Spec => []P!InFlightCarriesTransaction
  BY P!Traceable, WorkersSpecIsSame, ConstantsSuit, PTL
<1>6. Spec => []P!AcceptedMeansFinished
  BY P!AcceptanceIsReal, WorkersSpecIsSame, ConstantsSuit, PTL
<1>7. Spec => []P!StornoAfterParent
  BY P!ParentsFirst, WorkersSpecIsSame, ConstantsSuit, PTL
<1>8. Spec => []P!AbortedMeansParentFailed
  BY P!AbortsAreJustified, WorkersSpecIsSame, ConstantsSuit, PTL
<1> QED
  BY <1>1, <1>2, <1>3, <1>4, <1>5, <1>6, <1>7, <1>8, PTL

\* In the whole bridge, no row is given another transaction or another outcome,
\* whatever fails on either side (Transition).
THEOREM NothingIsRevised == Spec => W!TransactionWriteOnce /\ W!TerminalIsFinal
<1> DEFINE OneTransaction == \A e \in Events : rows[e].txn # W!NoTransaction => rows'[e].txn = rows[e].txn
           OneOutcome == \A e \in Events : W!IsTerminal(rows[e].status) => rows'[e].status = rows[e].status
<1>1. [\A e \in Events : rows[e].txn # P!NoTransaction => rows'[e].txn = rows[e].txn]_P!vars
        => [OneTransaction]_W!vars
  BY DEF P!NoTransaction, W!NoTransaction, P!vars, W!vars
<1>2. [\A e \in Events : P!IsTerminal(rows[e].status) => rows'[e].status = rows[e].status]_P!vars
        => [OneOutcome]_W!vars
  BY DEF P!IsTerminal, W!IsTerminal, P!Terminal, W!Terminal, P!vars, W!vars
<1>3. Spec => P!TransactionWriteOnce
  BY P!TransactionsStay, WorkersSpecIsSame, ConstantsSuit, PTL
<1>4. Spec => P!TerminalIsFinal
  BY P!OutcomesStand, WorkersSpecIsSame, ConstantsSuit, PTL
<1> QED
  BY <1>1, <1>2, <1>3, <1>4, PTL DEF P!TransactionWriteOnce, W!TransactionWriteOnce, P!TerminalIsFinal,
    W!TerminalIsFinal

\* In the whole bridge, while leases are renewed in time, no two goroutines work
\* on a row, and NAV hears of an event once and once more at most for each
\* failure (ClaimBatch, RenewClaim, ReleaseClaim).
THEOREM OneWorkerAtATime ==
  ASSUME "late_renewal" \notin Faults
  PROVE  Spec => [](W!OneLifecyclePerRow /\ W!RenewalHoldsClaim /\ W!NoDuplicateSubmission)
<1>1. P!OneLifecyclePerRow => W!OneLifecyclePerRow
  BY DEF P!OneLifecyclePerRow, W!OneLifecyclePerRow, P!Lifecycles, W!Lifecycles, P!RowOf, W!RowOf,
    P!Owner, W!Owner, P!Holds, W!Holds
<1>2. P!RenewalHoldsClaim => W!RenewalHoldsClaim
  BY DEF P!RenewalHoldsClaim, W!RenewalHoldsClaim, P!Lifecycles, W!Lifecycles, P!RowOf, W!RowOf,
    P!Owner, W!Owner, P!Holds, W!Holds
<1>3. P!NoDuplicateSubmission => W!NoDuplicateSubmission
  <2>1. \A S : P!Cardinality(S) = W!Cardinality(S)
    BY DEF P!Cardinality, W!Cardinality
  <2> QED
    BY <2>1 DEF P!NoDuplicateSubmission, W!NoDuplicateSubmission, P!Abroad, W!Abroad
<1>4. P!Timely
  BY DEF P!Timely
<1>5. Spec => []P!OneLifecyclePerRow
  BY <1>4, P!ClaimsExclude, WorkersSpecIsSame, ConstantsSuit, PTL
<1>6. Spec => []P!RenewalHoldsClaim
  BY <1>4, P!RenewalsMeetNoRelease, WorkersSpecIsSame, ConstantsSuit, PTL
<1>7. Spec => []P!NoDuplicateSubmission
  BY <1>4, P!DuplicatesCostFailures, WorkersSpecIsSame, ConstantsSuit, PTL
<1> QED
  BY <1>1, <1>2, <1>3, <1>5, <1>6, <1>7, PTL

\* While leases are renewed in time, the whole bridge does to rows and to NAV
\* what Reporting allows: each submission follows one transaction of its own to
\* the outcome NAV gave it.
THEOREM BridgeReports ==
  ASSUME "late_renewal" \notin Faults
  PROVE  Spec => W!ImplementsReporting
<1>1. P!Timely
  BY DEF P!Timely
<1>2. Spec => P!R!Spec
  BY <1>1, P!WorkersReport, WorkersSpecIsSame, ConstantsSuit, PTL DEF P!ImplementsReporting
<1>3. P!R!Init => W!R!Init
  BY DEF P!R!Init, W!R!Init, P!R!NoTransaction, W!R!NoTransaction
<1>4. [P!R!Next]_P!R!vars => [W!R!Next]_W!R!vars
  <2>1. ASSUME NEW e
        PROVE  /\ P!R!Receive(e) => W!R!Receive(e)
               /\ P!R!Register(e) => W!R!Register(e)
               /\ P!R!Adopt(e) => W!R!Adopt(e)
               /\ P!R!Wait(e) => W!R!Wait(e)
               /\ P!R!Accept(e) => W!R!Accept(e)
               /\ P!R!Reject(e) => W!R!Reject(e)
               /\ P!R!Abort(e) => W!R!Abort(e)
    BY DEF P!R!Receive, W!R!Receive, P!R!Register, W!R!Register, P!R!Accepted, W!R!Accepted,
      P!R!Adopt, W!R!Adopt, P!R!Wait, W!R!Wait, P!R!InFlight, W!R!InFlight, P!R!Accept, W!R!Accept,
      P!R!Reject, W!R!Reject, P!R!Pending, W!R!Pending, P!R!Abort, W!R!Abort, P!R!Failed, W!R!Failed
  <2>2. P!R!Decide => W!R!Decide
    BY DEF P!R!Decide, W!R!Decide
  <2>3. P!R!vars = W!R!vars
    BY DEF P!R!vars, W!R!vars
  <2> QED
    BY <2>1, <2>2, <2>3, Zenon DEF P!R!Next, W!R!Next, P!R!vars, W!R!vars
<1> QED
  BY <1>2, <1>3, <1>4, PTL DEF P!R!Spec, W!R!Spec, W!ImplementsReporting
-----------------------------------------------------------------------------
(* What the intake promises, in the bridge.                                *)

\* Webhook with its theorems.  I, of Bridge, is the same specification without.
J == INSTANCE WebhookProofs WITH Faults <- Mishaps, MaxFaults <- MaxMishaps, faults <- mishaps,
                                 rows <- Received

LEMMA IntakeStepsAreSame ==
  /\ \A e : I!Happen(e) \/ I!Deliver(e) => J!Happen(e) \/ J!Deliver(e)
  /\ \A h : I!Serve(h) \/ I!Expire(h) => J!Serve(h) \/ J!Expire(h)
  /\ I!Select \/ I!TimerFires \/ I!Scan \/ I!Spawn \/ I!Stop \/ I!Crash \/ I!Restart =>
       J!Select \/ J!TimerFires \/ J!Scan \/ J!Spawn \/ J!Stop \/ J!Crash \/ J!Restart
<1>1. ASSUME NEW e
      PROVE  I!Happen(e) \/ I!Deliver(e) => J!Happen(e) \/ J!Deliver(e)
  BY DEF I!Happen, J!Happen, I!run, J!run, I!Deliver, J!Deliver, I!Due, J!Due, I!AckedAt, J!AckedAt,
    I!Fault, J!Fault, I!Idle, J!Idle, I!Kind, J!Kind
<1>2. ASSUME NEW h
      PROVE  I!Serve(h) \/ I!Expire(h) => J!Serve(h) \/ J!Expire(h)
  <2>1. I!Dedup(h) => J!Dedup(h)
    BY DEF I!Dedup, J!Dedup, I!Works, J!Works, I!Goes, J!Goes, I!Proceed, J!Proceed, I!Fails, J!Fails,
      I!run, J!run, I!Kind, J!Kind, I!Fault, J!Fault, I!Stored, J!Stored
  <2>2. I!FindParent(h) => J!FindParent(h)
    BY DEF I!FindParent, J!FindParent, I!Works, J!Works, I!ParentRate, J!ParentRate, I!Fails, J!Fails,
      I!run, J!run, I!Fault, J!Fault, I!Stored, J!Stored
  <2>3. I!Map(h) => J!Map(h)
    BY DEF I!Map, J!Map, I!Kind, J!Kind, I!Goes, J!Goes, I!Fails, J!Fails, I!run, J!run, I!Fault, J!Fault
  <2>4. I!Put(h) => J!Put(h)
    BY DEF I!Put, J!Put, I!Works, J!Works, I!Goes, J!Goes, I!Fault, J!Fault, I!Fails, J!Fails, I!run,
      J!run, I!Stored, J!Stored, I!Insert, J!Insert, I!NewRow, J!NewRow, I!AbsentRow, J!AbsentRow,
      I!NoTransaction, J!NoTransaction
  <2>5. I!Wakeup(h) => J!Wakeup(h)
    BY DEF I!Wakeup, J!Wakeup, I!Goes, J!Goes
  <2>6. I!Answer(h) => J!Answer(h)
    BY DEF I!Answer, J!Answer, I!Acked, J!Acked, I!Fault, J!Fault, I!Idle, J!Idle, I!run, J!run
  <2>7. I!Expire(h) => J!Expire(h)
    BY DEF I!Expire, J!Expire, I!Fault, J!Fault, I!run, J!run
  <2> QED
    BY <2>1, <2>2, <2>3, <2>4, <2>5, <2>6, <2>7, Zenon DEF I!Serve, J!Serve
<1>3. I!Select \/ I!TimerFires \/ I!Spawn => J!Select \/ J!TimerFires \/ J!Spawn
  BY DEF I!Select, J!Select, I!Woken, J!Woken, I!TimedOut, J!TimedOut, I!TimerFires, J!TimerFires,
    I!Spawn, J!Spawn, I!intake, J!intake
<1>4. I!Scan => J!Scan
  BY DEF I!Scan, J!Scan, I!CallsClaimBatch, J!CallsClaimBatch, I!Stored, J!Stored, I!Fault, J!Fault
<1>5. I!Stop \/ I!Crash \/ I!Restart => J!Stop \/ J!Crash \/ J!Restart
  BY DEF I!Stop, J!Stop, I!Crash, J!Crash, I!Restart, J!Restart, I!Working, J!Working, I!Fault, J!Fault,
    I!Idle, J!Idle, I!intake, J!intake
<1> QED
  BY <1>1, <1>2, <1>3, <1>4, <1>5

LEMMA IntakeSpecIsSame == Spec => J!Spec
<1>1. I!Init => J!Init
  BY DEF I!Init, J!Init, I!AbsentRow, J!AbsentRow, I!NoTransaction, J!NoTransaction, I!Idle, J!Idle
<1>2. [I!Next]_I!vars => [J!Next]_J!vars
  <2>1. I!vars = J!vars
    BY DEF I!vars, J!vars, I!intake, J!intake, I!run, J!run
  <2>2. I!Next => J!Next
    BY IntakeStepsAreSame, Zenon DEF I!Next, J!Next
  <2> QED
    BY <2>1, <2>2, Zenon DEF I!vars, J!vars, I!intake, J!intake, I!run, J!run
<1> QED
  BY <1>1, <1>2, IntakeUndisturbed, PTL DEF ImplementsIntake, I!Spec, J!Spec

LEMMA IntakeConstantsSuit == J!StoreAssumption /\ J!WebhookAssumption
BY StoreAssumption, BridgeAssumption DEF J!StoreAssumption, H!WebhookAssumption, J!WebhookAssumption,
  H!EventKinds, J!EventKinds, H!FaultKinds, J!FaultKinds

\* A row that is not there has no parent.
Unborn == \A e \in Events : ~Stored(rows[e]) => rows[e].parent = NoEvent

LEMMA UnbornStep ==
  ASSUME Tracking, Unborn, [Next]_vars
  PROVE  Unborn'
<1> SUFFICES ASSUME NEW e \in Events, ~Stored(rows'[e]) PROVE rows'[e].parent = NoEvent
  BY DEF Unborn
<1>1. ~Stored(rows[e]) /\ rows[e].parent = NoEvent
  BY RowsStay DEF Unborn
<1>2. ASSUME NEW h \in Handlers, H!Serve(h) PROVE rows'[e].parent = NoEvent
  <2>1. rows \in [Events -> Row]
    BY DEF Tracking, P!TypeOK, P!Row, Row, P!Moments, Moments, P!Statuses, Statuses, P!Pending, Pending,
      P!InFlight, InFlight, P!Terminal, Terminal
  <2>2. \A parent : Stored(NewRow(parent))
    BY DEF Stored, NewRow, AbsentRow
  <2> QED
    BY <1>1, <1>2, <2>1, <2>2, IntakeKeepsRows
<1>3. Work => rows'[e].parent = NoEvent
  BY <1>1, ReceivedByWorkers DEF Tracking
<1>4. ASSUME \/ \E h \in Handlers : H!Expire(h)
             \/ \E f \in Events : H!Happen(f) \/ H!Deliver(f)
             \/ H!Select \/ H!TimerFires \/ H!Spawn \/ H!Scan \/ H!Crash
             \/ UNCHANGED vars
      PROVE  rows'[e].parent = NoEvent
  BY <1>1, <1>4 DEF vars, H!Expire, H!Happen, H!Deliver, H!Select, H!Woken, H!TimedOut,
    H!TimerFires, H!Spawn, H!Scan, H!Crash, H!intake
<1>5. Home \in Workers
  BY BridgeAssumption
<1> QED
  BY <1>2, <1>3, <1>4, <1>5, StepParts DEF Work

LEMMA AlwaysUnborn == Spec => []Unborn
<1>1. Init => Unborn
  BY DEF Init, W!Init, W!AbsentRow, Unborn
<1>2. Tracking /\ Unborn /\ [Next]_vars => Unborn'
  BY UnbornStep
<1> QED
  BY <1>1, <1>2, AlwaysTracking, PTL DEF Spec

\* In the whole bridge, with any number of workers at the rows, Stripe hears 200
\* only for what is stored or hopeless, a storno that waits for its original is
\* stored at its rate, and no wakeup is lost while the loop runs (ServeHTTP,
\* processInvoice, Wakeup).
THEOREM IntakeKeepsItsWord ==
  Spec => [](H!AckedIsSettled /\ H!StornoAtOriginalRate /\ H!NoLostWakeup)
<1>1. J!AckedIsSettled => H!AckedIsSettled
  <2>1. \A e \in Events : J!Stored(Received[e]) <=> H!Stored(rows[e])
    BY DEF Received, J!Stored, H!Stored, Stored, NewRow, AbsentRow
  <2> QED
    BY <2>1 DEF J!AckedIsSettled, H!AckedIsSettled, J!AckedAt, H!AckedAt, J!Hopeless, H!Hopeless,
      J!Kind, H!Kind
<1>2. Unborn /\ J!StornoAtOriginalRate => H!StornoAtOriginalRate
  <2>1. ASSUME Unborn, NEW e \in Events, rows[e].parent # NoEvent
        PROVE  Received[e].parent = rows[e].parent
    BY <2>1 DEF Unborn, Received, Stored, NewRow, AbsentRow
  <2> QED
    BY <2>1 DEF J!StornoAtOriginalRate, H!StornoAtOriginalRate, J!Kind, H!Kind
<1>3. J!NoLostWakeup => H!NoLostWakeup
  BY DEF J!NoLostWakeup, H!NoLostWakeup, J!Working, H!Working
<1>4. Spec => []J!AckedIsSettled
  BY J!NothingAckedIsLost, IntakeSpecIsSame, IntakeConstantsSuit, PTL
<1>5. Spec => []J!StornoAtOriginalRate
  BY J!ReversedAtOriginalRate, IntakeSpecIsSame, IntakeConstantsSuit, PTL
<1>6. Spec => []J!NoLostWakeup
  BY J!WakeupsAreHeard, IntakeSpecIsSame, IntakeConstantsSuit, PTL
<1> QED
  BY <1>1, <1>2, <1>3, <1>4, <1>5, <1>6, AlwaysUnborn, PTL

\* In the whole bridge, what is stored stays stored, with the parent and at the
\* rate it was stored with, whatever workers and later deliveries do (Put,
\* UpdateStatus).
THEOREM StoredForGood ==
  Spec => [][\A e \in Events : Stored(rows[e]) => /\ Stored(rows'[e])
                                                  /\ rows'[e].parent = rows[e].parent
                                                  /\ payload'[e] = payload[e]]_vars
<1>1. [\A e \in Events : J!Stored(Received[e]) =>
         Received'[e] = Received[e] /\ payload'[e] = payload[e]]_J!vars
      => [\A e \in Events : Stored(rows[e]) => /\ Stored(rows'[e])
                                               /\ rows'[e].parent = rows[e].parent
                                               /\ payload'[e] = payload[e]]_vars
  <2>1. \A e \in Events : J!Stored(Received[e]) <=> Stored(rows[e])
    BY DEF Received, J!Stored, Stored, NewRow, AbsentRow
  <2>2. ASSUME NEW e \in Events, Stored(rows[e]), Received'[e] = Received[e]
        PROVE  Stored(rows'[e]) /\ rows'[e].parent = rows[e].parent
    BY <2>2 DEF Received, Stored, NewRow, AbsentRow
  <2>3. UNCHANGED J!vars => Received' = Received /\ payload' = payload
    BY DEF J!vars, J!intake
  <2> QED
    BY <2>1, <2>2, <2>3
<1>2. Spec => J!FirstPutStays
  BY J!FirstRowStands, IntakeSpecIsSame, IntakeConstantsSuit, PTL
<1> QED
  BY <1>1, <1>2, PTL DEF J!FirstPutStays
=============================================================================
