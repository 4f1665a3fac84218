---------------------------- MODULE WorkerProofs ----------------------------
(***************************************************************************)
(* Theorems about Worker for any number of events, workers and faults that *)
(* hold whatever fails, leases that run out under a working goroutine      *)
(* included: the types, and that what rows record is what happened at NAV. *)
(***************************************************************************)
EXTENDS WorkerProperties, TLAPS

-----------------------------------------------------------------------------
(* What the operations of the store return.                                *)

\* A transition leads to a status, and from one.
LEMMA TransitionsAreStatuses ==
  ASSUME NEW status, NEW to, CanTransition(status, to)
  PROVE  status \in Pending \cup InFlight /\ to \in Statuses
BY DEF CanTransition, ValidTransitions, Statuses, Pending, InFlight, Terminal

LEMMA TransitionedType ==
  ASSUME NEW row \in Row, NEW changed \in Row, NEW to
  PROVE  Transitioned(row, changed, to) \in Row
BY TransitionsAreStatuses DEF Transitioned, Row

\* What a mutator of the worker makes of a row is a row.
LEMMA MutatedType ==
  ASSUME NEW row \in Row, NEW res, NEW txn \in Nat, NEW delay \in Delays
  PROVE  Mutated(row, res, txn, delay) \in Row
<1> DEFINE later(m) == [row EXCEPT !.next = m]
<1> DEFINE named == [row EXCEPT !.txn = txn, !.next = "soon"]
<1>1. delay \in Moments /\ "soon" \in Moments
  BY WorkerAssumption DEF Moments
<1>2. later(delay) \in Row /\ later("soon") \in Row /\ named \in Row
  BY <1>1 DEF Row
<1>3. \A changed \in Row : \A to : Transitioned(row, changed, to) \in Row
  BY TransitionedType
<1> HIDE DEF later, named
<1>4. CASE res = "submitted"
  BY <1>2, <1>3, <1>4 DEF Mutated, named
<1>5. CASE res = "processing"
  BY <1>2, <1>3, <1>5 DEF Mutated, later
<1>6. CASE res = "retry"
  BY <1>2, <1>3, <1>6 DEF Mutated, later
<1>7. CASE res \in {"pollretry", "defer"}
  BY <1>2, <1>7 DEF Mutated, later
<1>8. CASE res \notin {"submitted", "processing", "retry", "pollretry", "defer"}
  BY <1>3, <1>8 DEF Mutated
<1> QED
  BY <1>4, <1>5, <1>6, <1>7, <1>8

LEMMA ClaimTypes ==
  ASSUME NEW row \in Row, NEW w \in Workers
  PROVE  /\ Claimed(row, w) \in Row
         /\ Renewed(row, w) \in Row
         /\ Released(row, w) \in Row
BY DEF Claimed, Renewed, Released, Holds, Row

LEMMA NewRowType == \A parent \in Events \cup {NoEvent} : NewRow(parent) \in Row
BY DEF NewRow, AbsentRow, Row, NoTransaction, Moments, Statuses, Pending
-----------------------------------------------------------------------------
(* Types.                                                                  *)

LEMMA LifecycleParts ==
  \A l \in Lifecycles : Owner(l) \in Workers /\ RowOf(l) \in Events
BY DEF Lifecycles, Owner, RowOf

LEMMA IdleType == Idle \in Lifecycle
BY DEF Idle, Lifecycle, PCs, Results, NoTransaction

LEMMA ExitsType ==
  ASSUME TypeOK, NEW l \in Lifecycles, Exits(l)
  PROVE  lc' \in [Lifecycles -> Lifecycle]
<1>1. PICK renewing \in {FALSE, lc[l].live} :
        lc' = [lc EXCEPT ![l] = [Idle EXCEPT !.pc = "release", !.renewing = renewing]]
  BY DEF Exits
<1>2. renewing \in BOOLEAN
  BY DEF TypeOK, Lifecycle
<1> DEFINE state == [Idle EXCEPT !.pc = "release", !.renewing = renewing]
<1>3. state \in Lifecycle
  BY <1>2, IdleType DEF Lifecycle, PCs
<1> HIDE DEF state
<1>4. lc' = [lc EXCEPT ![l] = state]
  BY <1>1 DEF state
<1> QED
  BY <1>3, <1>4 DEF TypeOK

LEMMA RecordsType ==
  ASSUME TypeOK, NEW l \in Lifecycles, NEW res \in Results, NEW txn \in Nat,
         Records(l, res, txn)
  PROVE  lc' \in [Lifecycles -> Lifecycle]
BY DEF TypeOK, Records, Lifecycle, PCs

LEMMA DispatchedType ==
  ASSUME NEW state \in Lifecycle, NEW row \in Row
  PROVE  Dispatched(state, row) \in Lifecycle
BY DEF Dispatched, Lifecycle, Row, PCs, NoTransaction

LEMMA FaultType ==
  ASSUME TypeOK, NEW kind, Fault(kind)
  PROVE  faults' \in 0..MaxFaults
BY WorkerAssumption DEF TypeOK, Fault

\* A scan claims rows that are claimable and starts each one's lifecycle in a
\* place that was idle.
LEMMA ClaimBatchEffect ==
  ASSUME NEW w \in Workers, ClaimBatch(w)
  PROVE  \E batch \in SUBSET Events : \E gen \in [batch -> Gens] :
           /\ \A e \in batch : Claimable(rows[e], w) /\ lc[<<w, e, gen[e]>>] = Idle
           /\ rows' = [e \in Events |->
                         IF e \in batch THEN Claimed(rows[e], w) ELSE rows[e]]
           /\ lc' = [l \in Lifecycles |->
                       IF Owner(l) = w /\ RowOf(l) \in batch /\ l[3] = gen[RowOf(l)]
                       THEN Dispatched([Idle EXCEPT !.live = TRUE], rows[RowOf(l)])
                       ELSE lc[l]]
<1>1. PICK batch \in Batches(rows, w) \ {{}} :
        \E gen \in [batch -> Gens] :
          /\ \A e \in batch : gen[e] \in FreeGens(w, e)
          /\ rows' = [e \in Events |->
                        IF e \in batch THEN Claimed(rows[e], w) ELSE rows[e]]
          /\ lc' = [l \in Lifecycles |->
                      IF Owner(l) = w /\ RowOf(l) \in batch /\ l[3] = gen[RowOf(l)]
                      THEN Dispatched([Idle EXCEPT !.live = TRUE], rows[RowOf(l)])
                      ELSE lc[l]]
  BY DEF ClaimBatch
<1>2. batch \in SUBSET Events /\ \A e \in batch : Claimable(rows[e], w)
  BY DEF Batches
<1> QED
  BY <1>1, <1>2 DEF FreeGens

LEMMA TypeInit == Init => TypeOK
<1> SUFFICES ASSUME Init PROVE TypeOK
  OBVIOUS
<1>1. AbsentRow \in Row
  BY DEF AbsentRow, Row, NoTransaction, Moments
<1>2. faults \in 0..MaxFaults
  BY WorkerAssumption DEF Init
<1>3. nav \in Seq(Transaction)
  BY DEF Init
<1> QED
  BY <1>1, <1>2, <1>3, IdleType DEF Init, TypeOK

\* Every step of a lifecycle keeps the types.
LEMMA TypeStepOfLifecycle ==
  ASSUME TypeOK, NEW l \in Lifecycles, Step(l) \/ Renew(l) \/ EndRenew(l)
  PROVE  TypeOK'
<1> DEFINE e == RowOf(l)
<1>1. /\ e \in Events /\ Owner(l) \in Workers
      /\ rows[e] \in Row /\ lc[l] \in Lifecycle
      /\ rows \in [Events -> Row] /\ lc \in [Lifecycles -> Lifecycle]
      /\ up \in [Workers -> BOOLEAN] /\ nav \in Seq(Transaction) /\ faults \in 0..MaxFaults
  BY LifecycleParts DEF TypeOK
<1>2. lc[l].txn \in Nat /\ lc[l].live \in BOOLEAN /\ NoTransaction \in Nat
  BY <1>1 DEF Lifecycle, NoTransaction
<1>3. \A kind : Fault(kind) => faults' \in 0..MaxFaults
  BY FaultType
<1>4. \A res \in Results, txn \in Nat : Records(l, res, txn) => lc' \in [Lifecycles -> Lifecycle]
  BY RecordsType
<1>5. Exits(l) => lc' \in [Lifecycles -> Lifecycle]
  BY ExitsType
<1>6. {"rejected", "retry", "submitted", "aborted", "defer", "pollretry",
       "accepted", "processing"} \subseteq Results
  BY DEF Results
<1> HIDE DEF e
<1>7. CASE ParentReady(l)
  <2>1. lc' \in [Lifecycles -> Lifecycle]
    <3>1. CASE lc' = [lc EXCEPT ![l].pc = "submit"]
      BY <1>1, <3>1 DEF Lifecycle, PCs
    <3>2. CASE Records(l, ParentVerdict(rows[RowOf(l)].parent), NoTransaction)
                 /\ ParentVerdict(rows[RowOf(l)].parent) # "ready"
      BY <1>2, <1>4, <1>6, <3>2 DEF ParentVerdict
    <3>3. CASE Records(l, "defer", NoTransaction)
      BY <1>2, <1>4, <1>6, <3>3
    <3> QED
      BY <1>7, <3>1, <3>2, <3>3 DEF ParentReady
  <2>2. faults' \in 0..MaxFaults /\ UNCHANGED <<rows, up, nav>>
    BY <1>1, <1>3, <1>7 DEF ParentReady
  <2> QED
    BY <1>1, <2>1, <2>2 DEF TypeOK
<1>8. CASE Submit(l)
  <2>1. lc' \in [Lifecycles -> Lifecycle] /\ nav' \in Seq(Transaction)
    <3>1. CASE /\ nav' = Append(nav, [event |-> RowOf(l), verdict |-> "RECEIVED"])
               /\ lc' = [lc EXCEPT ![l].pc = "reply", ![l].txn = Len(nav) + 1]
      <4>1. [event |-> RowOf(l), verdict |-> "RECEIVED"] \in Transaction
        BY LifecycleParts DEF Transaction, Verdicts
      <4>2. Len(nav) + 1 \in Nat
        BY <1>1
      <4>3. lc' \in [Lifecycles -> Lifecycle]
        BY <1>1, <3>1, <4>2 DEF Lifecycle, PCs
      <4> QED
        BY <1>1, <3>1, <4>1, <4>3
    <3>2. CASE Records(l, "rejected", NoTransaction) /\ UNCHANGED nav
      BY <1>1, <1>2, <1>4, <1>6, <3>2
    <3>3. CASE Records(l, "retry", NoTransaction) /\ UNCHANGED nav
      BY <1>1, <1>2, <1>4, <1>6, <3>3
    <3> QED
      BY <1>8, <3>1, <3>2, <3>3 DEF Submit
  <2>2. faults' \in 0..MaxFaults /\ UNCHANGED <<rows, up>>
    BY <1>1, <1>3, <1>8 DEF Submit
  <2> QED
    BY <1>1, <2>1, <2>2 DEF TypeOK
<1>9. CASE Reply(l)
  <2>1. lc' \in [Lifecycles -> Lifecycle]
    BY <1>2, <1>4, <1>6, <1>9 DEF Reply
  <2>2. faults' \in 0..MaxFaults /\ UNCHANGED <<rows, up, nav>>
    BY <1>1, <1>3, <1>9 DEF Reply
  <2> QED
    BY <1>1, <2>1, <2>2 DEF TypeOK
<1>10. CASE Poll(l)
  <2>1. \A t : PollVerdict(t) \in Results
    BY <1>6 DEF PollVerdict
  <2>2. lc' \in [Lifecycles -> Lifecycle]
    BY <1>2, <1>4, <1>6, <1>10, <2>1 DEF Poll
  <2>3. faults' \in 0..MaxFaults /\ UNCHANGED <<rows, up, nav>>
    BY <1>1, <1>3, <1>10 DEF Poll
  <2> QED
    BY <1>1, <2>2, <2>3 DEF TypeOK
<1>11. CASE UpdateStatus(l)
  <2>1. rows' \in [Events -> Row]
    <3>1. CASE UNCHANGED rows
      BY <1>1, <3>1
    <3>2. CASE \E delay \in Delays :
                 rows' = [rows EXCEPT ![RowOf(l)] = Mutated(@, lc[l].res, lc[l].txn, delay)]
      BY <1>1, <1>2, <3>2, MutatedType DEF e
    <3> QED
      BY <1>11, <3>1, <3>2 DEF UpdateStatus
  <2>2. lc' \in [Lifecycles -> Lifecycle]
    <3>1. CASE lc' = [lc EXCEPT ![l] = [@ EXCEPT !.pc = "get", !.res = "none",
                                                 !.txn = NoTransaction]]
      BY <1>1, <1>2, <3>1 DEF Lifecycle, PCs, Results
    <3> QED
      BY <1>5, <1>11, <3>1 DEF UpdateStatus
  <2>3. faults' \in 0..MaxFaults /\ UNCHANGED <<up, nav>>
    BY <1>1, <1>3, <1>11 DEF UpdateStatus
  <2> QED
    BY <1>1, <2>1, <2>2, <2>3 DEF TypeOK
<1>12. CASE Get(l)
  <2>1. lc' \in [Lifecycles -> Lifecycle]
    <3>1. CASE lc' = [lc EXCEPT ![l] = Dispatched(@, rows[RowOf(l)])]
      BY <1>1, <3>1, DispatchedType DEF e
    <3> QED
      BY <1>5, <1>12, <3>1 DEF Get
  <2>2. faults' \in 0..MaxFaults /\ UNCHANGED <<rows, up, nav>>
    BY <1>1, <1>3, <1>12 DEF Get
  <2> QED
    BY <1>1, <2>1, <2>2 DEF TypeOK
<1>13. CASE Abandon(l)
  BY <1>1, <1>5, <1>13 DEF Abandon, TypeOK
<1>14. CASE Release(l)
  <2>1. rows' \in [Events -> Row]
    BY <1>1, <1>14, ClaimTypes DEF Release, e
  <2>2. lc' \in [Lifecycles -> Lifecycle]
    <3> DEFINE state == [Idle EXCEPT !.renewing = lc[l].renewing]
    <3>1. state \in Lifecycle
      BY <1>1, IdleType DEF Lifecycle
    <3> HIDE DEF state
    <3>2. lc' = [lc EXCEPT ![l] = state]
      BY <1>14 DEF Release, state
    <3> QED
      BY <1>1, <3>1, <3>2
  <2>3. faults' \in 0..MaxFaults /\ UNCHANGED <<up, nav>>
    BY <1>1, <1>3, <1>14 DEF Release
  <2> QED
    BY <1>1, <2>1, <2>2, <2>3 DEF TypeOK
<1>15. CASE Renew(l)
  <2>1. rows' \in [Events -> Row]
    <3>1. Renewed(rows[RowOf(l)], Owner(l)) \in Row
      BY <1>1, ClaimTypes DEF e
    <3> QED
      BY <1>1, <1>15, <3>1 DEF Renew
  <2>2. lc' \in [Lifecycles -> Lifecycle]
    <3>1. PICK live \in BOOLEAN : lc' = [lc EXCEPT ![l].live = live]
      BY <1>15 DEF Renew, Holds
    <3>2. [lc[l] EXCEPT !.live = live] \in Lifecycle
      BY <1>1 DEF Lifecycle
    <3> QED
      BY <1>1, <3>1, <3>2
  <2>3. faults' \in 0..MaxFaults /\ UNCHANGED <<up, nav>>
    BY <1>1, <1>3, <1>15 DEF Renew
  <2> QED
    BY <1>1, <2>1, <2>2, <2>3 DEF TypeOK
<1>16. CASE EndRenew(l)
  <2>1. rows' \in [Events -> Row]
    <3>1. Renewed(rows[RowOf(l)], Owner(l)) \in Row
      BY <1>1, ClaimTypes DEF e
    <3> QED
      BY <1>1, <1>16, <3>1 DEF EndRenew
  <2>2. lc' \in [Lifecycles -> Lifecycle]
    <3>1. [lc[l] EXCEPT !.renewing = FALSE] \in Lifecycle
      BY <1>1 DEF Lifecycle
    <3> QED
      BY <1>1, <1>16, <3>1 DEF EndRenew
  <2> QED
    BY <1>1, <1>16, <2>1, <2>2 DEF EndRenew, TypeOK
<1> QED
  BY <1>7, <1>8, <1>9, <1>10, <1>11, <1>12, <1>13, <1>14, <1>15, <1>16 DEF Step

\* Every other step keeps the types.
LEMMA TypeStep == TypeOK /\ [Next]_vars => TypeOK'
<1> SUFFICES ASSUME TypeOK, [Next]_vars PROVE TypeOK'
  OBVIOUS
<1>1. /\ rows \in [Events -> Row] /\ lc \in [Lifecycles -> Lifecycle]
      /\ up \in [Workers -> BOOLEAN] /\ nav \in Seq(Transaction) /\ faults \in 0..MaxFaults
  BY DEF TypeOK
<1>2. \A kind : Fault(kind) => faults' \in 0..MaxFaults
  BY FaultType
<1>3. CASE NavDecide
  <2>1. PICK t \in DOMAIN nav, verdict \in {"FINISHED", "ABORTED"} :
          nav' = [nav EXCEPT ![t].verdict = verdict]
    BY <1>3 DEF NavDecide
  <2>2. [nav[t] EXCEPT !.verdict = verdict] \in Transaction
    <3>1. nav[t] \in Transaction
      BY <1>1
    <3> QED
      BY <3>1 DEF Transaction, Verdicts
  <2>3. nav' \in Seq(Transaction)
    BY <1>1, <2>1, <2>2
  <2> QED
    BY <1>1, <1>3, <2>3 DEF NavDecide, TypeOK
<1>4. ASSUME NEW e \in Events, Put(e) PROVE TypeOK'
  <2>1. PICK parent \in {NoEvent} \cup {Original[e]} :
          rows' = [rows EXCEPT ![e] = NewRow(parent)]
    BY <1>4 DEF Put
  <2>2. NewRow(parent) \in Row
    BY <2>1, NewRowType, WorkerAssumption
  <2>3. rows' \in [Events -> Row]
    BY <1>1, <2>1, <2>2
  <2> QED
    BY <1>1, <1>4, <2>3 DEF Put, TypeOK
<1>5. ASSUME NEW e \in Events, TimePasses(e) PROVE TypeOK'
  <2>1. \A m \in Moments : [rows[e] EXCEPT !.next = m] \in Row
    BY <1>1 DEF Row
  <2>2. rows' \in [Events -> Row]
    BY <1>1, <1>5, <2>1 DEF TimePasses, Moments
  <2> QED
    BY <1>1, <1>5, <2>2 DEF TimePasses, TypeOK
<1>6. ASSUME NEW e \in Events, LeaseLapse(e) \/ LateRenewal(e) PROVE TypeOK'
  <2>1. [rows[e] EXCEPT !.lease = "expired"] \in Row
    BY <1>1 DEF Row
  <2>2. rows' \in [Events -> Row] /\ UNCHANGED <<lc, up, nav>>
    BY <1>1, <1>6, <2>1 DEF LeaseLapse, LateRenewal, Lapses
  <2>3. faults' \in 0..MaxFaults
    BY <1>1, <1>2, <1>6 DEF LeaseLapse, LateRenewal
  <2> QED
    BY <1>1, <2>2, <2>3 DEF TypeOK
<1>7. ASSUME NEW w \in Workers, ClaimBatch(w) PROVE TypeOK'
  <2>1. PICK batch \in SUBSET Events : \E gen \in [batch -> Gens] :
          /\ \A e \in batch : Claimable(rows[e], w) /\ lc[<<w, e, gen[e]>>] = Idle
          /\ rows' = [e \in Events |->
                        IF e \in batch THEN Claimed(rows[e], w) ELSE rows[e]]
          /\ lc' = [l \in Lifecycles |->
                      IF Owner(l) = w /\ RowOf(l) \in batch /\ l[3] = gen[RowOf(l)]
                      THEN Dispatched([Idle EXCEPT !.live = TRUE], rows[RowOf(l)])
                      ELSE lc[l]]
    BY <1>7, ClaimBatchEffect
  <2>2. rows' \in [Events -> Row]
    BY <1>1, <2>1, ClaimTypes
  <2>3. [Idle EXCEPT !.live = TRUE] \in Lifecycle
    BY IdleType DEF Lifecycle
  <2>4. \A l \in Lifecycles :
          Dispatched([Idle EXCEPT !.live = TRUE], rows[RowOf(l)]) \in Lifecycle
    BY <1>1, <2>3, DispatchedType, LifecycleParts
  <2>5. PICK gen \in [batch -> Gens] :
          lc' = [l \in Lifecycles |->
                  IF Owner(l) = w /\ RowOf(l) \in batch /\ l[3] = gen[RowOf(l)]
                  THEN Dispatched([Idle EXCEPT !.live = TRUE], rows[RowOf(l)])
                  ELSE lc[l]]
    BY <2>1
  <2>6. lc' \in [Lifecycles -> Lifecycle]
    BY <1>1, <2>4, <2>5
  <2> QED
    BY <1>1, <1>7, <2>2, <2>6 DEF ClaimBatch, TypeOK
<1>8. ASSUME NEW w \in Workers, Crash(w) PROVE TypeOK'
  BY <1>1, <1>2, <1>8, IdleType DEF Crash, TypeOK
<1>9. ASSUME NEW w \in Workers, Stop(w) PROVE TypeOK'
  <2>1. \A l \in Lifecycles : [lc[l] EXCEPT !.live = FALSE] \in Lifecycle
    BY <1>1 DEF Lifecycle
  <2>2. lc' \in [Lifecycles -> Lifecycle]
    BY <1>1, <1>9, <2>1 DEF Stop
  <2> QED
    BY <1>1, <1>2, <1>9, <2>2 DEF Stop, TypeOK
<1>10. ASSUME NEW w \in Workers, Restart(w) PROVE TypeOK'
  BY <1>1, <1>10 DEF Restart, TypeOK
<1>11. ASSUME NEW l \in Lifecycles, Step(l) \/ Renew(l) \/ EndRenew(l) PROVE TypeOK'
  BY <1>11, TypeStepOfLifecycle
<1>12. CASE UNCHANGED vars
  BY <1>1, <1>12 DEF vars, TypeOK
<1> QED
  BY <1>3, <1>4, <1>5, <1>6, <1>7, <1>8, <1>9, <1>10, <1>11, <1>12 DEF Next

\* The variables keep their types, through every step and every fault.
THEOREM TypeCorrect == Spec => []TypeOK
BY TypeInit, TypeStep, PTL DEF Spec
-----------------------------------------------------------------------------
(* What one step can do to a row, to NAV's transactions and to a lifecycle. *)

\* A mutator moves the status along validTransitions, and no other: it names a
\* transaction only as it takes a row from pending to submitted.
LEMMA MutatedEffect ==
  ASSUME NEW row \in Row, NEW res, NEW txn \in Nat, NEW delay \in Delays,
         NEW new, new = Mutated(row, res, txn, delay)
  PROVE  /\ new.parent = row.parent
         /\ new.claimedBy = row.claimedBy /\ new.lease = row.lease
         /\ \/ new.status = row.status /\ new.txn = row.txn
            \/ /\ res = "submitted" /\ row.status = "pending"
               /\ new.status = "submitted" /\ new.txn = txn
            \/ /\ res \in {"processing", "accepted", "rejected", "aborted"}
               /\ row.status \in InFlight
               /\ new.status = res /\ new.txn = row.txn
            \/ /\ res \in {"rejected", "aborted"}
               /\ row.status = "pending"
               /\ new.status = res /\ new.txn = row.txn
<1>1. CASE res = "submitted"
  BY <1>1 DEF Mutated, Transitioned, CanTransition, ValidTransitions, Row, InFlight
<1>2. CASE res = "processing"
  BY <1>2 DEF Mutated, Transitioned, CanTransition, ValidTransitions, Row, InFlight
<1>3. CASE res = "retry"
  BY <1>3 DEF Mutated, Transitioned, CanTransition, ValidTransitions, Row, InFlight
<1>4. CASE res \in {"pollretry", "defer"}
  BY <1>4 DEF Mutated, Row
<1>5. CASE res \notin {"submitted", "processing", "retry", "pollretry", "defer"}
  <2>1. new = Transitioned(row, row, res)
    BY <1>5 DEF Mutated
  <2> QED
    BY <1>5, <2>1 DEF Transitioned, CanTransition, ValidTransitions, Row, InFlight
<1> QED
  BY <1>1, <1>2, <1>3, <1>4, <1>5

\* Status, parent and transaction of a row are as before.
Kept(e) ==
  /\ rows'[e].status = rows[e].status
  /\ rows'[e].parent = rows[e].parent
  /\ rows'[e].txn = rows[e].txn

\* UpdateStatus of a lifecycle went through.
Written(l) ==
  /\ At(l, "update")
  /\ \E delay \in Delays :
       rows' = [rows EXCEPT ![RowOf(l)] = Mutated(@, lc[l].res, lc[l].txn, delay)]

LEMMA ClaimsKeep ==
  ASSUME NEW row \in Row, NEW w \in Workers,
         NEW new \in {Claimed(row, w), Renewed(row, w), Released(row, w)}
  PROVE  new.status = row.status /\ new.parent = row.parent /\ new.txn = row.txn
BY DEF Claimed, Renewed, Released, Row

\* Whatever happens to rows that are there already: every step but Put.
Work ==
  \/ NavDecide
  \/ \E e \in Events : TimePasses(e) \/ LeaseLapse(e) \/ LateRenewal(e)
  \/ \E w \in Workers : ClaimBatch(w) \/ Crash(w) \/ Stop(w) \/ Restart(w)
  \/ \E l \in Lifecycles : Step(l) \/ Renew(l) \/ EndRenew(l)

\* Of those only UpdateStatus does anything to a row but claim it and time it.
LEMMA WorkHistory ==
  ASSUME TypeOK, Work, NEW e \in Events
  PROVE  Kept(e) \/ \E l \in Lifecycles : RowOf(l) = e /\ Written(l)
<1>1. /\ \A f \in Events : rows[f] \in Row
      /\ \A l \in Lifecycles : Owner(l) \in Workers /\ RowOf(l) \in Events
      /\ rows = [f \in Events |-> rows[f]]
  BY LifecycleParts DEF TypeOK
<1>2. CASE UNCHANGED rows
  BY <1>2 DEF Kept
<1>3. ASSUME NEW f \in Events, TimePasses(f) \/ LeaseLapse(f) \/ LateRenewal(f) PROVE Kept(e)
  BY <1>1, <1>3 DEF TimePasses, LeaseLapse, LateRenewal, Lapses, Kept, Row
<1>4. ASSUME NEW w \in Workers, ClaimBatch(w) PROVE Kept(e)
  <2>1. rows'[e] \in {rows[e], Claimed(rows[e], w)}
    BY <1>4, ClaimBatchEffect
  <2> QED
    BY <1>1, <2>1, ClaimsKeep DEF Kept
<1>5. ASSUME NEW l \in Lifecycles, Release(l) \/ Renew(l) \/ EndRenew(l) PROVE Kept(e)
  <2>1. rows'[e] \in {rows[e], Renewed(rows[e], Owner(l)), Released(rows[e], Owner(l))}
    BY <1>1, <1>5 DEF Release, Renew, EndRenew
  <2> QED
    BY <1>1, <2>1, ClaimsKeep DEF Kept
<1>6. ASSUME NEW l \in Lifecycles, UpdateStatus(l)
      PROVE  Kept(e) \/ (RowOf(l) = e /\ Written(l))
  <2>1. CASE UNCHANGED rows
    BY <2>1 DEF Kept
  <2>2. CASE Written(l) /\ RowOf(l) # e
    BY <1>1, <2>2 DEF Written, Kept
  <2> QED
    BY <1>6, <2>1, <2>2 DEF UpdateStatus, Written
<1> QED
  BY <1>2, <1>3, <1>4, <1>5, <1>6
  DEF Work, Step, NavDecide, Crash, Stop, Restart, ParentReady, Submit, Reply, Poll, Get, Abandon

\* Only Put and UpdateStatus do anything to a row but claim it and time it.
LEMMA RowHistory ==
  ASSUME TypeOK, [Next]_vars, NEW e \in Events
  PROVE  Put(e) \/ Kept(e) \/ \E l \in Lifecycles : RowOf(l) = e /\ Written(l)
<1>1. CASE UNCHANGED vars
  BY <1>1 DEF vars, Kept
<1>2. ASSUME NEW f \in Events, Put(f) PROVE Put(e) \/ Kept(e)
  BY <1>2 DEF Put, Kept, TypeOK
<1> QED
  BY <1>1, <1>2, WorkHistory DEF Next, Work

\* Work neither adds a row nor gives one another parent.
LEMMA WorkAddsNothing ==
  ASSUME TypeOK, Work, NEW e \in Events
  PROVE  Stored(rows'[e]) = Stored(rows[e]) /\ rows'[e].parent = rows[e].parent
<1>1. ASSUME NEW l \in Lifecycles, RowOf(l) = e, Written(l)
      PROVE  (Stored(rows'[e]) <=> Stored(rows[e])) /\ rows'[e].parent = rows[e].parent
  <2>1. rows[e] \in Row /\ rows \in [Events -> Row] /\ lc[l].txn \in Nat
    BY DEF TypeOK, Lifecycle
  <2>2. PICK delay \in Delays : rows'[e] = Mutated(rows[e], lc[l].res, lc[l].txn, delay)
    BY <1>1, <2>1 DEF Written
  <2> QED
    BY <2>1, <2>2, MutatedEffect DEF Stored, InFlight
<1> QED
  BY <1>1, WorkHistory DEF Kept, Stored

\* NAV's transactions are only added, by Submit, and decided once.
LEMMA NavHistory ==
  ASSUME TypeOK, [Next]_vars
  PROVE  /\ \A t \in DOMAIN nav :
              /\ t \in DOMAIN nav'
              /\ nav'[t].event = nav[t].event
              /\ nav[t].verdict # "RECEIVED" => nav'[t].verdict = nav[t].verdict
         /\ \A t \in DOMAIN nav' \ DOMAIN nav :
              \E l \in Lifecycles : At(l, "submit") /\ RowOf(l) = nav'[t].event
                                    /\ lc'[l].pc = "reply" /\ lc'[l].txn = t
                                    /\ UNCHANGED rows
<1>1. nav \in Seq(Transaction) /\ lc \in [Lifecycles -> Lifecycle]
  BY DEF TypeOK
<1>2. CASE UNCHANGED nav
  BY <1>2
<1>3. CASE NavDecide
  <2>1. PICK t \in DOMAIN nav, verdict \in {"FINISHED", "ABORTED"} :
          nav[t].verdict = "RECEIVED" /\ nav' = [nav EXCEPT ![t].verdict = verdict]
    BY <1>3 DEF NavDecide
  <2>2. DOMAIN nav' = DOMAIN nav
    BY <2>1
  <2>3. \A u \in DOMAIN nav : nav[u] \in Transaction
    BY <1>1
  <2>4. \A u \in DOMAIN nav : /\ nav'[u].event = nav[u].event
                             /\ u # t => nav'[u] = nav[u]
    BY <2>1, <2>3 DEF Transaction
  <2> QED
    BY <2>1, <2>2, <2>4
<1>4. ASSUME NEW l \in Lifecycles, Submit(l), ~UNCHANGED nav
      PROVE  /\ nav' = Append(nav, [event |-> RowOf(l), verdict |-> "RECEIVED"])
             /\ At(l, "submit") /\ UNCHANGED rows
             /\ lc'[l].pc = "reply" /\ lc'[l].txn = Len(nav) + 1
  <2>1. /\ nav' = Append(nav, [event |-> RowOf(l), verdict |-> "RECEIVED"])
        /\ lc' = [lc EXCEPT ![l].pc = "reply", ![l].txn = Len(nav) + 1]
        /\ At(l, "submit") /\ UNCHANGED rows
    BY <1>4 DEF Submit
  <2>2. lc[l] \in Lifecycle
    BY <1>1
  <2> QED
    BY <1>1, <2>1, <2>2 DEF Lifecycle
<1>5. ASSUME NEW l \in Lifecycles, Submit(l), ~UNCHANGED nav
      PROVE  /\ \A t \in DOMAIN nav : t \in DOMAIN nav' /\ nav'[t] = nav[t]
             /\ \A t \in DOMAIN nav' \ DOMAIN nav :
                  t = Len(nav) + 1 /\ nav'[t].event = RowOf(l)
  <2> DEFINE new == [event |-> RowOf(l), verdict |-> "RECEIVED"]
  <2>1. new \in Transaction /\ new.event = RowOf(l)
    BY LifecycleParts DEF Transaction, Verdicts
  <2>2. nav' = Append(nav, new)
    BY <1>4, <1>5
  <2> HIDE DEF new
  <2>3. DOMAIN nav = 1..Len(nav) /\ DOMAIN nav' = 1..(Len(nav) + 1)
    BY <1>1, <2>1, <2>2
  <2>4. nav'[Len(nav) + 1] = new /\ \A t \in 1..Len(nav) : nav'[t] = nav[t]
    BY <1>1, <2>1, <2>2
  <2>5. Len(nav) \in Nat
    BY <1>1
  <2> QED
    BY <2>1, <2>3, <2>4, <2>5
<1>6. CASE \E l \in Lifecycles : Submit(l) /\ ~UNCHANGED nav
  BY <1>4, <1>5, <1>6
<1> QED
  BY <1>2, <1>3, <1>6
  DEF Next, Step, Put, TimePasses, LeaseLapse, LateRenewal, Lapses, ClaimBatch, Crash, Stop,
      Restart, ParentReady, Reply, Poll, UpdateStatus, Get, Abandon, Release, Renew,
      EndRenew, vars

\* The lifecycle has in hand what it had, and no new renewal outlives it.
SameHand(l) ==
  /\ lc'[l].pc = lc[l].pc /\ lc'[l].res = lc[l].res /\ lc'[l].txn = lc[l].txn
  /\ lc'[l].renewing => lc[l].renewing

\* ClaimBatch started this lifecycle on the row it claimed.
Started(l) ==
  /\ lc[l] = Idle
  /\ ClaimBatch(Owner(l))
  /\ Claimable(rows[RowOf(l)], Owner(l))
  /\ lc'[l] = Dispatched([Idle EXCEPT !.live = TRUE], rows[RowOf(l)])
  /\ rows' [RowOf(l)] = Claimed(rows[RowOf(l)], Owner(l))

\* A lifecycle changes hands with nobody: it takes its own steps, is started
\* by a scan of its worker, or dies.
LEMMA HandHistory ==
  ASSUME TypeOK, [Next]_vars, NEW l \in Lifecycles
  PROVE  Step(l) \/ SameHand(l) \/ Started(l) \/ lc'[l] = Idle
<1>1. lc \in [Lifecycles -> Lifecycle] /\ rows \in [Events -> Row]
  BY DEF TypeOK
<1>2. CASE UNCHANGED lc
  BY <1>2 DEF SameHand
<1>3. ASSUME NEW w \in Workers, ClaimBatch(w) PROVE SameHand(l) \/ Started(l)
  <2>1. PICK batch \in SUBSET Events : \E gen \in [batch -> Gens] :
          /\ \A e \in batch : Claimable(rows[e], w) /\ lc[<<w, e, gen[e]>>] = Idle
          /\ rows' = [e \in Events |->
                       IF e \in batch THEN Claimed(rows[e], w) ELSE rows[e]]
          /\ lc' = [m \in Lifecycles |->
                     IF Owner(m) = w /\ RowOf(m) \in batch /\ m[3] = gen[RowOf(m)]
                     THEN Dispatched([Idle EXCEPT !.live = TRUE], rows[RowOf(m)])
                     ELSE lc[m]]
    BY <1>3, ClaimBatchEffect
  <2>2. PICK gen \in [batch -> Gens] :
          /\ \A e \in batch : Claimable(rows[e], w) /\ lc[<<w, e, gen[e]>>] = Idle
          /\ rows' = [e \in Events |->
                       IF e \in batch THEN Claimed(rows[e], w) ELSE rows[e]]
          /\ lc' = [m \in Lifecycles |->
                     IF Owner(m) = w /\ RowOf(m) \in batch /\ m[3] = gen[RowOf(m)]
                     THEN Dispatched([Idle EXCEPT !.live = TRUE], rows[RowOf(m)])
                     ELSE lc[m]]
    BY <2>1
  <2>3. CASE Owner(l) = w /\ RowOf(l) \in batch /\ l[3] = gen[RowOf(l)]
    <3>1. l = <<w, RowOf(l), gen[RowOf(l)]>>
      BY <2>3 DEF Lifecycles, Owner, RowOf
    <3>2. lc[l] = Idle /\ Claimable(rows[RowOf(l)], w)
      BY <2>2, <2>3, <3>1
    <3>3. rows'[RowOf(l)] = Claimed(rows[RowOf(l)], w)
      BY <2>2, <2>3
    <3>4. lc'[l] = Dispatched([Idle EXCEPT !.live = TRUE], rows[RowOf(l)])
      BY <2>2, <2>3
    <3> QED
      BY <1>3, <2>3, <3>2, <3>3, <3>4 DEF Started
  <2>4. CASE ~(Owner(l) = w /\ RowOf(l) \in batch /\ l[3] = gen[RowOf(l)])
    BY <2>2, <2>4 DEF SameHand
  <2> QED
    BY <2>3, <2>4
<1>4. ASSUME NEW w \in Workers, Crash(w) \/ Stop(w) PROVE SameHand(l) \/ lc'[l] = Idle
  BY <1>1, <1>4 DEF Crash, Stop, SameHand, Lifecycle
<1>5. ASSUME NEW m \in Lifecycles, Step(m), m # l PROVE lc'[l] = lc[l]
  BY <1>1, <1>5 DEF Step, ParentReady, Submit, Reply, Poll, UpdateStatus, Get, Abandon, Release,
                    Records, Exits
<1>6. ASSUME NEW m \in Lifecycles, Renew(m) \/ EndRenew(m) PROVE SameHand(l)
  BY <1>1, <1>6 DEF Renew, EndRenew, SameHand, Lifecycle
<1> QED
  BY <1>2, <1>3, <1>4, <1>5, <1>6
  DEF Next, NavDecide, Put, TimePasses, LeaseLapse, LateRenewal, Lapses, Restart, vars, SameHand
-----------------------------------------------------------------------------
(* What rows record is true.                                               *)

Unsent == {"absent", "pending"}

ParentAccepted(e) == rows[e].parent # NoEvent => rows[rows[e].parent].status = "accepted"
ParentFailed(e) ==
  rows[e].parent # NoEvent /\ rows[rows[e].parent].status \in {"rejected", "aborted"}

\* What is known of a row: it names a transaction once NAV's answer is noted,
\* and what it says of NAV and of its parent is true.
RowTrue(e) ==
  /\ rows[e].status \in Unsent => rows[e].txn = NoTransaction
  /\ rows[e].status \in InFlight \cup {"accepted"} => rows[e].txn \in Abroad(e)
  /\ rows[e].status = "accepted" => nav[rows[e].txn].verdict = "FINISHED"
  /\ rows[e].status = "aborted" => ParentFailed(e)
  /\ Abroad(e) # {} => Stored(rows[e]) /\ ParentAccepted(e)

\* What a lifecycle has in hand is still true when it is used, though the row
\* may have moved on.
HandTrue(l) ==
  LET e == RowOf(l) IN
  /\ lc[l].pc # "idle" => Stored(rows[e])
  /\ lc[l].pc \in {"submit", "reply"} => ParentAccepted(e)
  /\ lc[l].pc = "reply" => lc[l].txn \in Abroad(e)
  /\ lc[l].pc = "poll" => /\ rows[e].status \notin Unsent
                          /\ lc[l].txn = rows[e].txn
                          /\ lc[l].txn \in DOMAIN nav
  /\ lc[l].pc = "update" /\ lc[l].res = "submitted" => lc[l].txn \in Abroad(e)
  /\ lc[l].pc = "update" /\ lc[l].res = "accepted" =>
       /\ rows[e].status \notin Unsent
       /\ lc[l].txn = rows[e].txn
       /\ lc[l].txn \in DOMAIN nav
       /\ nav[lc[l].txn].verdict = "FINISHED"
  /\ lc[l].pc = "update" /\ lc[l].res = "aborted" => ParentFailed(e)

Truthful == (\A e \in Events : RowTrue(e)) /\ (\A l \in Lifecycles : HandTrue(l))
-----------------------------------------------------------------------------
(* How rows and NAV move on.                                               *)

\* A stored row keeps its parent, a row that is past pending keeps its
\* transaction, and an outcome stands.
LEMMA RowsMoveOn ==
  ASSUME TypeOK, [Next]_vars, NEW e \in Events, Stored(rows[e])
  PROVE  /\ Stored(rows'[e])
         /\ rows'[e].parent = rows[e].parent
         /\ rows[e].status \notin Unsent => /\ rows'[e].txn = rows[e].txn
                                            /\ rows'[e].status \notin Unsent
         /\ IsTerminal(rows[e].status) => rows'[e].status = rows[e].status
<1>1. rows[e] \in Row /\ rows \in [Events -> Row]
  BY DEF TypeOK
<1>2. CASE Kept(e)
  BY <1>2 DEF Kept, Stored
<1>3. ASSUME NEW l \in Lifecycles, RowOf(l) = e, Written(l)
      PROVE  /\ Stored(rows'[e])
             /\ rows'[e].parent = rows[e].parent
             /\ rows[e].status \notin Unsent => /\ rows'[e].txn = rows[e].txn
                                                /\ rows'[e].status \notin Unsent
             /\ IsTerminal(rows[e].status) => rows'[e].status = rows[e].status
  <2>1. lc[l].txn \in Nat
    BY DEF TypeOK, Lifecycle
  <2>2. PICK delay \in Delays : rows'[e] = Mutated(rows[e], lc[l].res, lc[l].txn, delay)
    BY <1>1, <1>3 DEF Written
  <2> QED
    BY <1>1, <2>1, <2>2, MutatedEffect
    DEF Stored, Unsent, IsTerminal, Terminal, InFlight
<1>4. ~Put(e)
  BY DEF Put
<1> QED
  BY <1>2, <1>3, <1>4, RowHistory

\* NAV forgets no transaction, and its verdicts stand.
LEMMA NavMovesOn ==
  ASSUME TypeOK, [Next]_vars, NEW e \in Events
  PROVE  /\ \A t \in Abroad(e) : t \in Abroad(e)'
         /\ \A t \in DOMAIN nav : nav[t].verdict = "FINISHED" => nav'[t].verdict = "FINISHED"
  BY NavHistory DEF Abroad

LEMMA ParentMovesOn ==
  ASSUME TypeOK, [Next]_vars, NEW e \in Events, Stored(rows[e])
  PROVE  /\ ParentAccepted(e) => ParentAccepted(e)'
         /\ ParentFailed(e) => ParentFailed(e)'
<1>1. rows'[e].parent = rows[e].parent
  BY RowsMoveOn
<1>2. rows[e].parent \in Events \cup {NoEvent}
  BY DEF TypeOK, Row
<1>3. ASSUME rows[e].parent # NoEvent, IsTerminal(rows[rows[e].parent].status)
      PROVE  rows'[rows[e].parent].status = rows[rows[e].parent].status
  BY <1>2, <1>3, RowsMoveOn DEF Stored, IsTerminal, Terminal
<1> QED
  BY <1>1, <1>3 DEF ParentAccepted, ParentFailed, IsTerminal, Terminal
-----------------------------------------------------------------------------
(* The invariant.                                                          *)

LEMMA TruthfulInit == Init => Truthful
BY LifecycleParts
DEF Init, Truthful, RowTrue, HandTrue, Idle, AbsentRow, Unsent, InFlight, Abroad

\* What a row says stays true.
LEMMA RowTrueStep ==
  ASSUME TypeOK, Truthful, [Next]_vars, NEW e \in Events
  PROVE  RowTrue(e)'
<1>1. rows[e] \in Row /\ rows \in [Events -> Row] /\ RowTrue(e)
  BY DEF TypeOK, Truthful
<1>2. Abroad(e)' # {} => Stored(rows[e]) /\ ParentAccepted(e)
  <2>1. CASE Abroad(e) # {}
    BY <1>1, <2>1 DEF RowTrue
  <2>2. ASSUME Abroad(e) = {}, NEW t \in Abroad(e)'
        PROVE  Stored(rows[e]) /\ ParentAccepted(e)
    <3>1. t \in DOMAIN nav' \ DOMAIN nav /\ nav'[t].event = e
      BY <2>2, NavHistory DEF Abroad
    <3>2. PICK l \in Lifecycles : At(l, "submit") /\ RowOf(l) = e
      BY <3>1, NavHistory
    <3> QED
      BY <3>2 DEF Truthful, HandTrue, At
  <2> QED
    BY <2>1, <2>2
<1>3. Abroad(e)' # {} => Stored(rows'[e]) /\ ParentAccepted(e)'
  BY <1>2, RowsMoveOn, ParentMovesOn
<1>4. CASE Put(e)
  <2>1. PICK parent : rows' = [rows EXCEPT ![e] = NewRow(parent)]
    BY <1>4 DEF Put
  <2>2. rows'[e].status = "pending" /\ rows'[e].txn = NoTransaction
    BY <1>1, <2>1 DEF NewRow, AbsentRow
  <2> QED
    BY <1>3, <2>2 DEF RowTrue, Unsent, InFlight
<1>5. CASE Kept(e)
  <2>1. CASE ~Stored(rows[e])
    BY <1>1, <1>3, <1>5, <2>1 DEF Kept, Stored, RowTrue, Unsent, InFlight
  <2>2. CASE Stored(rows[e])
    <3>1. rows'[e].status \in InFlight \cup {"accepted"} => rows'[e].txn \in Abroad(e)'
      BY <1>1, <1>5, NavMovesOn DEF Kept, RowTrue
    <3>2. rows'[e].status = "accepted" => nav'[rows'[e].txn].verdict = "FINISHED"
      BY <1>1, <1>5, NavMovesOn DEF Kept, RowTrue, Abroad
    <3>3. rows'[e].status = "aborted" => ParentFailed(e)'
      BY <1>1, <1>5, <2>2, ParentMovesOn DEF Kept, RowTrue
    <3> QED
      BY <1>1, <1>3, <1>5, <3>1, <3>2, <3>3 DEF Kept, RowTrue
  <2> QED
    BY <2>1, <2>2
<1>6. ASSUME NEW l \in Lifecycles, RowOf(l) = e, Written(l)
      PROVE  RowTrue(e)'
  <2>1. lc[l].txn \in Nat /\ lc[l].pc = "update" /\ HandTrue(l)
    BY <1>6 DEF TypeOK, Lifecycle, Written, At, Truthful
  <2>2. PICK delay \in Delays : rows'[e] = Mutated(rows[e], lc[l].res, lc[l].txn, delay)
    BY <1>1, <1>6 DEF Written
  <2>3. Stored(rows[e]) /\ (lc[l].res = "aborted" => ParentFailed(e)')
    BY <1>6, <2>1, ParentMovesOn DEF HandTrue
  <2>4. CASE rows'[e].status = rows[e].status /\ rows'[e].txn = rows[e].txn
    <3>1. rows'[e].parent = rows[e].parent
      BY <1>1, <2>1, <2>2, MutatedEffect
    <3> QED
      BY <1>1, <1>3, <2>3, <2>4, NavMovesOn, ParentMovesOn DEF RowTrue, Abroad
  <2>5. CASE /\ lc[l].res = "submitted" /\ rows[e].status = "pending"
             /\ rows'[e].status = "submitted" /\ rows'[e].txn = lc[l].txn
    <3>1. rows'[e].txn \in Abroad(e)'
      BY <1>6, <2>1, <2>5, NavMovesOn DEF HandTrue
    <3> QED
      BY <1>3, <2>5, <3>1 DEF RowTrue, Unsent
  <2>6. CASE /\ lc[l].res \in {"processing", "accepted", "rejected", "aborted"}
             /\ rows[e].status \in InFlight
             /\ rows'[e].status = lc[l].res /\ rows'[e].txn = rows[e].txn
    <3>1. rows'[e].txn \in Abroad(e)'
      BY <1>1, <2>6, NavMovesOn DEF RowTrue
    <3>2. rows'[e].status = "accepted" => nav'[rows'[e].txn].verdict = "FINISHED"
      BY <1>1, <1>6, <2>1, <2>6, NavMovesOn DEF RowTrue, HandTrue, Abroad
    <3> QED
      BY <1>3, <2>3, <2>6, <3>1, <3>2 DEF RowTrue, Unsent
  <2>7. CASE /\ lc[l].res \in {"rejected", "aborted"}
             /\ rows[e].status = "pending"
             /\ rows'[e].status = lc[l].res /\ rows'[e].txn = rows[e].txn
    BY <1>3, <2>3, <2>7 DEF RowTrue, Unsent, InFlight
  <2> QED
    BY <1>1, <2>1, <2>2, <2>4, <2>5, <2>6, <2>7, MutatedEffect
<1> QED
  BY <1>4, <1>5, <1>6, RowHistory

\* What a lifecycle has in hand and does not act on stays true beneath it.
LEMMA HandStaysTrue ==
  ASSUME TypeOK, Truthful, [Next]_vars, NEW l \in Lifecycles, SameHand(l)
  PROVE  HandTrue(l)'
<1> DEFINE e == RowOf(l)
<1>1. e \in Events /\ HandTrue(l) /\ lc[l].txn \in Nat
  BY LifecycleParts DEF Truthful, TypeOK, Lifecycle
<1>2. CASE lc[l].pc = "idle"
  BY <1>2 DEF HandTrue, SameHand
<1>3. CASE lc[l].pc # "idle"
  <2>1. Stored(rows[e])
    BY <1>1, <1>3 DEF HandTrue
  <2>2. /\ Stored(rows'[e])
        /\ rows[e].status \notin Unsent => /\ rows'[e].txn = rows[e].txn
                                           /\ rows'[e].status \notin Unsent
    BY <1>1, <2>1, RowsMoveOn
  <2>3. /\ ParentAccepted(e) => ParentAccepted(e)'
        /\ ParentFailed(e) => ParentFailed(e)'
    BY <1>1, <2>1, ParentMovesOn
  <2>4. /\ \A t \in Abroad(e) : t \in Abroad(e)'
        /\ \A t \in DOMAIN nav :
             t \in DOMAIN nav' /\ (nav[t].verdict = "FINISHED" => nav'[t].verdict = "FINISHED")
    BY <1>1, NavMovesOn, NavHistory
  <2> QED
    BY <1>1, <2>2, <2>3, <2>4 DEF HandTrue, SameHand
<1> QED
  BY <1>2, <1>3

\* A lifecycle that goes on with another copy of its row goes on with the truth.
LEMMA DispatchedTrue ==
  ASSUME TypeOK, Truthful, NEW l \in Lifecycles, NEW state \in Lifecycle,
         Stored(rows[RowOf(l)]), ~IsTerminal(rows[RowOf(l)].status),
         lc'[l] = Dispatched(state, rows[RowOf(l)]),
         Kept(RowOf(l)), UNCHANGED nav
  PROVE  HandTrue(l)'
<1> DEFINE e == RowOf(l)
<1>1. e \in Events /\ RowTrue(e) /\ rows[e] \in Row
  BY LifecycleParts DEF Truthful, TypeOK
<1>2. CASE rows[e].status = "pending"
  <2>1. lc'[l].pc = "parent"
    BY <1>2 DEF Dispatched, Lifecycle
  <2> QED
    BY <2>1 DEF HandTrue, Kept, Stored
<1>3. CASE rows[e].status # "pending"
  <2>1. rows[e].status \in InFlight
    BY <1>1, <1>3 DEF Row, Statuses, Pending, IsTerminal, Stored
  <2>2. lc'[l].pc = "poll" /\ lc'[l].txn = rows[e].txn
    BY <1>3 DEF Dispatched, Lifecycle
  <2>3. rows[e].txn \in DOMAIN nav /\ rows[e].status \notin Unsent
    BY <1>1, <2>1 DEF RowTrue, Abroad, Unsent, InFlight
  <2> QED
    BY <2>1, <2>2, <2>3 DEF HandTrue, Kept, Stored
<1> QED
  BY <1>2, <1>3

LEMMA RecordedParts ==
  ASSUME TypeOK, NEW l \in Lifecycles, NEW res, NEW txn, Records(l, res, txn)
  PROVE  lc'[l].pc = "update" /\ lc'[l].res = res /\ lc'[l].txn = txn
BY DEF TypeOK, Records, Lifecycle

LEMMA ExitedParts ==
  ASSUME TypeOK, NEW l \in Lifecycles, Exits(l)
  PROVE  lc'[l].pc = "release"
BY DEF TypeOK, Exits, Idle

\* What a lifecycle takes in hand is true.
LEMMA HandTrueStep ==
  ASSUME TypeOK, Truthful, [Next]_vars, NEW l \in Lifecycles
  PROVE  HandTrue(l)'
<1> DEFINE e == RowOf(l)
<1>1. /\ e \in Events /\ HandTrue(l) /\ RowTrue(e)
      /\ rows[e] \in Row /\ lc[l] \in Lifecycle
  BY LifecycleParts DEF Truthful, TypeOK
<1>2. lc[l].pc # "idle" => Stored(rows[e]) /\ Stored(rows'[e])
  BY <1>1, RowsMoveOn DEF HandTrue
<1>3. ASSUME lc[l].pc # "idle", lc'[l].pc \in {"idle", "release", "get"}
      PROVE  HandTrue(l)'
  BY <1>2, <1>3 DEF HandTrue
<1>4. CASE SameHand(l)
  BY <1>4, HandStaysTrue
<1>5. CASE lc'[l] = Idle
  BY <1>5 DEF HandTrue, Idle
<1>6. CASE Started(l)
  <2>1. Kept(e) /\ UNCHANGED nav
    BY <1>1, <1>6, ClaimsKeep, LifecycleParts DEF Started, ClaimBatch, Kept
  <2>2. [Idle EXCEPT !.live = TRUE] \in Lifecycle
    BY IdleType DEF Lifecycle
  <2> QED
    BY <1>6, <2>1, <2>2, DispatchedTrue DEF Started, Claimable
<1>7. CASE ParentReady(l)
  <2>1. lc[l].pc = "parent" /\ UNCHANGED <<rows, nav>>
    BY <1>7 DEF ParentReady, At
  <2>2. CASE /\ ParentVerdict(rows[e].parent) = "ready"
             /\ lc' = [lc EXCEPT ![l].pc = "submit"]
    <3>1. ParentAccepted(e)
      BY <2>2 DEF ParentVerdict, ParentAccepted
    <3>2. lc'[l].pc = "submit"
      BY <2>2 DEF TypeOK, Lifecycle
    <3> QED
      BY <1>2, <2>1, <3>1, <3>2 DEF HandTrue, ParentAccepted
  <2>3. CASE /\ ParentVerdict(rows[e].parent) # "ready"
             /\ Records(l, ParentVerdict(rows[e].parent), NoTransaction)
    <3>1. lc'[l].pc = "update" /\ lc'[l].res = ParentVerdict(rows[e].parent)
      BY <2>3, RecordedParts
    <3>2. ParentVerdict(rows[e].parent) \in {"aborted", "defer"}
      BY <2>3 DEF ParentVerdict
    <3>3. ParentVerdict(rows[e].parent) = "aborted" => ParentFailed(e)
      BY DEF ParentVerdict, ParentFailed
    <3> QED
      BY <1>2, <2>1, <3>1, <3>2, <3>3 DEF HandTrue, ParentFailed
  <2>4. CASE Records(l, "defer", NoTransaction)
    BY <1>2, <2>1, <2>4, RecordedParts DEF HandTrue
  <2> QED
    BY <1>7, <2>2, <2>3, <2>4 DEF ParentReady
<1>8. CASE Submit(l)
  <2>1. lc[l].pc = "submit" /\ UNCHANGED rows
    BY <1>8 DEF Submit, At
  <2>2. CASE /\ nav' = Append(nav, [event |-> RowOf(l), verdict |-> "RECEIVED"])
             /\ lc' = [lc EXCEPT ![l].pc = "reply", ![l].txn = Len(nav) + 1]
    <3>1. lc'[l].pc = "reply" /\ lc'[l].txn = Len(nav) + 1
      BY <2>2 DEF TypeOK, Lifecycle
    <3>2. nav \in Seq(Transaction) /\ [event |-> e, verdict |-> "RECEIVED"] \in Transaction
      BY <1>1 DEF TypeOK, Transaction, Verdicts
    <3>3. Len(nav) + 1 \in DOMAIN nav' /\ nav'[Len(nav) + 1].event = e
      BY <2>2, <3>2
    <3>4. ParentAccepted(e)'
      BY <1>1, <2>1 DEF HandTrue, ParentAccepted
    <3> QED
      BY <1>2, <2>1, <3>1, <3>3, <3>4 DEF HandTrue, Abroad
  <2>3. CASE Records(l, "rejected", NoTransaction) \/ Records(l, "retry", NoTransaction)
    BY <1>2, <2>1, <2>3, RecordedParts DEF HandTrue
  <2> QED
    BY <1>8, <2>2, <2>3 DEF Submit
<1>9. CASE Reply(l)
  <2>1. lc[l].pc = "reply" /\ UNCHANGED <<rows, nav>>
    BY <1>9 DEF Reply, At
  <2>2. CASE Records(l, "submitted", lc[l].txn)
    <3>1. lc'[l].pc = "update" /\ lc'[l].res = "submitted" /\ lc'[l].txn = lc[l].txn
      BY <2>2, RecordedParts
    <3> QED
      BY <1>1, <1>2, <2>1, <3>1 DEF HandTrue, Abroad
  <2>3. CASE Records(l, "retry", NoTransaction)
    BY <1>2, <2>1, <2>3, RecordedParts DEF HandTrue
  <2> QED
    BY <1>9, <2>2, <2>3 DEF Reply
<1>10. CASE Poll(l)
  <2>1. lc[l].pc = "poll" /\ UNCHANGED <<rows, nav>>
    BY <1>10 DEF Poll, At
  <2>2. /\ rows[e].status \notin Unsent
        /\ lc[l].txn = rows[e].txn /\ lc[l].txn \in DOMAIN nav
    BY <1>1, <2>1 DEF HandTrue
  <2>3. PICK res \in {"rejected", "pollretry", PollVerdict(lc[l].txn)} : Records(l, res, lc[l].txn)
    BY <1>10 DEF Poll
  <2>4. lc'[l].pc = "update" /\ lc'[l].res = res /\ lc'[l].txn = lc[l].txn
    BY <2>3, RecordedParts
  <2>5. /\ res \notin {"submitted", "aborted"}
        /\ res = "accepted" => nav[lc[l].txn].verdict = "FINISHED"
    BY <2>3 DEF PollVerdict
  <2> QED
    BY <1>2, <2>1, <2>2, <2>4, <2>5 DEF HandTrue
<1>11. CASE UpdateStatus(l)
  <2>1. lc[l].pc = "update"
    BY <1>11 DEF UpdateStatus, At
  <2>2. lc'[l].pc \in {"release", "get"}
    <3>1. CASE lc' = [lc EXCEPT ![l] = [@ EXCEPT !.pc = "get", !.res = "none",
                                                 !.txn = NoTransaction]]
      BY <1>1, <3>1 DEF TypeOK, Lifecycle
    <3>2. CASE Exits(l)
      BY <3>2, ExitedParts
    <3> QED
      BY <1>11, <3>1, <3>2 DEF UpdateStatus
  <2> QED
    BY <1>3, <2>1, <2>2
<1>12. CASE Get(l)
  <2>1. lc[l].pc = "get" /\ UNCHANGED <<rows, nav>>
    BY <1>12 DEF Get, At
  <2>2. CASE Exits(l)
    BY <1>3, <2>1, <2>2, ExitedParts
  <2>3. CASE /\ ~IsTerminal(rows[e].status)
             /\ lc' = [lc EXCEPT ![l] = Dispatched(@, rows[e])]
    <3>1. lc'[l] = Dispatched(lc[l], rows[e])
      BY <2>3 DEF TypeOK
    <3> QED
      BY <1>1, <1>2, <2>1, <2>3, <3>1, DispatchedTrue DEF Kept
  <2> QED
    BY <1>12, <2>2, <2>3 DEF Get, Rests
<1>13. CASE Abandon(l)
  BY <1>3, <1>13, ExitedParts DEF Abandon
<1>14. CASE Release(l)
  <2>1. lc[l].pc = "release" /\ lc'[l].pc = "idle"
    BY <1>14 DEF Release, TypeOK, Idle
  <2> QED
    BY <1>3, <2>1
<1> QED
  BY <1>4, <1>5, <1>6, <1>7, <1>8, <1>9, <1>10, <1>11, <1>12, <1>13, <1>14, HandHistory DEF Step

LEMMA TruthfulStep == TypeOK /\ Truthful /\ [Next]_vars => Truthful'
<1> SUFFICES ASSUME TypeOK, Truthful, [Next]_vars PROVE Truthful'
  OBVIOUS
<1>1. \A e \in Events : RowTrue(e)'
  BY RowTrueStep
<1>2. \A l \in Lifecycles : HandTrue(l)'
  BY HandTrueStep
<1> QED
  BY <1>1, <1>2 DEF Truthful, Lifecycles
-----------------------------------------------------------------------------
(* The theorems.                                                           *)

THEOREM AlwaysTruthful == Spec => [](TypeOK /\ Truthful)
<1>1. Init => TypeOK /\ Truthful
  BY TypeInit, TruthfulInit
<1>2. TypeOK /\ Truthful /\ [Next]_vars => TypeOK' /\ Truthful'
  BY TypeStep, TruthfulStep
<1> QED
  BY <1>1, <1>2, PTL DEF Spec

\* A row that waits for NAV, or that NAV is said to have accepted, names a
\* transaction NAV registered for it.
THEOREM Traceable == Spec => []InFlightCarriesTransaction
<1>1. Truthful => InFlightCarriesTransaction
  BY DEF Truthful, RowTrue, InFlightCarriesTransaction
<1> QED
  BY <1>1, AlwaysTruthful, PTL

\* A row is accepted only if NAV finished its transaction.
THEOREM AcceptanceIsReal == Spec => []AcceptedMeansFinished
<1>1. Truthful => AcceptedMeansFinished
  BY DEF Truthful, RowTrue, AcceptedMeansFinished
<1> QED
  BY <1>1, AlwaysTruthful, PTL

\* NAV hears of a reversal only when its parent is accepted.
THEOREM ParentsFirst == Spec => []StornoAfterParent
<1>1. Truthful => StornoAfterParent
  BY DEF Truthful, RowTrue, ParentAccepted, StornoAfterParent
<1> QED
  BY <1>1, AlwaysTruthful, PTL

\* A submission is aborted only because its parent failed.
THEOREM AbortsAreJustified == Spec => []AbortedMeansParentFailed
<1>1. Truthful => AbortedMeansParentFailed
  BY DEF Truthful, RowTrue, ParentFailed, AbortedMeansParentFailed
<1> QED
  BY <1>1, AlwaysTruthful, PTL

\* The transaction a row names never changes.
THEOREM TransactionsStay == Spec => TransactionWriteOnce
<1>1. ASSUME TypeOK, Truthful, [Next]_vars,
             NEW e \in Events, rows[e].txn # NoTransaction
      PROVE  rows'[e].txn = rows[e].txn
  <2>1. rows[e].status \notin Unsent
    BY <1>1 DEF Truthful, RowTrue
  <2> QED
    BY <1>1, <2>1, RowsMoveOn DEF Stored, Unsent
<1>2. TypeOK /\ Truthful /\ [Next]_vars =>
        [\A e \in Events : rows[e].txn # NoTransaction => rows'[e].txn = rows[e].txn]_vars
  BY <1>1
<1> QED
  BY <1>2, AlwaysTruthful, PTL DEF Spec, TransactionWriteOnce

\* The outcome a row records stands.
THEOREM OutcomesStand == Spec => TerminalIsFinal
<1>1. ASSUME TypeOK, [Next]_vars, NEW e \in Events, IsTerminal(rows[e].status)
      PROVE  rows'[e].status = rows[e].status
  BY <1>1, RowsMoveOn DEF Stored, IsTerminal, Terminal
<1>2. TypeOK /\ [Next]_vars =>
        [\A e \in Events : IsTerminal(rows[e].status) => rows'[e].status = rows[e].status]_vars
  BY <1>1
<1> QED
  BY <1>2, TypeCorrect, PTL DEF Spec, TerminalIsFinal
=============================================================================
