------------------------- MODULE WorkerClaimProofs --------------------------
(***************************************************************************)
(* Claims exclude, the workers do what Reporting allows, and NAV hears of  *)
(* an event no more often than failures explain: proofs that hold while    *)
(* every lease is renewed in time, whatever else fails.  The assumption is *)
(* Timely; a lease that runs out under a working goroutine is the one fault*)
(* it rules out.                                                           *)
(***************************************************************************)
EXTENDS WorkerProofs, FiniteSetTheorems

Timely == "late_renewal" \notin Faults

Working(l) == lc[l].pc # "idle"

\* A lifecycle's row is claimed for it as long as it works, a renewal outlives
\* its context only until the release, and what it means to send is unsent.
Guarded(l) ==
  LET row == rows[RowOf(l)] IN
  /\ Working(l) => Holds(row, Owner(l)) /\ row.lease = "valid"
  /\ lc[l].renewing => lc[l].pc = "release"
  /\ lc[l].pc \in {"parent", "submit"} => row.status = "pending"

Alone == \A l, m \in Lifecycles : Working(l) /\ Working(m) /\ RowOf(l) = RowOf(m) => l = m

Exclusive == (\A l \in Lifecycles : Guarded(l)) /\ Alone
-----------------------------------------------------------------------------
(* Who works, and what becomes of claims.                                  *)

LEMMA WorkingHistory ==
  ASSUME TypeOK, [Next]_vars, NEW l \in Lifecycles, Working(l)'
  PROVE  Working(l) \/ Started(l)
<1>1. Step(l) => Working(l)
  BY DEF Step, ParentReady, Submit, Reply, Poll, UpdateStatus, Get, Abandon, Release, At, Working
<1>2. SameHand(l) => Working(l)
  BY DEF SameHand, Working
<1>3. lc'[l] # Idle
  BY DEF Working, Idle
<1> QED
  BY <1>1, <1>2, <1>3, HandHistory

\* One scan starts one lifecycle for a row.
LEMMA StartedAlone ==
  ASSUME TypeOK, NEW l \in Lifecycles, NEW m \in Lifecycles,
         Started(l), Started(m), RowOf(l) = RowOf(m), Working(l)', Working(m)'
  PROVE  l = m
<1> DEFINE w == Owner(l)
<1> DEFINE e == RowOf(l)
<1>1. w \in Workers /\ e \in Events /\ rows[e] \in Row
  BY LifecycleParts DEF TypeOK
<1>2. Owner(m) = w
  <2>1. Owner(m) \in Workers
    BY LifecycleParts
  <2>2. Claimed(rows[e], w).claimedBy = w /\ Claimed(rows[e], Owner(m)).claimedBy = Owner(m)
    BY <1>1, <2>1 DEF Claimed, Row
  <2>3. rows'[e] = Claimed(rows[e], w) /\ rows'[e] = Claimed(rows[e], Owner(m))
    BY DEF Started
  <2> QED
    BY <2>2, <2>3
<1>3. PICK batch \in SUBSET Events : \E gen \in [batch -> Gens] :
        /\ \A f \in batch : Claimable(rows[f], w) /\ lc[<<w, f, gen[f]>>] = Idle
        /\ rows' = [f \in Events |->
                     IF f \in batch THEN Claimed(rows[f], w) ELSE rows[f]]
        /\ lc' = [k \in Lifecycles |->
                   IF Owner(k) = w /\ RowOf(k) \in batch /\ k[3] = gen[RowOf(k)]
                   THEN Dispatched([Idle EXCEPT !.live = TRUE], rows[RowOf(k)])
                   ELSE lc[k]]
  BY <1>1, ClaimBatchEffect DEF Started
<1>4. PICK gen \in [batch -> Gens] :
        lc' = [k \in Lifecycles |->
                IF Owner(k) = w /\ RowOf(k) \in batch /\ k[3] = gen[RowOf(k)]
                THEN Dispatched([Idle EXCEPT !.live = TRUE], rows[RowOf(k)])
                ELSE lc[k]]
  BY <1>3
<1>5. l[3] = gen[e] /\ m[3] = gen[e]
  BY <1>4 DEF Started, Working, Idle
<1> QED
  BY <1>2, <1>5 DEF Lifecycles, Owner, RowOf

SameClaim(e) == rows'[e].claimedBy = rows[e].claimedBy /\ rows'[e].lease = rows[e].lease

\* What a step does to a claim.
LEMMA ClaimHistory ==
  ASSUME TypeOK, [Next]_vars, Timely, NEW e \in Events
  PROVE  \/ SameClaim(e)
         \/ rows'[e].claimedBy = rows[e].claimedBy /\ rows'[e].lease = "valid"
         \/ Put(e)
         \/ LeaseLapse(e)
         \/ \E w \in Workers : Claimable(rows[e], w)
         \/ \E l \in Lifecycles : Release(l) /\ RowOf(l) = e /\ Holds(rows[e], Owner(l))
<1>1. /\ \A f \in Events : rows[f] \in Row
      /\ \A l \in Lifecycles : Owner(l) \in Workers /\ RowOf(l) \in Events /\ lc[l].txn \in Nat
      /\ rows \in [Events -> Row]
  BY LifecycleParts DEF TypeOK, Lifecycle
<1>2. CASE UNCHANGED rows
  BY <1>2 DEF SameClaim
<1>3. ASSUME NEW f \in Events, Put(f) PROVE Put(e) \/ SameClaim(e)
  BY <1>1, <1>3 DEF Put, SameClaim
<1>4. ASSUME NEW f \in Events, TimePasses(f) PROVE SameClaim(e)
  BY <1>1, <1>4 DEF TimePasses, SameClaim, Row
<1>5. ASSUME NEW f \in Events, LeaseLapse(f) PROVE LeaseLapse(e) \/ SameClaim(e)
  BY <1>1, <1>5 DEF LeaseLapse, Lapses, SameClaim
<1>6. ASSUME NEW f \in Events PROVE ~LateRenewal(f)
  BY DEF LateRenewal, Fault, Timely
<1>7. ASSUME NEW w \in Workers, ClaimBatch(w)
      PROVE  SameClaim(e) \/ Claimable(rows[e], w)
  <2>1. PICK batch \in SUBSET Events :
          /\ \A f \in batch : Claimable(rows[f], w)
          /\ rows' = [f \in Events |->
                       IF f \in batch THEN Claimed(rows[f], w) ELSE rows[f]]
    <3>1. PICK batch \in SUBSET Events : \E gen \in [batch -> Gens] :
            /\ \A f \in batch : Claimable(rows[f], w) /\ lc[<<w, f, gen[f]>>] = Idle
            /\ rows' = [f \in Events |->
                         IF f \in batch THEN Claimed(rows[f], w) ELSE rows[f]]
            /\ lc' = [l \in Lifecycles |->
                       IF Owner(l) = w /\ RowOf(l) \in batch /\ l[3] = gen[RowOf(l)]
                       THEN Dispatched([Idle EXCEPT !.live = TRUE], rows[RowOf(l)])
                       ELSE lc[l]]
      BY <1>7, ClaimBatchEffect
    <3> QED
      BY <3>1
  <2>2. rows'[e] = IF e \in batch THEN Claimed(rows[e], w) ELSE rows[e]
    BY <2>1
  <2> QED
    BY <2>1, <2>2 DEF SameClaim
<1>8. ASSUME NEW l \in Lifecycles, Release(l)
      PROVE  SameClaim(e) \/ (Release(l) /\ RowOf(l) = e /\ Holds(rows[e], Owner(l)))
  BY <1>1, <1>8 DEF Release, Released, SameClaim
<1>9. ASSUME NEW l \in Lifecycles, Renew(l) \/ EndRenew(l)
      PROVE  SameClaim(e) \/ (rows'[e].claimedBy = rows[e].claimedBy /\ rows'[e].lease = "valid")
  <2>1. rows'[e] \in {rows[e], [rows[e] EXCEPT !.lease = "valid"]}
    BY <1>1, <1>9 DEF Renew, EndRenew, Renewed
  <2> QED
    BY <1>1, <2>1 DEF SameClaim, Row
<1>10. ASSUME NEW l \in Lifecycles, UpdateStatus(l) PROVE SameClaim(e)
  <2>1. CASE UNCHANGED rows
    BY <2>1 DEF SameClaim
  <2>2. ASSUME NEW delay \in Delays,
               rows' = [rows EXCEPT ![RowOf(l)] = Mutated(@, lc[l].res, lc[l].txn, delay)]
        PROVE  SameClaim(e)
    <3>1. CASE RowOf(l) = e
      <4>1. rows'[e] = Mutated(rows[e], lc[l].res, lc[l].txn, delay)
        BY <1>1, <2>2, <3>1
      <4> QED
        BY <1>1, <4>1, MutatedEffect DEF SameClaim
    <3>2. CASE RowOf(l) # e
      BY <1>1, <2>2, <3>2 DEF SameClaim
    <3> QED
      BY <3>1, <3>2
  <2> QED
    BY <1>10, <2>1, <2>2 DEF UpdateStatus
<1> QED
  BY <1>2, <1>3, <1>4, <1>5, <1>6, <1>7, <1>8, <1>9, <1>10
  DEF Next, Step, NavDecide, Crash, Stop, Restart, ParentReady, Submit, Reply, Poll, Get,
      Abandon, vars

\* A renewal outlives the context of a lifecycle only from its return on.
LEMMA RenewingHistory ==
  ASSUME TypeOK, [Next]_vars, NEW l \in Lifecycles, lc'[l].renewing,
         lc[l].renewing => lc[l].pc = "release"
  PROVE  lc'[l].pc = "release"
<1>1. lc \in [Lifecycles -> Lifecycle] /\ lc[l] \in Lifecycle
  BY DEF TypeOK
<1>2. CASE SameHand(l)
  BY <1>2 DEF SameHand
<1>3. CASE Started(l)
  <2>1. ~lc'[l].renewing
    BY <1>3 DEF Started, Dispatched, Idle
  <2> QED
    BY <2>1
<1>4. CASE lc'[l] = Idle
  BY <1>4 DEF Idle
<1>5. CASE Step(l)
  <2>1. CASE Exits(l)
    BY <2>1, ExitedParts
  <2>2. ASSUME lc[l].pc # "release", ~lc[l].renewing PROVE ~lc'[l].renewing \/ Exits(l)
    <3>1. \A res, txn : Records(l, res, txn) => ~lc'[l].renewing
      BY <1>1, <2>2 DEF Records, Lifecycle
    <3>2. CASE ParentReady(l)
      BY <1>1, <2>2, <3>1, <3>2 DEF ParentReady, Lifecycle
    <3>3. CASE Submit(l)
      BY <1>1, <2>2, <3>1, <3>3 DEF Submit, Lifecycle
    <3>4. CASE Reply(l) \/ Poll(l)
      BY <3>1, <3>4 DEF Reply, Poll
    <3>5. CASE UpdateStatus(l)
      BY <1>1, <2>2, <3>5 DEF UpdateStatus, Lifecycle
    <3>6. CASE Get(l)
      BY <1>1, <2>2, <3>6 DEF Get, Dispatched, Lifecycle
    <3>7. CASE Abandon(l)
      BY <3>7 DEF Abandon
    <3> QED
      BY <1>5, <2>2, <3>2, <3>3, <3>4, <3>5, <3>6, <3>7 DEF Step, Release
  <2>3. CASE lc[l].pc = "release"
    <3>1. Release(l)
      BY <1>5, <2>3
      DEF Step, ParentReady, Submit, Reply, Poll, UpdateStatus, Get, Abandon, At
    <3>2. lc'[l].renewing = lc[l].renewing /\ ~lc[l].renewing
      BY <1>1, <3>1 DEF Release, RenewStopped, Idle
    <3> QED
      BY <3>2
  <2> QED
    BY <2>1, <2>2, <2>3
<1> QED
  BY <1>2, <1>3, <1>4, <1>5, HandHistory
-----------------------------------------------------------------------------
(* The invariant.                                                          *)

LEMMA ExclusiveInit == Init => Exclusive
BY DEF Init, Exclusive, Guarded, Alone, Working, Idle

\* Nobody works on what a scan may claim.
LEMMA ClaimableIsFree ==
  ASSUME TypeOK, Exclusive, NEW l \in Lifecycles, NEW w, Claimable(rows[RowOf(l)], w)
  PROVE  ~Working(l)
<1>1. Owner(l) # NoWorker
  BY LifecycleParts, StoreAssumption
<1> QED
  BY <1>1 DEF Exclusive, Guarded, Claimable, Unheld, Holds

LEMMA AloneStep ==
  ASSUME TypeOK, Exclusive, [Next]_vars PROVE Alone'
<1> SUFFICES ASSUME NEW l \in Lifecycles, NEW m \in Lifecycles,
                    Working(l)', Working(m)', RowOf(l) = RowOf(m)
             PROVE  l = m
  BY DEF Alone, Lifecycles
<1>1. CASE Working(l) /\ Working(m)
  BY <1>1 DEF Exclusive, Alone
<1>2. CASE Started(l) /\ Started(m)
  BY <1>2, StartedAlone
<1>3. ~(Working(l) /\ Started(m)) /\ ~(Working(m) /\ Started(l))
  BY ClaimableIsFree DEF Started
<1> QED
  BY <1>1, <1>2, <1>3, WorkingHistory

\* A working lifecycle keeps its claim: nobody else may release the row, no
\* scan may take it and its lease does not lapse.
LEMMA ClaimKept ==
  ASSUME TypeOK, Truthful, Exclusive, Timely, [Next]_vars,
         NEW l \in Lifecycles, Working(l)'
  PROVE  Holds(rows'[RowOf(l)], Owner(l)) /\ rows'[RowOf(l)].lease = "valid"
<1> DEFINE e == RowOf(l)
<1>1. e \in Events /\ Owner(l) \in Workers /\ rows[e] \in Row
  BY LifecycleParts DEF TypeOK
<1>2. CASE Started(l)
  BY <1>1, <1>2 DEF Started, Claimed, Holds, Row
<1>3. CASE Working(l)
  <2>1. Holds(rows[e], Owner(l)) /\ rows[e].lease = "valid" /\ Stored(rows[e])
    BY <1>3 DEF Exclusive, Guarded, Truthful, HandTrue, Working
  <2>2. ~Put(e)
    BY <2>1 DEF Put
  <2>3. ~LeaseLapse(e)
    BY <1>3, <2>1 DEF LeaseLapse, WorkedOn, Working
  <2>4. \A w \in Workers : ~Claimable(rows[e], w)
    BY <1>3, ClaimableIsFree
  <2>5. ASSUME NEW m \in Lifecycles, Release(m), RowOf(m) = e PROVE FALSE
    <3>1. m = l
      BY <1>3, <2>5 DEF Exclusive, Alone, Working, Release
    <3> QED
      BY <2>5, <3>1 DEF Release, TypeOK, Idle, Working
  <2> QED
    BY <1>1, <2>1, <2>2, <2>3, <2>4, <2>5, ClaimHistory DEF SameClaim, Holds
<1> QED
  BY <1>2, <1>3, WorkingHistory

\* Nobody but its own lifecycle changes the status of a row that is worked on.
LEMMA OthersWait ==
  ASSUME TypeOK, Truthful, Exclusive, [Next]_vars,
         NEW l \in Lifecycles, Working(l), lc[l].pc # "update"
  PROVE  Kept(RowOf(l))
<1>1. RowOf(l) \in Events
  BY LifecycleParts
<1>2. ~Put(RowOf(l))
  BY DEF Put, Truthful, HandTrue, Working
<1>3. ASSUME NEW m \in Lifecycles, RowOf(m) = RowOf(l), Written(m) PROVE FALSE
  <2>1. Working(m) /\ lc[m].pc = "update"
    BY <1>3 DEF Written, At, Working
  <2>2. m = l
    BY <1>3, <2>1 DEF Exclusive, Alone
  <2> QED
    BY <2>1, <2>2
<1> QED
  BY <1>1, <1>2, <1>3, RowHistory

\* A lifecycle comes to a submission on a row that is pending still.
LEMMA PendingKept ==
  ASSUME TypeOK, Truthful, Exclusive, [Next]_vars,
         NEW l \in Lifecycles, lc'[l].pc \in {"parent", "submit"}
  PROVE  rows'[RowOf(l)].status = "pending"
<1> DEFINE e == RowOf(l)
<1>1. /\ e \in Events /\ rows[e] \in Row /\ lc[l] \in Lifecycle
      /\ lc[l].pc \in {"parent", "submit"} => rows[e].status = "pending"
  BY LifecycleParts DEF TypeOK, Exclusive, Guarded
<1>2. CASE SameHand(l)
  <2>1. Working(l) /\ lc[l].pc # "update" /\ rows[e].status = "pending"
    BY <1>1, <1>2 DEF SameHand, Working
  <2> QED
    BY <2>1, OthersWait DEF Kept
<1>3. CASE Started(l)
  <2>1. rows[e].status = "pending"
    BY <1>3 DEF Started, Dispatched, Idle
  <2> QED
    BY <1>1, <1>3, <2>1, ClaimsKeep, LifecycleParts DEF Started
<1>4. CASE lc'[l] = Idle
  BY <1>4 DEF Idle
<1>5. CASE ParentReady(l)
  <2>1. lc[l].pc = "parent" /\ UNCHANGED rows
    BY <1>5 DEF ParentReady, At
  <2> QED
    BY <1>1, <2>1
<1>6. CASE Get(l)
  <2>1. UNCHANGED rows
    BY <1>6 DEF Get
  <2>2. ~Exits(l)
    BY ExitedParts
  <2>3. lc'[l] = Dispatched(lc[l], rows[e])
    BY <1>6, <2>2 DEF Get, TypeOK
  <2>4. rows[e].status = "pending"
    BY <1>1, <2>3 DEF Dispatched, Lifecycle
  <2> QED
    BY <2>1, <2>4
<1>7. ASSUME Submit(l) \/ Reply(l) \/ Poll(l) \/ UpdateStatus(l) \/ Abandon(l) \/ Release(l)
      PROVE  FALSE
  <2>1. lc'[l].pc # "update" /\ lc'[l].pc # "release" /\ lc'[l].pc # "reply"
        /\ lc'[l].pc # "get" /\ lc'[l].pc # "idle"
    OBVIOUS
  <2>2. ~Exits(l) /\ \A res, txn : ~Records(l, res, txn)
    BY <2>1, ExitedParts, RecordedParts
  <2>3. CASE Submit(l)
    BY <1>1, <2>1, <2>2, <2>3 DEF Submit, TypeOK, Lifecycle
  <2>4. CASE UpdateStatus(l)
    BY <1>1, <2>1, <2>2, <2>4 DEF UpdateStatus, TypeOK, Lifecycle
  <2>5. CASE Release(l)
    BY <2>1, <2>5 DEF Release, TypeOK, Idle
  <2> QED
    BY <1>7, <2>2, <2>3, <2>4, <2>5 DEF Reply, Poll, Abandon
<1> QED
  BY <1>2, <1>3, <1>4, <1>5, <1>6, <1>7, HandHistory DEF Step

LEMMA ExclusiveStep ==
  TypeOK /\ Truthful /\ Exclusive /\ Timely /\ [Next]_vars => Exclusive'
<1> SUFFICES ASSUME TypeOK, Truthful, Exclusive, Timely, [Next]_vars PROVE Exclusive'
  OBVIOUS
<1>1. ASSUME NEW l \in Lifecycles PROVE Guarded(l)'
  <2>1. lc[l].renewing => lc[l].pc = "release"
    BY DEF Exclusive, Guarded
  <2>2. lc'[l].renewing => lc'[l].pc = "release"
    BY <2>1, RenewingHistory
  <2> QED
    BY <2>2, ClaimKept, PendingKept DEF Guarded
<1> QED
  BY <1>1, AloneStep DEF Exclusive, Lifecycles
-----------------------------------------------------------------------------
(* The theorems.                                                           *)

LEMMA AlwaysExclusive ==
  ASSUME Timely PROVE Spec => [](TypeOK /\ Truthful /\ Exclusive)
<1>1. Init => TypeOK /\ Truthful /\ Exclusive
  BY TypeInit, TruthfulInit, ExclusiveInit
<1>2. TypeOK /\ Truthful /\ Exclusive /\ [Next]_vars => (TypeOK /\ Truthful /\ Exclusive)'
  BY TypeStep, TruthfulStep, ExclusiveStep
<1> QED
  BY <1>1, <1>2, PTL DEF Spec

\* While leases are renewed in time, a row is worked on by one goroutine, under
\* a valid claim of its worker: through crashes, shutdowns, failed releases
\* and failed renewals, for any number of workers and rows.
THEOREM ClaimsExclude == ASSUME Timely PROVE Spec => []OneLifecyclePerRow
<1>1. Exclusive => OneLifecyclePerRow
  BY DEF Exclusive, Guarded, Alone, Working, OneLifecyclePerRow
<1> QED
  BY <1>1, AlwaysExclusive, PTL

\* A renewal never meets a row its worker has released.
THEOREM RenewalsMeetNoRelease == ASSUME Timely PROVE Spec => []RenewalHoldsClaim
<1>1. Exclusive => RenewalHoldsClaim
  BY DEF Exclusive, Guarded, Working, RenewalHoldsClaim
<1> QED
  BY <1>1, AlwaysExclusive, PTL

\* What has a transaction on record, or an outcome, is not sent to NAV again.
THEOREM NothingResubmitted == ASSUME Timely PROVE Spec => NoResubmission
<1>1. ASSUME TypeOK, Truthful, Exclusive, [Next]_vars, NEW e \in Events, Abroad(e)' # Abroad(e)
      PROVE  rows[e].status = "pending" /\ rows[e].txn = NoTransaction
  <2>1. PICK t \in DOMAIN nav' \ DOMAIN nav : nav'[t].event = e
    BY <1>1, NavHistory DEF Abroad
  <2>2. PICK l \in Lifecycles : At(l, "submit") /\ RowOf(l) = e
    BY <1>1, <2>1, NavHistory
  <2>3. rows[e].status = "pending"
    BY <1>1, <2>2 DEF At, Exclusive, Guarded
  <2> QED
    BY <1>1, <2>3 DEF Truthful, RowTrue, Unsent
<1>2. TypeOK /\ Truthful /\ Exclusive /\ [Next]_vars =>
        [\A e \in Events : Abroad(e)' # Abroad(e) =>
           rows[e].status = "pending" /\ rows[e].txn = NoTransaction]_vars
  BY <1>1
<1> QED
  BY <1>2, AlwaysExclusive, PTL DEF Spec, NoResubmission
-----------------------------------------------------------------------------
(* The refinement.                                                         *)

\* What Reporting sees of the rows.
Record == [e \in Events |-> [status |-> rows[e].status, parent |-> rows[e].parent,
                             txn |-> rows[e].txn]]

\* NAV's transactions change by a registration or a decision.
LEMMA NavStep ==
  ASSUME TypeOK, [Next]_vars
  PROVE  \/ UNCHANGED nav
         \/ NavDecide
         \/ \E l \in Lifecycles :
              /\ Submit(l) /\ UNCHANGED rows
              /\ nav' = Append(nav, [event |-> RowOf(l), verdict |-> "RECEIVED"])
BY DEF Next, Step, Put, TimePasses, LeaseLapse, LateRenewal, Lapses, ClaimBatch, Crash, Stop,
  Restart, ParentReady, Submit, Reply, Poll, UpdateStatus, Get, Abandon, Release, Renew,
  EndRenew, vars

\* A submission is of a pending row whose parent is accepted.
LEMMA SubmitRegisters ==
  ASSUME TypeOK, Truthful, Exclusive, NEW l \in Lifecycles, Submit(l), UNCHANGED rows,
         nav' = Append(nav, [event |-> RowOf(l), verdict |-> "RECEIVED"])
  PROVE  R!Register(RowOf(l))
<1> DEFINE e == RowOf(l)
<1>1. e \in Events /\ rows[e] \in Row
  BY LifecycleParts DEF TypeOK
<1>2. lc[l].pc = "submit"
  BY DEF Submit, At
<1>3. rows[e].status = "pending" /\ ParentAccepted(e)
  BY <1>2 DEF Exclusive, Guarded, Truthful, HandTrue
<1>4. rows[e].parent \in Events \cup {NoEvent}
  BY <1>1 DEF Row
<1> QED
  BY <1>1, <1>3, <1>4 DEF R!Register, R!Accepted, ParentAccepted

\* A result is written that Reporting allows, or nothing it sees.
LEMMA WriteReports ==
  ASSUME TypeOK, Truthful, NEW l \in Lifecycles, Written(l), UNCHANGED nav
  PROVE  R!Next \/ UNCHANGED R!vars
<1> DEFINE e == RowOf(l)
<1>1. /\ e \in Events /\ rows[e] \in Row /\ lc[l].txn \in Nat
      /\ RowTrue(e) /\ HandTrue(l) /\ lc[l].pc = "update"
  BY LifecycleParts DEF TypeOK, Lifecycle, Truthful, Written, At
<1>2. PICK delay \in Delays :
        rows' = [rows EXCEPT ![e] = Mutated(rows[e], lc[l].res, lc[l].txn, delay)]
  BY <1>1 DEF Written, TypeOK
<1>3. /\ rows'[e] = Mutated(rows[e], lc[l].res, lc[l].txn, delay)
      /\ \A f \in Events : f # e => rows'[f] = rows[f]
  BY <1>1, <1>2 DEF TypeOK
<1>4. \A status, txn :
        rows'[e].status = status /\ rows'[e].txn = txn /\ rows'[e].parent = rows[e].parent =>
          Record' = [Record EXCEPT ![e].status = status, ![e].txn = txn]
  BY <1>1, <1>3 DEF Record
<1>5. rows'[e].parent = rows[e].parent
  BY <1>1, <1>3, MutatedEffect
<1>6. CASE rows'[e].status = rows[e].status /\ rows'[e].txn = rows[e].txn
  <2>1. Record' = Record
    BY <1>3, <1>5, <1>6 DEF Record
  <2> QED
    BY <2>1 DEF Record, R!vars
<1>7. CASE /\ lc[l].res = "submitted" /\ rows[e].status = "pending"
           /\ rows'[e].status = "submitted" /\ rows'[e].txn = lc[l].txn
  <2>1. lc[l].txn \in DOMAIN nav /\ nav[lc[l].txn].event = e
    BY <1>1, <1>7 DEF HandTrue, Abroad
  <2>2. Record' = [Record EXCEPT ![e].status = "submitted", ![e].txn = lc[l].txn]
    BY <1>4, <1>5, <1>7
  <2>3. R!Adopt(e)
    BY <1>1, <1>7, <2>1, <2>2 DEF Record, R!Adopt
  <2> QED
    BY <1>1, <2>3 DEF R!Next
<1>8. CASE /\ lc[l].res \in {"processing", "accepted", "rejected", "aborted"}
           /\ rows[e].status \in InFlight
           /\ rows'[e].status = lc[l].res /\ rows'[e].txn = rows[e].txn
  <2>1. Record' = [Record EXCEPT ![e].status = lc[l].res]
    BY <1>1, <1>3, <1>5, <1>8 DEF Record
  <2>2. lc[l].res # "aborted"
    BY <1>1, <1>8 DEF RowTrue, HandTrue, ParentFailed, ParentAccepted
  <2>3. CASE lc[l].res = "processing"
    BY <1>1, <1>8, <2>1, <2>3 DEF Record, InFlight, R!InFlight, R!Wait, R!Next
  <2>4. CASE lc[l].res = "rejected"
    BY <1>1, <1>8, <2>1, <2>4 DEF Record, InFlight, R!InFlight, R!Reject, R!Next
  <2>5. CASE lc[l].res = "accepted"
    <3>1. nav[rows[e].txn].verdict = "FINISHED"
      BY <1>1, <2>5 DEF HandTrue
    <3> QED
      BY <1>1, <1>8, <2>1, <2>5, <3>1 DEF Record, InFlight, R!InFlight, R!Accept, R!Next
  <2> QED
    BY <1>8, <2>2, <2>3, <2>4, <2>5
<1>9. CASE /\ lc[l].res \in {"rejected", "aborted"}
           /\ rows[e].status = "pending"
           /\ rows'[e].status = lc[l].res /\ rows'[e].txn = rows[e].txn
  <2>1. Record' = [Record EXCEPT ![e].status = lc[l].res]
    BY <1>1, <1>3, <1>5, <1>9 DEF Record
  <2>2. CASE lc[l].res = "rejected"
    BY <1>1, <1>9, <2>1, <2>2 DEF Record, R!Pending, R!Reject, R!Next
  <2>3. CASE lc[l].res = "aborted"
    <3>1. ParentFailed(e) /\ rows[e].parent \in Events
      BY <1>1, <2>3 DEF HandTrue, ParentFailed, Row
    <3> QED
      BY <1>1, <1>9, <2>1, <2>3, <3>1 DEF Record, R!Failed, R!Abort, R!Next, ParentFailed
  <2> QED
    BY <1>9, <2>2, <2>3
<1> QED
  BY <1>1, <1>3, <1>6, <1>7, <1>8, <1>9, MutatedEffect

\* Every step of the workers is one of Reporting's or none.
LEMMA ReportingStep ==
  ASSUME TypeOK, Truthful, Exclusive, [Next]_vars
  PROVE  R!Next \/ UNCHANGED R!vars
<1>1. ASSUME NEW e \in Events, Put(e) PROVE R!Next
  <2>1. PICK parent \in {NoEvent} \cup {p \in {Original[e]} \ {NoEvent} : Stored(rows[p])} :
          rows' = [rows EXCEPT ![e] = NewRow(parent)]
    BY <1>1 DEF Put
  <2>2. parent \in {NoEvent} \cup {p \in Events : rows[p].status # "absent"}
    BY <2>1, WorkerAssumption DEF Stored
  <2>3. rows[e].status = "absent" /\ rows[e].txn = NoTransaction
    BY <1>1 DEF Put, Stored, Truthful, RowTrue, Unsent
  <2>4. Record' = [Record EXCEPT ![e].status = "pending", ![e].parent = parent]
    BY <2>1, <2>3 DEF Record, TypeOK, NewRow, AbsentRow
  <2>5. R!Receive(e)
    BY <1>1, <2>2, <2>3, <2>4 DEF Record, Put, R!Receive
  <2> QED
    BY <2>5 DEF R!Next
<1>2. ASSUME UNCHANGED rows, UNCHANGED nav PROVE UNCHANGED R!vars
  BY <1>2 DEF R!vars
<1>3. ASSUME NavDecide PROVE R!Next
  BY <1>3 DEF NavDecide, R!Decide, R!Next
<1>4. ASSUME NEW l \in Lifecycles, Submit(l), UNCHANGED rows,
             nav' = Append(nav, [event |-> RowOf(l), verdict |-> "RECEIVED"])
      PROVE  R!Next
  BY <1>4, SubmitRegisters, LifecycleParts DEF R!Next
<1>5. ASSUME Work, UNCHANGED nav PROVE R!Next \/ UNCHANGED R!vars
  <2>1. CASE \A e \in Events : Kept(e)
    BY <1>5, <2>1 DEF Kept, R!vars
  <2>2. CASE \E l \in Lifecycles : Written(l)
    BY <1>5, <2>2, WriteReports
  <2> QED
    BY <1>5, <2>1, <2>2, WorkHistory
<1> QED
  BY <1>1, <1>2, <1>3, <1>4, <1>5, NavStep DEF Next, Work, vars

\* While leases are renewed in time, what the workers do to rows and to NAV is
\* what Reporting allows, through every other failure.
THEOREM WorkersReport == ASSUME Timely PROVE Spec => ImplementsReporting
<1>1. Init => R!Init
  BY DEF Init, R!Init, AbsentRow, R!NoTransaction, NoTransaction
<1>2. TypeOK /\ Truthful /\ Exclusive /\ [Next]_vars => [R!Next]_R!vars
  BY ReportingStep
<1> QED
  BY <1>1, <1>2, AlwaysExclusive, PTL DEF Spec, ImplementsReporting, R!Spec
-----------------------------------------------------------------------------
(* What a failure costs.                                                   *)

\* A lifecycle has NAV's answer to a submission in its hands and can write it.
Carries(l) ==
  /\ lc[l].live
  /\ lc[l].pc = "reply" \/ (lc[l].pc = "update" /\ lc[l].res = "submitted")

Carried(e) == \E l \in Lifecycles : RowOf(l) = e /\ Carries(l)

\* A transaction that neither a row nor a lifecycle knows of has cost a failure.
Spent(e) ==
  /\ Cardinality(Abroad(e)) <= faults + 1
  /\ rows[e].status \in Unsent /\ ~Carried(e) => Cardinality(Abroad(e)) <= faults

LEMMA AbroadIsFinite ==
  ASSUME TypeOK, NEW e \in Events
  PROVE  IsFiniteSet(Abroad(e)) /\ Cardinality(Abroad(e)) \in Nat
<1>1. Abroad(e) \subseteq 1..Len(nav) /\ Len(nav) \in Nat
  BY DEF Abroad, TypeOK
<1>2. IsFiniteSet(1..Len(nav))
  BY <1>1, FS_Interval
<1> QED
  BY <1>1, <1>2, FS_Subset, FS_CardinalityType

LEMMA FaultsGrow ==
  ASSUME TypeOK, [Next]_vars
  PROVE  faults \in Nat /\ faults' \in {faults, faults + 1}
<1>1. faults \in Nat
  BY WorkerAssumption DEF TypeOK
<1> QED
  BY <1>1 DEF Next, Step, NavDecide, Put, TimePasses, LeaseLapse, LateRenewal, Lapses, ClaimBatch,
    Crash, Stop, Restart, ParentReady, Submit, Reply, Poll, UpdateStatus, Get, Abandon, Release,
    Renew, EndRenew, Fault, vars

\* Nobody takes an answer from the lifecycle that has it without a failure.
LEMMA OthersLeaveIt ==
  ASSUME TypeOK, Exclusive, [Next]_vars, UNCHANGED faults, NEW l \in Lifecycles, Carries(l), ~Step(l)
  PROVE  Carries(l)'
<1>1. /\ lc \in [Lifecycles -> Lifecycle] /\ faults \in Nat /\ lc[l] # Idle
      /\ RowOf(l) \in Events /\ rows[RowOf(l)] \in Row
      /\ lc[l].pc # "idle" /\ ~lc[l].renewing
      /\ Holds(rows[RowOf(l)], Owner(l))
  BY FaultsGrow, LifecycleParts DEF TypeOK, Carries, Idle, Exclusive, Guarded, Working
<1>2. ASSUME NEW w \in Workers, ClaimBatch(w) PROVE lc'[l] = lc[l]
  <2>1. PICK batch \in SUBSET Events : \E gen \in [batch -> Gens] :
          /\ \A e \in batch : Claimable(rows[e], w) /\ lc[<<w, e, gen[e]>>] = Idle
          /\ rows' = [e \in Events |->
                       IF e \in batch THEN Claimed(rows[e], w) ELSE rows[e]]
          /\ lc' = [m \in Lifecycles |->
                     IF Owner(m) = w /\ RowOf(m) \in batch /\ m[3] = gen[RowOf(m)]
                     THEN Dispatched([Idle EXCEPT !.live = TRUE], rows[RowOf(m)])
                     ELSE lc[m]]
    BY <1>2, ClaimBatchEffect
  <2>2. RowOf(l) \notin batch
    BY <1>1, <2>1, ClaimableIsFree DEF Working
  <2> QED
    BY <2>1, <2>2
<1>3. ASSUME NEW w \in Workers, Crash(w) \/ Stop(w) PROVE FALSE
  BY <1>1, <1>3 DEF Crash, Stop, Fault
<1>4. ASSUME NEW m \in Lifecycles, Step(m) PROVE lc'[l] = lc[l]
  <2>1. m # l
    BY <1>4
  <2> QED
    BY <1>1, <1>4, <2>1 DEF Step, ParentReady, Submit, Reply, Poll, UpdateStatus, Get, Abandon,
                           Release, Records, Exits
<1>5. ASSUME NEW m \in Lifecycles, Renew(m) \/ EndRenew(m)
      PROVE  lc'[l].pc = lc[l].pc /\ lc'[l].res = lc[l].res /\ (lc[l].live => lc'[l].live)
  <2>1. CASE m # l
    BY <1>1, <1>5, <2>1 DEF Renew, EndRenew
  <2>2. CASE m = l
    BY <1>1, <1>5, <2>2 DEF Renew, EndRenew, Fault, Lifecycle
  <2> QED
    BY <2>1, <2>2
<1>6. CASE UNCHANGED lc
  BY <1>6 DEF Carries
<1> QED
  BY <1>2, <1>3, <1>4, <1>5, <1>6
  DEF Carries, Next, NavDecide, Put, TimePasses, LeaseLapse, LateRenewal, Lapses, Restart, vars

\* The lifecycle itself goes on to write it, and writes it.
LEMMA AnswerIsWritten ==
  ASSUME TypeOK, Truthful, [Next]_vars, UNCHANGED faults, NEW l \in Lifecycles, Carries(l), Step(l)
  PROVE  Carries(l)' \/ rows'[RowOf(l)].status \notin Unsent
<1>1. /\ lc[l] \in Lifecycle /\ lc \in [Lifecycles -> Lifecycle] /\ faults \in Nat
      /\ RowOf(l) \in Events /\ rows[RowOf(l)] \in Row /\ rows \in [Events -> Row]
      /\ Stored(rows[RowOf(l)])
  BY FaultsGrow, LifecycleParts DEF TypeOK, Carries, Truthful, HandTrue
<1>2. CASE Reply(l)
  <2>1. Records(l, "submitted", lc[l].txn)
    BY <1>1, <1>2 DEF Reply, Fault
  <2> QED
    BY <1>1, <2>1 DEF Records, Carries, Lifecycle
<1>3. CASE UpdateStatus(l)
  <2>1. lc[l].res = "submitted" /\ lc[l].txn \in Nat
    BY <1>1, <1>3 DEF UpdateStatus, At, Carries, Lifecycle
  <2>2. PICK delay \in Delays :
          rows'[RowOf(l)] = Mutated(rows[RowOf(l)], "submitted", lc[l].txn, delay)
    BY <1>1, <1>3, <2>1 DEF UpdateStatus, Fault
  <2>3. CASE rows[RowOf(l)].status = "pending"
    <3>1. rows'[RowOf(l)].status = "submitted"
      BY <1>1, <2>2, <2>3 DEF Mutated, Transitioned, CanTransition, ValidTransitions, Row
    <3> QED
      BY <3>1 DEF Unsent
  <2>4. CASE rows[RowOf(l)].status # "pending"
    BY <1>1, <2>4, RowsMoveOn DEF Unsent, Stored
  <2> QED
    BY <2>3, <2>4
<1> QED
  BY <1>2, <1>3
  DEF Carries, Step, ParentReady, Submit, Poll, Get, Abandon, Release, At

\* What is spent on an event grows only by a submission of it.
LEMMA SpentKept ==
  ASSUME TypeOK, TypeOK', Truthful, Exclusive, [Next]_vars, NEW e \in Events, Spent(e),
         Abroad(e)' = Abroad(e)
  PROVE  Spent(e)'
<1>1. /\ faults \in Nat /\ faults' \in {faults, faults + 1}
      /\ Cardinality(Abroad(e)) \in Nat
  BY FaultsGrow, AbroadIsFinite
<1>2. CASE faults' = faults + 1
  BY <1>1, <1>2 DEF Spent
<1>3. CASE faults' = faults
  <2>1. rows'[e].status \in Unsent => rows[e].status \in Unsent
    BY RowsMoveOn DEF Stored, Unsent
  <2>2. ASSUME Carried(e), rows'[e].status \in Unsent PROVE Carried(e)'
    BY <1>3, <2>2, OthersLeaveIt, AnswerIsWritten DEF Carried, Lifecycles
  <2> QED
    BY <1>1, <1>3, <2>1, <2>2 DEF Spent
<1> QED
  BY <1>1, <1>2, <1>3

LEMMA SpentSubmitting ==
  ASSUME TypeOK, Truthful, Exclusive, [Next]_vars, NEW l \in Lifecycles, Spent(RowOf(l)),
         Submit(l), nav' = Append(nav, [event |-> RowOf(l), verdict |-> "RECEIVED"])
  PROVE  Spent(RowOf(l))'
<1> DEFINE e == RowOf(l)
<1>1. /\ e \in Events /\ lc[l] \in Lifecycle /\ lc \in [Lifecycles -> Lifecycle]
      /\ nav \in Seq(Transaction) /\ Len(nav) \in Nat
  BY LifecycleParts DEF TypeOK
<1>2. At(l, "submit") /\ nav' # nav
  BY <1>1 DEF Submit
<1>3. rows[e].status = "pending"
  BY <1>2 DEF At, Exclusive, Guarded
<1>4. ~Carried(e)
  <2>1. ASSUME NEW m \in Lifecycles, RowOf(m) = e, Carries(m) PROVE FALSE
    <3>1. Working(m) /\ Working(l)
      BY <1>2, <2>1 DEF Working, Carries, At
    <3>2. m = l
      BY <2>1, <3>1 DEF Exclusive, Alone
    <3> QED
      BY <1>2, <2>1, <3>2 DEF Carries, At
  <2> QED
    BY <2>1 DEF Carried
<1>5. Cardinality(Abroad(e)) <= faults
  BY <1>3, <1>4 DEF Spent, Unsent
<1>6. Abroad(e)' = Abroad(e) \cup {Len(nav) + 1} /\ Len(nav) + 1 \notin Abroad(e)
  <2> DEFINE new == [event |-> e, verdict |-> "RECEIVED"]
  <2>1. new \in Transaction /\ new.event = e
    BY <1>1 DEF Transaction, Verdicts
  <2>2. nav' = Append(nav, new)
    OBVIOUS
  <2> HIDE DEF new
  <2>3. /\ DOMAIN nav = 1..Len(nav) /\ DOMAIN nav' = 1..(Len(nav) + 1)
        /\ nav'[Len(nav) + 1] = new /\ \A t \in 1..Len(nav) : nav'[t] = nav[t]
    BY <1>1, <2>1, <2>2
  <2> QED
    BY <1>1, <2>1, <2>3 DEF Abroad
<1>7. Cardinality(Abroad(e)') = Cardinality(Abroad(e)) + 1
  BY <1>1, <1>6, AbroadIsFinite, FS_AddElement
<1>8. Carried(e)'
  <2>1. lc' = [lc EXCEPT ![l].pc = "reply", ![l].txn = Len(nav) + 1]
    BY <1>2 DEF Submit
  <2>2. Carries(l)'
    BY <1>1, <1>2, <2>1 DEF Carries, At, Lifecycle
  <2> QED
    BY <2>2 DEF Carried, Lifecycles
<1> QED
  BY <1>1, <1>5, <1>7, <1>8, AbroadIsFinite, FaultsGrow DEF Spent

LEMMA SpentStep ==
  ASSUME TypeOK, TypeOK', Truthful, Exclusive, [Next]_vars, NEW e \in Events, Spent(e)
  PROVE  Spent(e)'
<1>1. CASE UNCHANGED nav \/ NavDecide
  <2>1. Abroad(e)' = Abroad(e)
    <3>1. CASE UNCHANGED nav
      BY <3>1 DEF Abroad
    <3>2. CASE NavDecide
      <4>1. PICK t \in DOMAIN nav, verdict \in {"FINISHED", "ABORTED"} :
              nav' = [nav EXCEPT ![t].verdict = verdict]
        BY <3>2 DEF NavDecide
      <4>2. DOMAIN nav' = DOMAIN nav
        BY <4>1
      <4> QED
        BY <4>2, NavHistory DEF Abroad
    <3> QED
      BY <1>1, <3>1, <3>2
  <2> QED
    BY <2>1, SpentKept
<1>2. ASSUME NEW l \in Lifecycles, Submit(l),
             nav' = Append(nav, [event |-> RowOf(l), verdict |-> "RECEIVED"])
      PROVE  Spent(e)'
  <2>1. CASE e = RowOf(l)
    BY <1>2, <2>1, SpentSubmitting
  <2>2. CASE e # RowOf(l)
    <3> DEFINE new == [event |-> RowOf(l), verdict |-> "RECEIVED"]
    <3>1. new \in Transaction /\ new.event = RowOf(l) /\ nav \in Seq(Transaction) /\ Len(nav) \in Nat
      BY LifecycleParts DEF Transaction, Verdicts, TypeOK
    <3>2. nav' = Append(nav, new)
      BY <1>2
    <3> HIDE DEF new
    <3>3. /\ DOMAIN nav = 1..Len(nav) /\ DOMAIN nav' = 1..(Len(nav) + 1)
          /\ nav'[Len(nav) + 1] = new /\ \A t \in 1..Len(nav) : nav'[t] = nav[t]
      BY <3>1, <3>2
    <3>4. Abroad(e)' = Abroad(e)
      BY <2>2, <3>1, <3>3 DEF Abroad
    <3> QED
      BY <3>4, SpentKept
  <2> QED
    BY <2>1, <2>2
<1> QED
  BY <1>1, <1>2, NavStep

\* While leases are renewed in time, each transaction of an event beyond the first
\* has cost a failure: there are no other duplicates.
THEOREM DuplicatesCostFailures == ASSUME Timely PROVE Spec => []NoDuplicateSubmission
<1> DEFINE Accounted == \A e \in Events : Spent(e)
<1>1. Init => Accounted
  <2> SUFFICES ASSUME Init, NEW e \in Events PROVE Spent(e)
    OBVIOUS
  <2>1. Abroad(e) = {} /\ faults = 0
    BY DEF Init, Abroad
  <2> QED
    BY <2>1, FS_EmptySet DEF Spent
<1>2. TypeOK /\ Truthful /\ Exclusive /\ TypeOK' /\ Accounted /\ [Next]_vars => Accounted'
  BY SpentStep
<1>3. TypeOK /\ Accounted => NoDuplicateSubmission
  <2> SUFFICES ASSUME TypeOK, NEW e \in Events, Spent(e) PROVE Cardinality(Abroad(e)) <= 1 + faults
    BY DEF NoDuplicateSubmission
  <2> QED
    BY AbroadIsFinite, WorkerAssumption DEF Spent, TypeOK
<1> QED
  BY <1>1, <1>2, <1>3, AlwaysExclusive, PTL DEF Spec
=============================================================================
