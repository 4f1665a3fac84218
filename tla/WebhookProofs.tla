--------------------------- MODULE WebhookProofs ---------------------------
(***************************************************************************)
(* Theorems about Webhook, for any numbers of events and deliveries and    *)
(* any faults.                                                             *)
(***************************************************************************)
EXTENDS Webhook, TLAPS

\* A delivery at work is one of an event, and one that looks for the original
\* has one to look for.
Busy ==
  \A h \in Handlers :
    /\ handler[h].pc # "idle" => handler[h].event \in Events
    /\ handler[h].pc = "find" => Original[handler[h].event] \in Events

Typed == TypeOK /\ Busy
-----------------------------------------------------------------------------
(* Types.                                                                  *)

PCs == {"idle", "get", "find", "rate", "put", "wake", "ok", "unavailable"}

\* A delivery goes on to its next call, with what it has found.
LEMMA DeliveryGoes ==
  \A d \in Delivery, pc \in PCs :
    LET next == [d EXCEPT !.pc = pc]
    IN  next \in Delivery /\ next.event = d.event /\ next.pc = pc
BY DEF Delivery, PCs

LEMMA DeliveryLearns ==
  \A d \in Delivery, parent \in Events \cup {NoEvent}, rate \in Rates \cup {NoRate} :
    LET next == [d EXCEPT !.pc = "rate", !.parent = parent, !.rate = rate]
    IN  next \in Delivery /\ next.event = d.event /\ next.pc = "rate"
BY DEF Delivery

LEMMA DeliveryExpires ==
  \A d \in Delivery :
    LET next == [d EXCEPT !.late = TRUE]
    IN  next \in Delivery /\ next.event = d.event /\ next.pc = d.pc
BY DEF Delivery

LEMMA IdleDelivery ==
  /\ Idle \in Delivery
  /\ \A e \in Events, pc \in PCs : [Idle EXCEPT !.pc = pc, !.event = e] \in Delivery
BY DEF Delivery, Idle, PCs

LEMMA NewRowType == \A parent \in Events \cup {NoEvent} : NewRow(parent) \in Row
BY DEF NewRow, AbsentRow, Row, NoTransaction, Moments, Statuses, Pending

LEMMA TypedInit == Init => Typed
<1> SUFFICES ASSUME Init PROVE Typed
  OBVIOUS
<1>1. rows \in [Events -> Row]
  BY DEF Init, AbsentRow, Row, NoTransaction, Moments
<1>2. PICK k \in Kinds : stripe = [e \in Events |-> [delivery |-> "ahead", kind |-> k[e]]]
  BY DEF Init
<1>3. k \in [Events -> EventKinds]
  BY WebhookAssumption
<1>4. stripe \in [Events -> [delivery : {"ahead", "due", "acked"}, kind : EventKinds]]
  BY <1>2, <1>3
<1>5. handler \in [Handlers -> Delivery] /\ Busy
  BY IdleDelivery DEF Init, Busy, Idle
<1>6. faults \in 0..MaxFaults
  BY WebhookAssumption DEF Init
<1> QED
  BY <1>1, <1>4, <1>5, <1>6 DEF Init, Typed, TypeOK, Working

\* A fault, or none.
LEMMA FaultsBounded ==
  ASSUME TypeOK, faults' = faults \/ \E kind : Fault(kind)
  PROVE  faults' \in 0..MaxFaults
BY WebhookAssumption DEF TypeOK, Fault

\* What is typed about a delivery after a step that moved it.
LEMMA MovedDelivery ==
  ASSUME Typed, NEW h \in Handlers, NEW d \in Delivery,
         handler' = [handler EXCEPT ![h] = d],
         d.pc # "idle" => d.event \in Events,
         d.pc = "find" => Original[d.event] \in Events
  PROVE  handler' \in [Handlers -> Delivery] /\ Busy'
BY DEF Typed, TypeOK, Busy

LEMMA TypedStep == Typed /\ [Next]_vars => Typed'
<1> SUFFICES ASSUME Typed, [Next]_vars PROVE Typed'
  OBVIOUS
<1> USE DEF Typed
<1>a. \A h \in Handlers : handler[h] \in Delivery
  BY DEF TypeOK
<1>b. \A h \in Handlers : handler[h].pc \in PCs /\ handler[h].parent \in Events \cup {NoEvent}
                          /\ handler[h].rate \in Rates \cup {NoRate}
  BY <1>a DEF Delivery, PCs
<1>1. ASSUME NEW e \in Events, Happen(e) PROVE Typed'
  BY <1>1 DEF Happen, TypeOK, Busy, run
<1>2. ASSUME NEW e \in Events, Deliver(e) PROVE Typed'
  <2>1. PICK h \in Handlers :
          handler' = [handler EXCEPT ![h] =
                        [Idle EXCEPT !.pc = IF Kind(e) = "ineligible" THEN "ok" ELSE "get",
                                     !.event = e]]
    BY <1>2 DEF Deliver
  <2> DEFINE d == [Idle EXCEPT !.pc = IF Kind(e) = "ineligible" THEN "ok" ELSE "get", !.event = e]
  <2>2. d \in Delivery /\ d.event = e /\ d.pc # "find"
    BY IdleDelivery DEF PCs, Idle
  <2> HIDE DEF d
  <2>3. handler' \in [Handlers -> Delivery] /\ Busy'
    BY <2>1, <2>2, MovedDelivery DEF d
  <2>4. faults' \in 0..MaxFaults
    BY <1>2, FaultsBounded DEF Deliver
  <2> QED
    BY <1>2, <2>3, <2>4 DEF Deliver, TypeOK, run
<1>3. ASSUME NEW h \in Handlers, Expire(h) PROVE Typed'
  <2> DEFINE d == [handler[h] EXCEPT !.late = TRUE]
  <2>1. d \in Delivery /\ d.event = handler[h].event /\ d.pc = handler[h].pc
    BY <1>a, DeliveryExpires
  <2>2. handler' = [handler EXCEPT ![h] = d]
    BY <1>3 DEF Expire
  <2> HIDE DEF d
  <2>3. handler' \in [Handlers -> Delivery] /\ Busy'
    BY <2>1, <2>2, MovedDelivery DEF Busy
  <2>4. faults' \in 0..MaxFaults
    BY <1>3, FaultsBounded DEF Expire
  <2> QED
    BY <1>3, <2>3, <2>4 DEF Expire, TypeOK, run
<1>4. ASSUME NEW h \in Handlers, NEW pc \in PCs, Goes(h, pc), handler[h].pc # "idle",
             pc = "find" => Original[handler[h].event] \in Events
      PROVE  handler' \in [Handlers -> Delivery] /\ Busy'
  <2> DEFINE d == [handler[h] EXCEPT !.pc = pc]
  <2>1. d \in Delivery /\ d.event = handler[h].event /\ d.pc = pc
    BY <1>a, DeliveryGoes
  <2>2. handler' = [handler EXCEPT ![h] = d]
    BY <1>4 DEF Goes
  <2> HIDE DEF d
  <2> QED
    BY <1>4, <2>1, <2>2, MovedDelivery DEF Busy
<1>5. ASSUME NEW h \in Handlers, Dedup(h) PROVE Typed'
  <2> DEFINE e == handler[h].event
  <2>1. e \in Events
    BY <1>5 DEF Dedup, Busy
  <2>2. Proceed(e) \in PCs /\ (Proceed(e) = "find" => Original[e] \in Events)
    BY <2>1, WebhookAssumption DEF Proceed, PCs
  <2>3. PICK pc \in PCs : Goes(h, pc) /\ (pc = "find" => Original[e] \in Events)
    BY <1>5, <2>2 DEF Dedup, PCs
  <2>4. handler' \in [Handlers -> Delivery] /\ Busy'
    BY <1>4, <1>5, <2>3 DEF Dedup
  <2>5. faults' \in 0..MaxFaults
    BY <1>5, FaultsBounded DEF Dedup, Works, Fails
  <2> QED
    BY <1>5, <2>4, <2>5 DEF Dedup, TypeOK, run
<1>6. ASSUME NEW h \in Handlers, FindParent(h) PROVE Typed'
  <2> DEFINE original == Original[handler[h].event]
  <2>1. handler[h].event \in Events /\ original \in Events
    BY <1>6 DEF FindParent, Busy
  <2>2. PICK parent \in Events \cup {NoEvent}, rate \in Rates \cup {NoRate} :
          handler' = [handler EXCEPT ![h] = [@ EXCEPT !.pc = "rate", !.parent = parent, !.rate = rate]]
    BY <1>6, <2>1 DEF FindParent, ParentRate, TypeOK
  <2> DEFINE d == [handler[h] EXCEPT !.pc = "rate", !.parent = parent, !.rate = rate]
  <2>3. d \in Delivery /\ d.event = handler[h].event /\ d.pc = "rate"
    BY <1>a, DeliveryLearns
  <2>4. handler' = [handler EXCEPT ![h] = d]
    BY <2>2
  <2> HIDE DEF d
  <2>5. handler' \in [Handlers -> Delivery] /\ Busy'
    BY <2>1, <2>3, <2>4, MovedDelivery
  <2>6. faults' \in 0..MaxFaults
    BY <1>6, FaultsBounded DEF FindParent, Works, Fails
  <2> QED
    BY <1>6, <2>5, <2>6 DEF FindParent, TypeOK, run
<1>7. ASSUME NEW h \in Handlers, Map(h) PROVE Typed'
  <2>1. handler[h].event \in Events
    BY <1>7 DEF Map, Busy
  <2>2. PICK pc \in {"ok", "put", "unavailable"}, rate \in Rates \cup {NoRate} :
          \/ handler' = [handler EXCEPT ![h] = [@ EXCEPT !.pc = pc, !.rate = rate]]
          \/ Goes(h, pc)
    BY <1>7, <1>b DEF Map
  <2>3. ASSUME Goes(h, pc) PROVE handler' \in [Handlers -> Delivery] /\ Busy'
    BY <1>4, <1>7, <2>3 DEF Map, PCs
  <2>4. ASSUME handler' = [handler EXCEPT ![h] = [@ EXCEPT !.pc = pc, !.rate = rate]]
        PROVE  handler' \in [Handlers -> Delivery] /\ Busy'
    <3> DEFINE d == [handler[h] EXCEPT !.pc = pc, !.rate = rate]
    <3>0. pc \in PCs
      BY DEF PCs
    <3>1. d \in Delivery /\ d.event = handler[h].event /\ d.pc = pc
      BY <1>a, <3>0 DEF Delivery, PCs
    <3>2. handler' = [handler EXCEPT ![h] = d]
      BY <2>4
    <3> HIDE DEF d
    <3> QED
      BY <2>1, <3>1, <3>2, MovedDelivery
  <2>6. handler' \in [Handlers -> Delivery] /\ Busy'
    BY <2>2, <2>3, <2>4
  <2>7. faults' \in 0..MaxFaults
    BY <1>7, FaultsBounded DEF Map, Fails
  <2> QED
    BY <1>7, <2>6, <2>7 DEF Map, TypeOK, run
<1>8. ASSUME NEW h \in Handlers, Put(h) PROVE Typed'
  <2>1. PICK pc \in {"ok", "wake", "unavailable"} : Goes(h, pc)
    BY <1>8 DEF Put
  <2>2. handler' \in [Handlers -> Delivery] /\ Busy'
    BY <1>4, <1>8, <2>1 DEF Put, PCs
  <2>3. rows' \in [Events -> Row] /\ payload' \in [Events -> Rates \cup {NoRate}]
    BY <1>8, <1>b, NewRowType DEF Put, Insert, TypeOK
  <2>4. faults' \in 0..MaxFaults
    BY <1>8, FaultsBounded DEF Put, Works, Fails
  <2> QED
    BY <1>8, <2>2, <2>3, <2>4 DEF Put, TypeOK, run
<1>9. ASSUME NEW h \in Handlers, Wakeup(h) PROVE Typed'
  <2>1. handler' \in [Handlers -> Delivery] /\ Busy'
    BY <1>4, <1>9 DEF Wakeup, PCs
  <2>2. announced' \subseteq Events
    BY <1>9 DEF Wakeup, TypeOK, Busy
  <2> QED
    BY <1>9, <2>1, <2>2 DEF Wakeup, TypeOK
<1>10. ASSUME NEW h \in Handlers, Answer(h) PROVE Typed'
  <2>1. handler' \in [Handlers -> Delivery] /\ Busy'
    BY <1>10, IdleDelivery, MovedDelivery DEF Answer, Idle
  <2>2. stripe' \in [Events -> [delivery : {"ahead", "due", "acked"}, kind : EventKinds]]
    BY <1>10 DEF Answer, TypeOK, Busy
  <2>3. faults' \in 0..MaxFaults
    BY <1>10, FaultsBounded DEF Answer
  <2> QED
    BY <1>10, <2>1, <2>2, <2>3 DEF Answer, TypeOK, run
<1>11. CASE Select \/ TimerFires \/ Spawn
  BY <1>11 DEF Select, Woken, TimedOut, TimerFires, Spawn, TypeOK, Busy, Working, intake
<1>12. CASE Scan
  <2>1. faults' \in 0..MaxFaults
    BY <1>12, FaultsBounded DEF Scan
  <2> QED
    BY <1>12, <2>1 DEF Scan, CallsClaimBatch, TypeOK, Busy, Working
<1>13. CASE Stop
  <2>1. faults' \in 0..MaxFaults
    BY <1>13, FaultsBounded DEF Stop
  <2> QED
    BY <1>13, <2>1 DEF Stop, TypeOK, Busy, Working, intake
<1>14. CASE Crash \/ Restart
  <2>0. handler' = [h \in Handlers |-> Idle]
    BY <1>14 DEF Crash, Restart
  <2>1. handler' \in [Handlers -> Delivery] /\ Busy'
    BY <2>0, IdleDelivery DEF Busy, Idle
  <2>2. faults' \in 0..MaxFaults
    BY <1>14, FaultsBounded DEF Crash, Restart
  <2> QED
    BY <1>14, <2>1, <2>2 DEF Crash, Restart, TypeOK, Working
<1>15. CASE UNCHANGED vars
  BY <1>15 DEF vars, intake, run, TypeOK, Busy
<1> QED
  BY <1>1, <1>2, <1>3, <1>5, <1>6, <1>7, <1>8, <1>9, <1>10, <1>11, <1>12, <1>13, <1>14, <1>15
  DEF Next, Serve

\* Every variable keeps its type, for any numbers of events and deliveries,
\* whatever Stripe sends and whatever fails.
THEOREM TypeCorrect == Spec => []TypeOK
<1>1. Typed => TypeOK
  BY DEF Typed
<1> QED
  BY <1>1, TypedInit, TypedStep, PTL DEF Spec
-----------------------------------------------------------------------------
(* What becomes of a row, and of what is known of an event.                *)

BothForeign(e, f) == Kind(e) = "foreign" /\ Kind(f) = "foreign"

\* What a step leaves alone: what kind an event is, and what is stored of it.
LEMMA StoredStays ==
  ASSUME Typed, [Next]_vars, NEW e \in Events
  PROVE  /\ Kind(e)' = Kind(e)
         /\ Stored(rows[e]) => Stored(rows'[e]) /\ rows'[e] = rows[e] /\ payload'[e] = payload[e]
<1>1. ASSUME NEW f \in Events, Happen(f) PROVE Kind(e)' = Kind(e) /\ UNCHANGED <<rows, payload>>
  BY <1>1 DEF Happen, Kind, Typed, TypeOK
<1>2. ASSUME NEW h \in Handlers, Answer(h) PROVE Kind(e)' = Kind(e) /\ UNCHANGED <<rows, payload>>
  BY <1>2 DEF Answer, Kind, Typed, TypeOK
<1>3. ASSUME NEW h \in Handlers, Put(h)
      PROVE  /\ UNCHANGED stripe
             /\ Stored(rows[e]) => rows'[e] = rows[e] /\ payload'[e] = payload[e]
  <2>1. CASE UNCHANGED <<rows, payload>>
    BY <1>3, <2>1 DEF Put
  <2>2. CASE ~Stored(rows[handler[h].event]) /\ Insert(h)
    BY <1>3, <2>2 DEF Put, Insert, Typed, TypeOK
  <2> QED
    BY <1>3, <2>1, <2>2 DEF Put
<1>4. ASSUME NEW h \in Handlers, Dedup(h) \/ FindParent(h) \/ Map(h) \/ Wakeup(h) \/ Expire(h)
      PROVE  UNCHANGED <<rows, payload, stripe>>
  BY <1>4 DEF Dedup, FindParent, Map, Wakeup, Expire
<1>5. ASSUME \/ \E f \in Events : Deliver(f)
             \/ Select \/ TimerFires \/ Scan \/ Spawn \/ Stop \/ Crash \/ Restart \/ UNCHANGED vars
      PROVE  UNCHANGED <<rows, payload, stripe>>
  BY <1>5 DEF Deliver, Select, Woken, TimedOut, TimerFires, Scan, CallsClaimBatch, Spawn, Stop,
              Crash, Restart, vars, intake
<1> QED
  BY <1>1, <1>2, <1>3, <1>4, <1>5 DEF Next, Serve, Kind

\* The first row of an event stands, with its payload: no concurrent, repeated or
\* late delivery of it, and no crash, changes them.
THEOREM FirstRowStands == Spec => FirstPutStays
<1>1. Typed /\ [Next]_vars =>
        [\A e \in Events : Stored(rows[e]) => rows'[e] = rows[e] /\ payload'[e] = payload[e]]_vars
  BY StoredStays
<1> QED
  BY <1>1, TypedInit, TypedStep, PTL DEF Spec, FirstPutStays
-----------------------------------------------------------------------------
(* What deliveries and rows may be relied on for.                          *)

\* What is stored of an event, acknowledged or announced: a foreign document
\* has a rate, a reversal its original's.
Entry(e) ==
  /\ Stored(rows[e]) /\ Kind(e) = "foreign" => payload[e] \in Rates
  /\ rows[e].parent # NoEvent =>
       /\ Stored(rows[rows[e].parent])
       /\ BothForeign(e, rows[e].parent) => payload[e] = payload[rows[e].parent]
  /\ AckedAt(e) => Stored(rows[e]) \/ Hopeless(e)
  /\ e \in announced => Stored(rows[e])

\* What a delivery has in its hands is what the store has, and it is about to
\* answer 200 only for what is stored or hopeless.
Hand(h) ==
  LET d == handler[h]
  IN  /\ d.pc \in {"get", "find"} => d.parent = NoEvent
      /\ d.pc \in {"rate", "put"} /\ d.parent # NoEvent =>
           /\ Stored(rows[d.parent])
           /\ BothForeign(d.event, d.parent) => d.rate = payload[d.parent]
      /\ d.pc = "put" /\ Kind(d.event) = "foreign" => d.rate \in Rates
      /\ d.pc = "wake" => Stored(rows[d.event])
      /\ d.pc = "ok" => Stored(rows[d.event]) \/ Hopeless(d.event)

Sound ==
  /\ \A e \in Events : Entry(e)
  /\ \A h \in Handlers : Hand(h)
  /\ NoLostWakeup

LEMMA SoundInit == Init => Sound
<1> SUFFICES ASSUME Init PROVE Sound
  OBVIOUS
<1>1. ASSUME NEW e \in Events PROVE Entry(e)
  BY DEF Init, Entry, Stored, AbsentRow, AckedAt
<1>2. ASSUME NEW h \in Handlers PROVE Hand(h)
  BY DEF Init, Hand, Idle
<1> QED
  BY <1>1, <1>2 DEF Init, Sound, NoLostWakeup

\* A delivery that does not move, or only expires, may be relied on as before.
LEMMA HandKept ==
  ASSUME Typed, Sound, [Next]_vars, NEW h \in Handlers,
         handler'[h] = handler[h] \/ handler'[h] = [handler[h] EXCEPT !.late = TRUE]
  PROVE  Hand(h)'
<1>1. /\ handler'[h].pc = handler[h].pc /\ handler'[h].event = handler[h].event
      /\ handler'[h].parent = handler[h].parent /\ handler'[h].rate = handler[h].rate
  BY DEF Typed, TypeOK, Delivery
<1>2. handler[h].pc = "idle" \/ handler[h].event \in Events
  BY DEF Typed, Busy
<1>3. handler[h].parent \in Events \cup {NoEvent}
  BY DEF Typed, TypeOK, Delivery
<1>4. Hand(h)
  BY DEF Sound
<1> QED
  BY <1>1, <1>2, <1>3, <1>4, StoredStays DEF Hand, BothForeign, Hopeless

\* Nor does one that has nothing left to say.
LEMMA HandFree ==
  ASSUME NEW h \in Handlers, handler'[h].pc \in {"idle", "unavailable"}
  PROVE  Hand(h)'
BY DEF Hand

LEMMA HandStep ==
  ASSUME Typed, Sound, [Next]_vars, NEW h \in Handlers
  PROVE  Hand(h)'
<1> DEFINE d == handler[h]
<1> DEFINE e == handler[h].event
<1>a. d \in Delivery
  BY DEF Typed, TypeOK
<1>b. d.pc # "idle" => e \in Events
  BY DEF Typed, Busy
<1>c. Hand(h)
  BY DEF Sound
<1>1. ASSUME NEW g \in Handlers, g # h, Expire(g) \/ Serve(g) PROVE handler'[h] = handler[h]
  BY <1>1 DEF Expire, Serve, Dedup, FindParent, Map, Put, Wakeup, Answer, Goes, Typed, TypeOK
<1>2. ASSUME Expire(h) PROVE Hand(h)'
  BY <1>2, HandKept DEF Expire, Typed, TypeOK
<1>3. ASSUME NEW f \in Events, Deliver(f) PROVE Hand(h)'
  <2>1. PICK g \in Handlers :
          handler' = [handler EXCEPT ![g] =
                        [Idle EXCEPT !.pc = IF Kind(f) = "ineligible" THEN "ok" ELSE "get",
                                     !.event = f]]
    BY <1>3 DEF Deliver
  <2>2. CASE g # h
    BY <2>1, <2>2, HandKept DEF Typed, TypeOK
  <2>3. CASE g = h
    <3>1. /\ handler'[h].pc = IF Kind(f) = "ineligible" THEN "ok" ELSE "get"
          /\ handler'[h].event = f /\ handler'[h].parent = NoEvent
      BY <2>1, <2>3 DEF Typed, TypeOK, Idle
    <3> QED
      BY <3>1, StoredStays DEF Hand, Hopeless
  <2> QED
    BY <2>2, <2>3
<1>4. ASSUME Dedup(h) PROVE Hand(h)'
  <2>1. PICK pc \in {"ok", "find", "rate", "unavailable"} :
          /\ Goes(h, pc)
          /\ pc = "ok" => Stored(rows[e]) \/ Kind(e) = "undecodable"
    BY <1>4 DEF Dedup, Proceed
  <2>2. handler'[h].pc = pc /\ handler'[h].event = e /\ handler'[h].parent = d.parent
    BY <1>a, <2>1 DEF Goes, Typed, TypeOK, Delivery
  <2>3. d.parent = NoEvent /\ e \in Events
    BY <1>4, <1>b, <1>c DEF Dedup, Hand
  <2> QED
    BY <2>1, <2>2, <2>3, StoredStays DEF Hand, Hopeless
<1>5. ASSUME FindParent(h) PROVE Hand(h)'
  <2>1. Original[e] \in Events
    BY <1>5 DEF FindParent, Typed, Busy
  <2>2. PICK parent, rate :
          /\ handler' = [handler EXCEPT ![h] = [@ EXCEPT !.pc = "rate", !.parent = parent, !.rate = rate]]
          /\ \/ parent = NoEvent
             \/ parent = Original[e] /\ Stored(rows[parent]) /\ rate = payload[parent]
    BY <1>5 DEF FindParent, ParentRate
  <2>3. /\ handler'[h].pc = "rate" /\ handler'[h].event = e
        /\ handler'[h].parent = parent /\ handler'[h].rate = rate
    BY <1>a, <2>2 DEF Typed, TypeOK, Delivery
  <2> QED
    BY <2>1, <2>2, <2>3, StoredStays DEF Hand
<1>6. ASSUME Map(h) PROVE Hand(h)'
  <2>1. e \in Events /\ d.pc = "rate" /\ d.parent \in Events \cup {NoEvent}
    BY <1>6, <1>a, <1>b DEF Map, Delivery
  <2>2. PICK pc \in {"ok", "put", "unavailable"}, rate \in Rates \cup {NoRate} :
          /\ handler'[h].pc = pc /\ handler'[h].event = e
          /\ handler'[h].parent = d.parent /\ handler'[h].rate = rate
          /\ pc = "ok" => Kind(e) \in {"unmappable", "unpriced"}
          /\ pc = "put" /\ Kind(e) = "foreign" => rate \in Rates
          /\ d.rate # NoRate \/ Kind(e) # "foreign" => rate = d.rate
    <3> DEFINE needed == Kind(e) \in {"foreign", "unpriced"} /\ d.rate = NoRate
    <3>1. d \in Delivery /\ d.rate \in Rates \cup {NoRate}
      BY <1>a DEF Delivery
    <3>2. ASSUME NEW rate \in Rates \cup {NoRate},
                 handler' = [handler EXCEPT ![h] =
                              [@ EXCEPT !.pc = IF Kind(e) = "unmappable" THEN "ok" ELSE "put",
                                        !.rate = rate]]
          PROVE  /\ handler'[h].pc = IF Kind(e) = "unmappable" THEN "ok" ELSE "put"
                 /\ handler'[h].event = e /\ handler'[h].parent = d.parent
                 /\ handler'[h].rate = rate
      BY <3>1, <3>2 DEF Typed, TypeOK, Delivery
    <3>3. ASSUME NEW pc \in {"ok", "unavailable"}, Goes(h, pc)
          PROVE  /\ handler'[h].pc = pc
                 /\ handler'[h].event = e /\ handler'[h].parent = d.parent
                 /\ handler'[h].rate = d.rate
      BY <3>1, <3>3 DEF Goes, Typed, TypeOK, Delivery
    <3>4. CASE ~needed /\ handler' = [handler EXCEPT ![h] =
                              [@ EXCEPT !.pc = IF Kind(e) = "unmappable" THEN "ok" ELSE "put",
                                        !.rate = d.rate]]
      BY <3>1, <3>2, <3>4
    <3>5. CASE needed /\ Kind(e) = "unpriced" /\ Goes(h, "ok")
      BY <3>1, <3>3, <3>5
    <3>6. CASE needed /\ Kind(e) = "foreign" /\ \E rate \in Rates :
                 handler' = [handler EXCEPT ![h] =
                              [@ EXCEPT !.pc = IF Kind(e) = "unmappable" THEN "ok" ELSE "put",
                                        !.rate = rate]]
      BY <3>1, <3>2, <3>6
    <3>7. CASE needed /\ Kind(e) = "foreign" /\ Goes(h, "unavailable")
      BY <3>1, <3>3, <3>7
    <3> QED
      BY <1>6, <3>4, <3>5, <3>6, <3>7 DEF Map
  <2>3. d.parent # NoEvent /\ BothForeign(e, d.parent) => d.rate # NoRate
    <3>1. d.parent # NoEvent => Stored(rows[d.parent]) /\ Entry(d.parent)
      BY <1>c, <2>1 DEF Hand, Sound
    <3> QED
      BY <1>c, <2>1, <3>1, WebhookAssumption DEF Hand, Entry, BothForeign
  <2>4. d.parent # NoEvent => Stored(rows[d.parent]) /\ (BothForeign(e, d.parent) => d.rate = payload[d.parent])
    BY <1>c, <2>1 DEF Hand
  <2> QED
    BY <2>1, <2>2, <2>3, <2>4, StoredStays DEF Hand, BothForeign, Hopeless
<1>7. ASSUME Put(h) PROVE Hand(h)'
  <2>1. e \in Events
    BY <1>7, <1>b DEF Put
  <2>2. PICK pc \in {"ok", "wake", "unavailable"} :
          /\ handler'[h].pc = pc /\ handler'[h].event = e
          /\ pc = "ok" => Stored(rows[e])
          /\ pc = "wake" => Insert(h)
    BY <1>7, <1>a DEF Put, Goes, Typed, TypeOK, Delivery
  <2>3. Insert(h) => Stored(rows'[e])
    BY <2>1 DEF Insert, Stored, NewRow, AbsentRow, Typed, TypeOK
  <2> QED
    BY <2>1, <2>2, <2>3, StoredStays DEF Hand
<1>8. ASSUME Wakeup(h) PROVE Hand(h)'
  <2>1. e \in Events /\ Stored(rows[e])
    BY <1>8, <1>b, <1>c DEF Wakeup, Hand
  <2>2. handler'[h].pc = "ok" /\ handler'[h].event = e
    BY <1>8, <1>a DEF Wakeup, Goes, Typed, TypeOK, Delivery
  <2> QED
    BY <2>1, <2>2, StoredStays DEF Hand
<1>9. ASSUME Answer(h) \/ Crash \/ Restart PROVE Hand(h)'
  <2>1. handler'[h].pc = "idle"
    BY <1>9 DEF Answer, Crash, Restart, Idle, Typed, TypeOK
  <2> QED
    BY <2>1, HandFree
<1>10. ASSUME \/ \E f \in Events : Happen(f)
              \/ Select \/ TimerFires \/ Scan \/ Spawn \/ Stop \/ UNCHANGED vars
       PROVE  handler' = handler
  BY <1>10 DEF Happen, Select, Woken, TimedOut, TimerFires, Scan, CallsClaimBatch, Spawn, Stop,
               vars, intake
<1>11. ASSUME Serve(h) PROVE Hand(h)'
  BY <1>4, <1>5, <1>6, <1>7, <1>8, <1>9, <1>11 DEF Serve
<1>12. handler'[h] = handler[h] => Hand(h)'
  BY HandKept
<1> QED
  BY <1>1, <1>2, <1>3, <1>9, <1>10, <1>11, <1>12 DEF Next

LEMMA EntryStep ==
  ASSUME Typed, Sound, [Next]_vars, NEW e \in Events
  PROVE  Entry(e)'
<1>a. Entry(e)
  BY DEF Sound
<1>b. rows[e].parent \in Events \cup {NoEvent}
  BY DEF Typed, TypeOK, Row
<1>1. ASSUME rows'[e] = rows[e], payload'[e] = payload[e], AckedAt(e)' => AckedAt(e),
             e \in announced' => e \in announced
      PROVE  Entry(e)'
  BY <1>1, <1>a, <1>b, StoredStays DEF Entry, BothForeign, Hopeless
<1>2. ASSUME NEW f \in Events, Happen(f) PROVE Entry(e)'
  <2>1. AckedAt(e)' => AckedAt(e)
    BY <1>2 DEF Happen, AckedAt, Typed, TypeOK
  <2> QED
    BY <1>1, <1>2, <2>1 DEF Happen, run
<1>3. ASSUME NEW h \in Handlers, Put(h) PROVE Entry(e)'
  <2>1. CASE UNCHANGED <<rows, payload>> \/ e # handler[h].event
    BY <1>1, <1>3, <2>1 DEF Put, Insert, AckedAt, Typed, TypeOK, run
  <2>2. CASE Insert(h) /\ ~Stored(rows[e]) /\ e = handler[h].event
    <3> DEFINE p == handler[h].parent
    <3>1. rows'[e] = NewRow(p) /\ payload'[e] = handler[h].rate /\ UNCHANGED <<stripe, announced>>
      BY <1>3, <2>2 DEF Insert, Put, Typed, TypeOK, run
    <3>2. Stored(rows'[e]) /\ rows'[e].parent = p
      BY <3>1 DEF NewRow, AbsentRow, Stored
    <3>3. p \in Events \cup {NoEvent}
      BY DEF Typed, TypeOK, Delivery
    <3>4. Hand(h) /\ handler[h].pc = "put"
      BY <1>3 DEF Sound, Put
    <3>5. p # NoEvent => Stored(rows[p])
      BY <3>4 DEF Hand
    <3>6. p # NoEvent => /\ Stored(rows'[p])
                         /\ BothForeign(e, p) => payload'[e] = payload'[p]
      BY <2>2, <3>1, <3>3, <3>4, <3>5, StoredStays DEF Hand
    <3>7. Kind(e) = "foreign" => payload'[e] \in Rates
      BY <2>2, <3>1, <3>4 DEF Hand
    <3> QED
      BY <3>1, <3>2, <3>6, <3>7 DEF Entry, BothForeign, Kind
  <2> QED
    BY <1>3, <2>1, <2>2 DEF Put
<1>4. ASSUME NEW h \in Handlers, Wakeup(h) PROVE Entry(e)'
  <2>1. CASE e = handler[h].event
    <3>1. Stored(rows[e])
      BY <1>4, <2>1 DEF Wakeup, Sound, Hand
    <3>2. UNCHANGED <<rows, payload, stripe>>
      BY <1>4 DEF Wakeup
    <3> QED
      BY <1>a, <1>b, <3>1, <3>2, StoredStays DEF Entry, BothForeign
  <2>2. CASE e # handler[h].event
    BY <1>1, <1>4, <2>2 DEF Wakeup, AckedAt
  <2> QED
    BY <2>1, <2>2
<1>5. ASSUME NEW h \in Handlers, Answer(h) PROVE Entry(e)'
  <2>1. CASE e = handler[h].event /\ handler[h].pc = "ok"
    <3>1. Stored(rows[e]) \/ Hopeless(e)
      BY <1>5, <2>1 DEF Sound, Hand
    <3>2. UNCHANGED <<rows, payload, announced>>
      BY <1>5 DEF Answer, run
    <3> QED
      BY <1>a, <1>b, <3>1, <3>2, StoredStays DEF Entry, BothForeign, Hopeless
  <2>2. CASE ~(e = handler[h].event /\ handler[h].pc = "ok")
    <3>1. AckedAt(e)' => AckedAt(e)
      BY <1>5, <2>2 DEF Answer, Acked, AckedAt, Typed, TypeOK
    <3> QED
      BY <1>1, <1>5, <3>1 DEF Answer, run
  <2> QED
    BY <2>1, <2>2
<1>6. ASSUME \/ \E h \in Handlers : Dedup(h) \/ FindParent(h) \/ Map(h) \/ Expire(h)
             \/ \E f \in Events : Deliver(f)
             \/ Select \/ TimerFires \/ Scan \/ Spawn \/ Stop \/ Crash \/ Restart \/ UNCHANGED vars
      PROVE  UNCHANGED <<rows, payload, stripe>> /\ (announced' = announced \/ announced' = {})
  BY <1>6 DEF Dedup, FindParent, Map, Expire, Deliver, Select, Woken, TimedOut, TimerFires, Scan,
              CallsClaimBatch, Spawn, Stop, Crash, Restart, vars, intake, run
<1>7. ASSUME UNCHANGED <<rows, payload, stripe>>, announced' = announced \/ announced' = {}
      PROVE  Entry(e)'
  BY <1>1, <1>7 DEF AckedAt
<1> QED
  BY <1>2, <1>3, <1>4, <1>5, <1>6, <1>7 DEF Next, Serve

\* Run has seen what was announced to it, or is about to look.
LEMMA WakeupStep ==
  ASSUME Typed, Sound, [Next]_vars
  PROVE  NoLostWakeup'
<1>a. NoLostWakeup /\ \A e \in announced : Stored(rows[e]) /\ e \in Events
  BY DEF Sound, Entry, Typed, TypeOK
<1>1. CASE Scan
  <2>1. announced \subseteq scanned'
    BY <1>1, <1>a DEF Scan, CallsClaimBatch
  <2> QED
    BY <1>1, <2>1 DEF Scan, CallsClaimBatch, NoLostWakeup
<1>2. CASE Select \/ Spawn \/ Stop \/ Crash \/ Restart
  BY <1>2, <1>a DEF Select, Woken, TimedOut, Spawn, Stop, Crash, Restart, NoLostWakeup, Working
<1>3. CASE \E h \in Handlers : Wakeup(h)
  BY <1>3 DEF Wakeup, NoLostWakeup
<1>4. ASSUME \/ \E h \in Handlers : Dedup(h) \/ FindParent(h) \/ Map(h) \/ Put(h) \/ Answer(h) \/ Expire(h)
             \/ \E e \in Events : Happen(e) \/ Deliver(e)
             \/ TimerFires \/ UNCHANGED vars
      PROVE  UNCHANGED <<token, loop, announced, scanned>>
  BY <1>4 DEF Dedup, FindParent, Map, Put, Answer, Expire, Happen, Deliver, TimerFires, vars, run
<1>5. ASSUME UNCHANGED <<token, loop, announced, scanned>> PROVE NoLostWakeup'
  BY <1>5, <1>a DEF NoLostWakeup
<1> QED
  BY <1>1, <1>2, <1>3, <1>4, <1>5 DEF Next, Serve

\* The inductive invariant.
LEMMA AlwaysSound == Spec => [](Typed /\ Sound)
<1>1. Typed /\ Sound /\ [Next]_vars => (Typed /\ Sound)'
  BY TypedStep, HandStep, EntryStep, WakeupStep DEF Sound
<1> QED
  BY <1>1, TypedInit, SoundInit, PTL DEF Spec

\* Stripe is told 200 only for what is stored, or for what no redelivery can mend:
\* with any number of deliveries at a time, in any order, and any failures.
THEOREM NothingAckedIsLost == Spec => []AckedIsSettled
<1>1. Typed /\ Sound => AckedIsSettled
  BY DEF Sound, Entry, AckedIsSettled
<1> QED
  BY <1>1, AlwaysSound, PTL

\* A reversal that found its original reverses it at the original's rate.
THEOREM ReversedAtOriginalRate == Spec => []StornoAtOriginalRate
<1>1. Typed /\ Sound => StornoAtOriginalRate
  <2> SUFFICES ASSUME Typed, Sound, NEW e \in Events, rows[e].parent # NoEvent,
                      {Kind(e), Kind(rows[e].parent)} = {"foreign"}
               PROVE  payload[e] = payload[rows[e].parent]
    BY DEF StornoAtOriginalRate
  <2>1. BothForeign(e, rows[e].parent)
    BY DEF BothForeign
  <2> QED
    BY <2>1 DEF Sound, Entry
<1> QED
  BY <1>1, AlwaysSound, PTL

\* No wakeup is lost, wherever Run is when it comes, and after any restart.
THEOREM WakeupsAreHeard == Spec => []NoLostWakeup
<1>1. Typed /\ Sound => NoLostWakeup
  BY DEF Sound
<1> QED
  BY <1>1, AlwaysSound, PTL
=============================================================================
