------------------------------ MODULE Webhook -------------------------------
(***************************************************************************)
(* The intake of stripenav.go: Stripe delivers events, each delivery is    *)
(* served by a goroutine of its own (ServeHTTP, processEvent), and the     *)
(* worker's Run loop is woken for what was stored.                         *)
(*                                                                         *)
(* Stripe is external.  It delivers an event until one delivery has been   *)
(* answered 200, several times at once and in any order if it likes.       *)
(* Requests that are no delivery of Stripe's (method, size, signature) are *)
(* left out, and of a submission's payload only the exchange rate is kept. *)
(***************************************************************************)
EXTENDS SubmissionStore

CONSTANTS Handlers,     \* goroutines serving deliveries
          Original,     \* the event whose invoice an event reverses, or NoEvent
          Kinds,        \* what kind of event each may turn out to be
          Rates,        \* the exchange rates of the days
          NoRate,       \* an empty exchange rate
          Faults,       \* what may go wrong in a run of the model ...
          MaxFaults     \* ... and how often

FaultKinds == {"store",      \* a call to the store fails
               "lost_put",   \* Put stores the row and reports a failure
               "rates",      \* the exchange rate provider fails
               "timeout",    \* AcceptTimeout passes during a delivery
               "lost_answer",\* the answer does not reach Stripe
               "replay",     \* an event is delivered again after it was answered 200
               "stop",       \* Shutdown is called
               "crash"}      \* the process dies

EventKinds == {"forint",      \* about a document in HUF
               "foreign",     \* ... in another currency
               "unpriced",    \* ... and no ExchangeRateProvider is configured
               "ineligible",  \* of a type the bridge does not report
               "undecodable", \* decodeInvoice or decodeCreditNote refuses it
               "unmappable"}  \* MapInvoice refuses it

ASSUME WebhookAssumption ==
  /\ Original \in [Events -> Events \cup {NoEvent}]
  /\ \A e \in Events : Original[e] # e
  /\ Kinds \subseteq [Events -> EventKinds] /\ Kinds # {}
  /\ NoRate \notin Rates
  /\ Faults \in SUBSET FaultKinds
  /\ MaxFaults \in Nat

VARIABLES rows,      \* the store
          payload,   \* the exchange rate in the stored payload of each event
          stripe,    \* each event at Stripe: its kind, and whether it is delivered
          handler,   \* the deliveries being served
          token,     \* the wakeup channel holds a signal
          timer,     \* the timer of MaxSleep; "fired" is a value in its channel
          loop,      \* where the Run loop is
          announced, \* events this process has called Wakeup for
          scanned,   \* events whose row was there when Run called ClaimBatch
          faults     \* how many faults there have been

intake == <<rows, payload, stripe, handler>>
run == <<token, timer, loop, announced, scanned>>
vars == <<intake, run, faults>>
-----------------------------------------------------------------------------
Delivery == [pc : {"idle", "get", "find", "rate", "put", "wake", "ok", "unavailable"},
             event : Events \cup {NoEvent}, parent : Events \cup {NoEvent},
             rate : Rates \cup {NoRate}, late : BOOLEAN]

Idle == [pc |-> "idle", event |-> NoEvent, parent |-> NoEvent, rate |-> NoRate,
         late |-> FALSE]

\* Run has not returned.  It is "stopped" when only the deliveries go on.
Working == {"select", "scan", "spawn"}

TypeOK ==
  /\ rows \in [Events -> Row]
  /\ payload \in [Events -> Rates \cup {NoRate}]
  /\ stripe \in [Events -> [delivery : {"ahead", "due", "acked"}, kind : EventKinds]]
  /\ handler \in [Handlers -> Delivery]
  /\ token \in BOOLEAN
  /\ timer \in {"running", "fired", "stopped"}
  /\ loop \in Working \cup {"stopped", "dead"}
  /\ announced \subseteq Events /\ scanned \subseteq Events
  /\ faults \in 0..MaxFaults

Init ==
  /\ rows = [e \in Events |-> AbsentRow]
  /\ payload = [e \in Events |-> NoRate]
  /\ stripe \in {[e \in Events |-> [delivery |-> "ahead", kind |-> k[e]]] : k \in Kinds}
  /\ handler = [h \in Handlers |-> Idle]
  /\ token = FALSE /\ timer = "running" /\ loop = "select"
  /\ announced = {} /\ scanned = {}
  /\ faults = 0

Fault(kind) == kind \in Faults /\ faults < MaxFaults /\ faults' = faults + 1

\* A call fails: of itself, or because the delivery's context has expired.
Fails(h, kind) == Fault(kind) \/ (handler[h].late /\ UNCHANGED faults)
Works(h) == ~handler[h].late /\ UNCHANGED faults

Kind(e) == stripe[e].kind
Due(e) == stripe[e].delivery = "due"
AckedAt(e) == stripe[e].delivery = "acked"

Goes(h, pc) == handler' = [handler EXCEPT ![h].pc = pc]
-----------------------------------------------------------------------------
(* Stripe.                                                                 *)

\* Something happens at Stripe; what it reverses has happened before.
Happen(e) ==
  /\ stripe[e].delivery = "ahead"
  /\ Original[e] # NoEvent => stripe[Original[e]].delivery # "ahead"
  /\ stripe' = [stripe EXCEPT ![e].delivery = "due"]
  /\ UNCHANGED <<rows, payload, handler, run, faults>>

\* A delivery arrives; an event of no interest is answered at once.
Deliver(e) ==
  /\ \/ Due(e) /\ UNCHANGED faults
     \/ AckedAt(e) /\ Fault("replay")
  /\ loop # "dead"
  /\ \E h \in Handlers :
       /\ handler[h] = Idle
       /\ handler' = [handler EXCEPT ![h] =
                        [Idle EXCEPT !.pc = IF Kind(e) = "ineligible" THEN "ok" ELSE "get",
                                     !.event = e]]
  /\ UNCHANGED <<rows, payload, stripe, run>>
-----------------------------------------------------------------------------
(* ServeHTTP and processEvent.                                             *)

\* AcceptTimeout passes: from here on every call of the delivery fails.
Expire(h) ==
  /\ handler[h].pc \in {"get", "find", "rate", "put"} /\ ~handler[h].late
  /\ Fault("timeout")
  /\ handler' = [handler EXCEPT ![h].late = TRUE]
  /\ UNCHANGED <<rows, payload, stripe, run>>

\* What a delivery does once Get has not found its event.
Proceed(e) ==
  IF Kind(e) = "undecodable" THEN "ok" ELSE IF Original[e] # NoEvent THEN "find" ELSE "rate"

\* processEvent asks the store whether it has the event already.
Dedup(h) ==
  LET e == handler[h].event IN
  /\ handler[h].pc = "get"
  /\ \/ Works(h) /\ Goes(h, IF Stored(rows[e]) THEN "ok" ELSE Proceed(e))
     \/ Fails(h, "store") /\ Goes(h, "unavailable")
  /\ UNCHANGED <<rows, payload, stripe, run>>

\* MUTANT: a storno is always converted at the rate of its own day.
FreshRate(parent) == NoRate

\* MUTANT: the rate is read from another element of the payload.
MisreadRate(parent) == IF Kind(parent) = "foreign" THEN rows[parent].next ELSE NoRate

\* The rate a storno takes over from the original's stored payload.
ParentRate(parent) == payload[parent]

\* findParentSubmission: a lookup that fails is a lookup that finds nothing.
FindParent(h) ==
  LET original == Original[handler[h].event]
      found(parent, rate) ==
        handler' = [handler EXCEPT ![h] = [@ EXCEPT !.pc = "rate", !.parent = parent,
                                                    !.rate = rate]]
  IN
  /\ handler[h].pc = "find"
  /\ \/ /\ Works(h)
        /\ IF Stored(rows[original]) THEN found(original, ParentRate(original))
           ELSE found(NoEvent, NoRate)
     \/ Fails(h, "store") /\ found(NoEvent, NoRate)
  /\ UNCHANGED <<rows, payload, stripe, run>>

\* rateFor, unless the original gave the rate, and MapInvoice.  The provider is
\* the embedder's: it may answer a delivery whose context has expired.
Map(h) ==
  LET e == handler[h].event
      needed == Kind(e) \in {"foreign", "unpriced"} /\ handler[h].rate = NoRate
      mapped(rate) ==
        handler' = [handler EXCEPT ![h] =
                      [@ EXCEPT !.pc = IF Kind(e) = "unmappable" THEN "ok" ELSE "put",
                                !.rate = rate]]
  IN
  /\ handler[h].pc = "rate"
  /\ \/ ~needed /\ mapped(handler[h].rate) /\ UNCHANGED faults
     \/ needed /\ Kind(e) = "unpriced" /\ Goes(h, "ok") /\ UNCHANGED faults
     \/ needed /\ Kind(e) = "foreign" /\ UNCHANGED faults /\ \E rate \in Rates : mapped(rate)
     \/ needed /\ Kind(e) = "foreign" /\ Fails(h, "rates") /\ Goes(h, "unavailable")
  /\ UNCHANGED <<rows, payload, stripe, run>>

Insert(h) ==
  LET e == handler[h].event IN
  /\ rows' = [rows EXCEPT ![e] = NewRow(handler[h].parent)]
  /\ payload' = [payload EXCEPT ![e] = handler[h].rate]

\* MUTANT: Put replaces what a concurrent delivery of the event stored.
BlindPut(h) ==
  /\ handler[h].pc = "put"
  /\ \/ Works(h) /\ Insert(h) /\ Goes(h, "wake")
     \/ Fails(h, "store") /\ Goes(h, "unavailable") /\ UNCHANGED <<rows, payload>>
  /\ UNCHANGED <<stripe, run>>

\* persistMapped: a delivery that finds the row stored meanwhile has nothing
\* left to do and does not wake the worker.
Put(h) ==
  LET stored == Stored(rows[handler[h].event]) IN
  /\ handler[h].pc = "put"
  /\ \/ Works(h) /\ ~stored /\ Insert(h) /\ Goes(h, "wake")
     \/ Works(h) /\ stored /\ Goes(h, "ok") /\ UNCHANGED <<rows, payload>>
     \/ Fault("lost_put") /\ ~stored /\ Insert(h) /\ Goes(h, "unavailable")
     \/ Fails(h, "store") /\ Goes(h, "unavailable") /\ UNCHANGED <<rows, payload>>
  /\ UNCHANGED <<stripe, run>>

\* MUTANT: the channel has no buffer, so that only a waiting Run is woken.
UnbufferedWakeup(h) ==
  /\ handler[h].pc = "wake"
  /\ loop' = IF loop = "select" THEN "scan" ELSE loop
  /\ announced' = announced \cup {handler[h].event}
  /\ Goes(h, "ok")
  /\ UNCHANGED <<rows, payload, stripe, token, timer, scanned, faults>>

\* Worker.Wakeup: a signal that is already there absorbs this one.
Wakeup(h) ==
  /\ handler[h].pc = "wake"
  /\ token' = TRUE
  /\ announced' = announced \cup {handler[h].event}
  /\ Goes(h, "ok")
  /\ UNCHANGED <<rows, payload, stripe, timer, loop, scanned, faults>>

\* MUTANT: every failure is answered 200.
AckAll(h) == handler[h].pc \in {"ok", "unavailable"}

\* The answer is 200 for what is stored and for what no redelivery can mend.
Acked(h) == handler[h].pc = "ok"

\* ServeHTTP answers 200 or 503.
Answer(h) ==
  LET e == handler[h].event IN
  /\ handler[h].pc \in {"ok", "unavailable"}
  /\ \/ Acked(h) /\ stripe' = [stripe EXCEPT ![e].delivery = "acked"] /\ UNCHANGED faults
     \/ ~Acked(h) /\ UNCHANGED <<stripe, faults>>
     \/ Fault("lost_answer") /\ UNCHANGED stripe
  /\ handler' = [handler EXCEPT ![h] = Idle]
  /\ UNCHANGED <<rows, payload, run>>
-----------------------------------------------------------------------------
(* Run, as far as its pacing goes, and the process.                        *)

\* MUTANT: the timer is stopped for a wakeup and set again only when it fires.
WokenUnset ==
  /\ loop = "select" /\ token
  /\ loop' = "scan" /\ token' = FALSE /\ timer' = "stopped"
  /\ UNCHANGED <<intake, announced, scanned, faults>>

\* select: a wakeup is received.  Stop empties the timer's channel, and Reset
\* starts the timer anew: what fired before cannot end the next wait.
Woken ==
  /\ loop = "select" /\ token
  /\ loop' = "scan" /\ token' = FALSE /\ timer' = "running"
  /\ UNCHANGED <<intake, announced, scanned, faults>>

\* select: MaxSleep has passed without a wakeup, or with one at the last moment.
TimedOut ==
  /\ loop = "select" /\ timer = "fired"
  /\ loop' = "scan" /\ timer' = "running"
  /\ UNCHANGED <<intake, token, announced, scanned, faults>>

Select == Woken \/ TimedOut

\* The timer fires, wherever Run is.
TimerFires ==
  /\ timer = "running"
  /\ timer' = "fired"
  /\ UNCHANGED <<intake, token, loop, announced, scanned, faults>>

\* claimAndProcess calls ClaimBatch, which works on the rows there are now.
CallsClaimBatch ==
  /\ loop = "scan"
  /\ loop' = "spawn"
  /\ scanned' = scanned \cup {e \in Events : Stored(rows[e])}
  /\ UNCHANGED <<payload, stripe, handler, token, timer, announced>>

\* What becomes of the claimed rows is Worker's part.  A call that fails is
\* logged, and its rows wait for the timer.
Scan == CallsClaimBatch /\ UNCHANGED rows /\ (UNCHANGED faults \/ Fault("store"))

\* It starts their lifecycles, and Run comes back to its select.
Spawn ==
  /\ loop = "spawn"
  /\ loop' = "select"
  /\ UNCHANGED <<intake, token, timer, announced, scanned, faults>>

\* Shutdown: Run's context is cancelled and Run returns.  Deliveries are served
\* as before, and what they announce nobody receives.
Stop ==
  /\ loop \in Working
  /\ Fault("stop")
  /\ loop' = "stopped" /\ timer' = "stopped"
  /\ UNCHANGED <<intake, token, announced, scanned>>

\* The process dies; its deliveries get no answer.
Crash ==
  /\ loop # "dead"
  /\ Fault("crash")
  /\ handler' = [h \in Handlers |-> Idle]
  /\ token' = FALSE /\ timer' = "stopped" /\ loop' = "dead" /\ announced' = {}
  /\ UNCHANGED <<rows, payload, stripe, scanned>>

\* Handler: the process is started again, with a channel and a timer of its own.
Restart ==
  /\ loop \notin Working
  /\ handler' = [h \in Handlers |-> Idle]
  /\ token' = FALSE /\ timer' = "running" /\ loop' = "select" /\ announced' = {}
  /\ UNCHANGED <<rows, payload, stripe, scanned, faults>>

Serve(h) ==
  Dedup(h) \/ FindParent(h) \/ Map(h) \/ Put(h) \/ Wakeup(h) \/ Answer(h)

Next ==
  \/ \E e \in Events : Happen(e) \/ Deliver(e)
  \/ \E h \in Handlers : Serve(h) \/ Expire(h)
  \/ Select \/ TimerFires \/ Scan \/ Spawn \/ Stop \/ Crash \/ Restart

Spec == Init /\ [][Next]_vars
-----------------------------------------------------------------------------
(* What the intake promises.                                               *)

\* Nothing a redelivery could mend: no row need ever come of the event.
Hopeless(e) == Kind(e) \in {"ineligible", "undecodable", "unmappable", "unpriced"}

\* Stripe is told 200 only for what is stored or hopeless: no delivery order,
\* duplicate, timeout or half-done Put loses an event (ServeHTTP, isPermanent).
AckedIsSettled ==
  \A e \in Events : AckedAt(e) => Stored(rows[e]) \/ Hopeless(e)

\* A row and its payload are written by one delivery; no concurrent or later
\* delivery of the event changes them (Get-then-Put, ErrAlreadyExists).
FirstPutStays ==
  [][\A e \in Events : Stored(rows[e]) =>
       rows'[e] = rows[e] /\ payload'[e] = payload[e]]_vars

\* A reversal that waits for its original reverses it at the original's rate
\* (processInvoice), whatever the rate is on the day it is delivered.
StornoAtOriginalRate ==
  \A e \in Events :
    LET parent == rows[e].parent IN
    parent # NoEvent /\ {Kind(e), Kind(parent)} = {"foreign"} => payload[e] = payload[parent]

\* A wakeup is never lost while Run runs: Run has called ClaimBatch with the row
\* it announces in the store, or will without waiting for the timer (Wakeup, Run).
NoLostWakeup == loop \in Working => announced \subseteq scanned \/ token \/ loop = "scan"
=============================================================================
