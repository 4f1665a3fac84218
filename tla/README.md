# A verification project for go-stripenav

go-stripenav receives Stripe webhooks and reports invoices to NAV Online Számla,
the Hungarian tax authority's interface. Every reportable event becomes one row
of a *submission store*; background workers, one in each replica of the
application, send the row to NAV, poll NAV's asynchronous processing and record
the outcome. A lost row is an invoice that was never reported, a second
registration is one reported twice, and a row rejected by mistake stays wrong
for ever. These modules say what the code promises about that, check it with
TLC on small instances, and prove what matters most with TLAPS for every size.

Line numbers below are of the files under `src/`.

## The system

| Component | Code | State | Operations |
|---|---|---|---|
| Status machine | `internal/submission/types.go` | a row's status | `Transition`, `IsTerminal` |
| Submission store | `internal/submission/types.go` (contract), `internal/storeinmem/store.go` | the rows, with claims and leases | `Put`, `Get`, `UpdateStatus`, `ClaimBatch`, `RenewClaim`, `ReleaseClaim`, `FindByInvoiceNumber` |
| Worker | `worker.go` | goroutines, their contexts and copies of rows | `Run`, `Wakeup`, `claimAndProcess`, `runLifecycle`, `renewLease`, `parentReady`, `attemptSubmit`, `pollStatus`, `markFailure`, `markPollFailure` |
| Webhook intake | `stripenav.go` | one goroutine per delivery | `ServeHTTP`, `processEvent`, `processInvoice`, `findParentSubmission`, `rateFor`, `persistMapped` |
| NAV client | `internal/navclient` | the rate limiter | `SubmitInvoice`, `AnnulInvoice`, `QueryTransactionStatus`, `ExchangeToken`, `do` |
| Handler lifecycle | `stripenav.go` | the cancel function of `Run`, its goroutine | `Handler`, `Shutdown` |
| Invoice mapping | `internal/invoicemap`, `credit_note.go` | none of its own; the chain of documents of an invoice, in the store | `MapInvoice`, `invoiceAsStorno`, `creditNoteAsInvoice`, `stripeInvoiceIssueTime`, `exchangeRateFromMapped` |
| Envelope and signatures | `internal/navclient` | none (pure) | request headers, SHA3-512 |

**How they interact.** A delivery asks the store for its event (`Get`), looks up
the original of a reversal (`FindByInvoiceNumber`), maps the document, stores a
row (`Put`) and signals the worker through a channel of capacity one
(`Wakeup`). `Run` scans on a signal or when its timer fires. A scan
(`ClaimBatch`) claims due rows for a lease and starts a *lifecycle* goroutine
for each, and each lifecycle starts a *renewer*. The lifecycle alternates
between NAV (through the shared client) and the store. Between replicas the
store is the only link. All lifecycles of a process share one NAV client and
its limiter.

**What is hard.** Any two calls of any two goroutines may have others between
them. A lifecycle acts on a copy of its row, across a wait of a poll interval.
`UpdateStatus` does not check the claim, so a lifecycle that has lost it still
writes. Processes die between NAV's registration and the write of the
transaction id. Answers are lost after they took effect, in both directions,
from NAV and to Stripe. Stripe duplicates, reorders and retries deliveries. A
reversal must wait for an original that may be in another replica's hands. The
limiter delays requests whose exchange token grows old meanwhile.
And all of it runs in one process that is shut down, killed and started again
while deliveries come in. `PROJECT.json` lists each of these hazards at its line,
with the properties that watch over it, or the reason why none does yet.

**What makes each component correct.**

* *Status machine and store*: an outcome is never revised, a transaction id is
  never replaced, a claim excludes other claims while its lease lasts.
* *Worker*: one goroutine at a time works on a row; a row in flight can be
  traced at NAV; accepted means NAV finished it; a reversal follows its
  original; nothing on record is sent again, and each failure costs one
  duplicate at most; every row comes to an outcome; retries slow down as
  configured; a transaction counts as accepted only when all of it is.
* *Webhook intake*: Stripe hears 200 only for what is stored or beyond repair,
  the first stored row stands, a reversal uses its original's exchange rate, no
  wakeup is lost.
* *The whole*: every event the bridge can report is brought to an outcome, from
  Stripe's first delivery on, through failures of either part.
* *Invoice mapping*: sums reconcile after rounding, a storno cancels its original
  to the forint, the reported rates, dates, positions and customer are the right
  ones whatever Stripe has set, and a truncated list is never reported as whole.
* *NAV client*: the rate is kept, a token is spent once and in time, an error
  that rejects a submission for good is true.

## The modules

| Module | Models | In terms of |
|---|---|---|
| `Submission` | statuses and `validTransitions`, with the short cut of `Transition` | operators |
| `SubmissionStore` | what each operation of the store does to a row | operators; extends `Submission` |
| `Worker` | any number of replicas' workers over one store, with NAV and failures | 19 actions; extends `SubmissionStore` |
| `WorkerProperties` | what the workers promise, the mapping to `Reporting`, and what the documentation says and the code does not do | properties; extends `Worker` |
| `Reporting` | the abstract specification: a submission follows one transaction to its outcome | 8 actions |
| `Webhook` | deliveries, Stripe, `Run`'s select with its timer, shutdown and restart | 17 actions; extends `SubmissionStore` |
| `Bridge` | one process with its deliveries, its `Run` loop and its lifecycles, and other replicas | compositions of the actions of `Worker` and `Webhook`; instantiates both |
| `Retry` | the numbers of a retry (`backoffFor`, `powInt`, defaults) and the reading of a transaction (`overallStatus`) | 6 actions and the functions they use |
| `NavClient` | callers of the client, limiter, exchange tokens, answers, time | 9 actions |
| `InvoiceMap` | the documents of one invoice: amounts, rates, dates, positions, customer | 3 actions and the pure functions they use |
| `MC...` | small instances for TLC | |
| `WorkerProofs` | type correctness, what a step may do to rows, NAV and lifecycles, the inductive invariant `Truthful` and six safety properties | theorems |
| `WorkerClaimProofs` | the inductive invariant `Exclusive` and three more; the workers refine `Reporting`; what a duplicate costs | theorems |
| `RetryProofs` | type correctness and the three properties of retries | theorems |
| `WebhookProofs` | type correctness and the four properties of the intake | theorems |
| `BridgeProofs` | the bridge refines both its parts, and what follows for it as a whole | theorems |
| `NavClientProofs` | type correctness and the four properties of the client | theorems |
| `InvoiceMapLemmas` | what rounding, sums, rates, pages and reversals do to amounts | lemmas |
| `InvoiceMapProofs` | type correctness and the seven properties of the documents | theorems |

Definitions keep the source's names. Those marked `MUTANT` are plausible bugs
that no specification uses; `PROJECT.json` says which property each of them
breaks when it takes the place of the definition it stands beside.

### Correspondence with the code

*Store.* Each store method holds the store's lock from its first read to its
last write (`storeinmem/store.go`), so each is one step wherever it is used, and
the store is a function from events to rows. `Mutated` and `Transitioned`
together are `UpdateStatus` with the worker's mutators: a refused transition
drops every change the mutator made, an accepted one writes them all. Times are
kept as far as code compares them: `NextAttemptAt` is due, soon (within the
poll interval, so the lifecycle waits in place) or later (it returns and a scan
finds the row); a lease is valid or expired. Rows survive crashes, as the
contract in `types.go` asks of a store; the in-memory store does not.

*Worker.* The state `lc` holds for each lifecycle the call it is in (`pc`),
whether its lease context is live, whether a renewal outlives it, and the
result and transaction id in its hands. Actions, in the code's order:
`ClaimBatch` (claimAndProcess), `ParentReady`, `Submit` and `Reply`
(attemptSubmit before and after NAV has the request), `Poll`, `UpdateStatus`,
`Get` (the re-read and the switch over what it finds), `Release` (the deferred
release, on a context of its own, after `renewDone.Wait`), `Abandon` (any call
under a cancelled context), `Renew` and `EndRenew` (renewLease). The wait of up
to a poll interval between `Get` and the next round has no state of its own:
any number of steps may come between them, and the round starts from the copy
`Get` read. A call made before the context was cancelled may still take effect,
a later one may not. The environment is `Put`, `NavDecide`, `TimePasses`,
`LeaseLapse`, `LateRenewal`, `Crash`, `Stop` and `Restart`.

*Webhook.* `handler[h].pc` is the call a delivery comes to next. `Dedup`,
`FindParent`, `Map` (rate and mapping), `Put`, `Wakeup`, `Answer` follow
`processEvent` and `processInvoice`; `Expire` is `AcceptTimeout`, after which
calls fail. `Woken` and `TimedOut` are the two ways out of `Run`'s select,
`Scan` is `ClaimBatch`, `Spawn` the start of lifecycles. `timer` is the timer of
`MaxSleep`, which fires wherever `Run` is; its Stop, drain and Reset are part of
`Woken`, as `go.mod` asks for a Go whose timers leave nothing behind after Stop.
`Stop` is `Shutdown`: `Run` returns, and deliveries go on. `Restart` is
`Handler`, built after the embedder has stopped serving the old one. Of which
kind an event turns out to be (in forint, foreign, with no rate provider,
ineligible, undecodable, unmappable) is decided in `Init`, so that every class
of permanent and transient error is in a run.

*Bridge.* Every step of `Bridge` is a step of `Webhook`, of `Worker`, or of both
where the code of both is one call: `HomeScan` (`claimAndProcess` is the scan of
one and the claim of the other, or an empty batch, or an error), `HomeStop`
(`Shutdown`), `HomeCrash`, `HomeRestart` (`Handler`). `Worker` alone lets any
event be stored at any time (`Worker!Put`); here only a delivery of `Webhook`
stores one. `Home` is the process Stripe delivers to; of other replicas only the
workers are seen. `Webhook`'s failures are `Mishaps` there, counted apart from
`Worker`'s.

*Retry.* One row. `Fail` and `GiveUp` are the two ends of `markFailure` and of
`markPollFailure`, `Submit` and `Poll` the successes of `attemptSubmit` and
`pollStatus`. `failed` records how far the last failure put the row off; the code
keeps no such value, and no guard reads it. Delays are integers, and the jitter is a number of tenths from 8 to
12 where the code draws a real number between them. `Doublings` is the loop of
`powInt` with its early exit, as a recursive function. NAV's operations go their
ways while the row is polled, and after.

*NavClient.* One tick is the limiter's interval. `Queues` is `limiter.Wait`'s
reservation, `Send`, `Arrive` and `Answered` the request on its way, with
`Outcome` and `Retriable` the classification of `do` and `newNAVError`.
`TurnedAway` is an answer, of any status, of something that did not pass the
request on to NAV. Of a gateway that did, it is assumed that it puts nothing but a
5xx in the place of NAV's answer: a 4xx would count as final
(`client.go:307-311`). `Cancel` gives a reservation back as `rate.Limiter` does:
only when it is the last one. `AnnulInvoice` takes the submission's path and is one more caller.

*InvoiceMap.* `invoice` is the invoice as Stripe has it, with all lines, and
`reported` the documents stored for it. `Finalized`, `Reversed` and `Credited` are
`processInvoice` and `processCreditNote` from the decoded event to `Put`, with a
rate provider that answers and a store that stores (their failures are in
`Webhook`). The lookup of a storno's original may fail, and the storno is then
converted at a rate of its own (`Parents`, `StornoRate`). A document that cannot be mapped is a permanent error and leaves no row. The code
computes with `big.Rat`; the model with integers: amounts in minor units,
percentages in hundredths, a rate as a fraction, forint amounts multiplied out
and rounded where the code renders them (`Rounded` is `roundToInt`, half away
from zero by way of `QuoRem`). The six decimals of a reported rate are
`RateScale`, a constant, 100 in the runs. `Embedded` is the first page of lines
that an event carries. An instant is a number of
hours of UTC: the provider is asked with it (`IssueTime`), and the document
shows its day in the fixed zone UTC+2 (`LocalDate`). Of tax ids the model has the
kind and the value, in Stripe's order. A percentage has its hundredths and a
minus sign of its own, since `FloatString` renders a small negative ratio as
"-0.00", which is a row apart.

## What the runs check

Every property has a mutant in `PROJECT.json` that breaks it.

| Run | Instance | What it shows |
|---|---|---|
| `worker_claims` | 1 event, 2 replicas, 2 coexisting lifecycles each, up to 3 of: failing call, lost answer, store failure, crash, shutdown | `OneLifecyclePerRow`, `RenewalHoldsClaim`, `NoResubmission`, `NoDuplicateSubmission` |
| `worker_late` | the same, one late renewal, store failure, lost answer or crash; fair | what holds even without a claim: `InFlightCarriesTransaction`, `AcceptedMeansFinished`, `TransactionWriteOnce`, `TerminalIsFinal`; and `Settled`, `ClaimsEnd` |
| `worker_chain` | an invoice and its storno, 1 replica, 1 store failure; fair (258 000 states) | `StornoAfterParent`, `AbortedMeansParentFailed`, `ImplementsReporting`, and `Settled` through a parent's failure or delay |
| `webhook` | an invoice and its storno, both foreign; the storno's rates gone; the invoice unmappable; or neither reportable (ineligible, undecodable); 2 deliveries at a time, 2 faults of 8 kinds (1.3 million states) | `AckedIsSettled`, `StornoAtOriginalRate`, `NoLostWakeup`, `FirstPutStays` |
| `bridge_live` | 1 event, the process and another replica, one failure of the workers and one of the intake; fair (161 000 states) | `ImplementsWorker`, `ImplementsIntake`, `EventuallyReported` |
| `retry` | 5 configurations, 10 attempts, 2 operations, `powInt` ending at 130 (58 700 states) | `DelayIsExponential`, `RetriesSlowDown`, `AcceptanceStands` |
| `nav_client` | 3 callers, burst 1, 3 tokens, 1 fault (909 000 states) | `WithinRate`, `TokenUsedOnce`, `TokenInTime`, `FinalMeansUnregistered` |
| `invoice_map` | 152 invoices with 0 to 3 lines, pages of 2 lines, 2 instants of one UTC day and two Hungarian ones; chains of 3 documents (51 900 states) | `SumsHold`, `StornoCancels`, `StornoFollowsOriginal`, `LegalRateShown`, `NothingUnderreported`, `RateOfIssueDate`, `CustomerByBestId` |

Four more runs each end in a counterexample to something the documentation
says; see *Findings*.

**Bounds.** `MaxFaults` bounds failures, `MaxTokens` exchanged tokens; nothing
else is cut off, since rows are final in the end. (NAV may register a
submission again only after a fault, which bounds `nav`.) The interesting
cases need little: two replicas and two lifecycles of one worker make every
pair of goroutines that can meet on a row; a chain is one reversal and one
original, as no reversal of a reversal exists; a fault of each kind, alone,
puts a failure between any two steps, and three together (`worker_claims`)
cover a failure met while recovering from another. `BatchLimit` 1 with two
events makes the oldest-first rule matter. In `bridge_live` one event is enough:
what it takes for an event to be forgotten is a delivery, a scan and a restart
in the wrong order, not another event; the two failures may be a shutdown or a
crash in each part, of the whole process or of the other replica, a refused
delivery or a failing scan. In `retry`, `powInt` ends at 130 instead of 1e18 and
comes to its end at the ninth attempt; `CeilingAssumption` says what makes that
harmless, there as in the code. The configurations set both delays, one, the
other, none, and a cap below the first delay. In `nav_client`, `Validity = 7` is
the least value that `Ample` allows for three callers and one fault: with 6,
TLC finds an expired token. The symmetry sets permute workers, lifecycle
numbers, handlers or callers, and no liveness is checked under symmetry.

In `invoice_map` three documents are enough for an original and two reversals, and
for a reversal with a credit note before it. The two instants are noon and 23:00
UTC of one day, when the next has begun in Hungary. The lines have every VAT rate, tax
included and excluded, discounts, two taxes on one line, no tax, and amounts so
small that the tax rounds; the quotes give forint amounts with halves. Invoices
lack a number, a currency, lines or any of the dates, in all combinations of
dates. `LegalRateShown` starts at 128 minor units: the rate is derived from amounts
Stripe has rounded, and below that a line of 0.50 at 27 % shows 28 %. The
rates of `invoice_map` are ones that a document shows exactly; `invoice_rate` has
one that it does not. Customers have up to two tax ids, in either order, of
different kinds or of one.

`StornoFollowsOriginal` speaks of the first modification of an invoice: what the
positions of a later one are is the finding of `invoice_chain`. `RateOfIssueDate`
says that the provider is asked with an instant of the day the document shows.
What it answers is its own: one that quotes for the UTC day of the instant gives,
from 22:00 to 24:00 UTC, the rate of the day before. `StornoCancels` promises the
forint amounts only of a storno that found its original, and the amounts in the
invoice's currency of every storno.

**Deadlock.** The instances of `Worker` stop when every row is final and no
fault is left, those of `InvoiceMap` when `MaxDocuments` documents are stored,
those of `Bridge` when besides that every event is answered, and those of `Retry`
when the row is final and NAV has nothing left to process, so their
configurations say `CHECK_DEADLOCK FALSE`. In `webhook` and `nav_client` deadlock
is checked.

**Fairness.** `Worker!FairSpec` assumes: a lifecycle's calls return
(`WF Step`, `WF EndRenew`: every call has a context with a deadline or is
local); `Run` scans again at least every `MaxSleep` and its scans claim what is
due (`WF ClaimBatch`); the clock advances and leases lapse
(`WF TimePasses`, `WF LeaseLapse`); a dead process is started again
(`WF Restart`); NAV decides in the end (`WF NavDecide`). Failures are never
fair, and their number is bounded. `Bridge!FairSpec` says the same of the
lifecycles, and of the rest: deliveries proceed (`WF Serve`), the loop of `Run`
proceeds and its timer fires (`WF Pace`, `WF HomeScan`, `WF TimerFires`: nothing
is assumed of a wakeup), the process is started again, and Stripe redelivers:
strong fairness of `Deliver`, since all handlers may be busy in between, for as
long as an event is unanswered, as Stripe's retry schedule does for days.
Nothing is asked of other replicas' loops: the process finds all rows by itself.

**Refinement.** `ImplementsReporting` maps a row to its status, parent and
transaction and keeps `nav`. Claims, leases, copies, retries, shutdowns and
crashes are invisible in `Reporting`: each step of the workers is one of its
steps or none, while leases are renewed in time. `ImplementsWorker` maps `Bridge`
to `Worker` by forgetting the intake: whatever deliveries do, they are to the
workers no more than `Worker!Put`, so every safety property of `Worker` holds of
the bridge. `ImplementsIntake` maps it to `Webhook` by forgetting what became of
a row: `Received` keeps that it is there, and its parent. It holds because no
worker ever adds, removes or re-parents a row.

## What is proved

Theorems hold for any numbers of events, workers and faults. They rest on
`StoreAssumption` (null values are no members, the batch limit is positive),
`WorkerAssumption`, `WebhookAssumption`, `NavClientAssumption`,
`InvoiceMapAssumption` and `RetryAssumption` (types of the constants; no event
reverses itself), `CeilingAssumption` (`powInt` ends beyond every cap),
`BridgeAssumption` (those of both parts, and the process is one of the
replicas), and where it says so on `Timely`, no `"late_renewal"` among the
faults, or on `StripeTaxes` or `ExactQuotes`, below.

* `WorkerProofs` begins with `TypeCorrect`. It also states, once, what any step may
  do to one row (`RowHistory`), to NAV (`NavHistory`) and to one lifecycle
  (`HandHistory`); the later proofs split on these few cases.
* `WorkerProofs`, further: `Truthful` is inductive. The properties of rows alone
  are not: a row becomes accepted because of what a lifecycle has in its hands,
  which was read from NAV earlier, for a transaction the row may have had then.
  So `Truthful` says of rows *and* of lifecycles that what they claim is true:
  a hand that will write `accepted` names a finished transaction, the one the
  row names; one that will write `submitted` names a transaction registered for
  the row's event; one that submits has seen an accepted parent; one that
  aborts, a failed parent. All of this survives the steps of others because a
  stored row keeps its parent, an outcome stands, a row past pending keeps its
  transaction and NAV's verdicts stand (`RowsMoveOn`, `NavMovesOn`). It needs no
  claim, hence no assumption on time: `Traceable`, `AcceptanceIsReal`,
  `ParentsFirst`, `AbortsAreJustified`, `TransactionsStay`, `OutcomesStand`.
* `WorkerClaimProofs`, under `Timely`: `Exclusive` says that a lifecycle at work
  or renewing has a valid claim of its own worker, that no two work on one row,
  and that one on its way to submit has a pending row. A scan cannot take such
  a row, and only the lifecycle itself writes it. From it `ClaimsExclude`,
  `RenewalsMeetNoRelease` and, with `Truthful`, `NothingResubmitted`.
* `WorkerClaimProofs`, further, under `Timely`. `WorkersReport`: a step that changes a row or
  NAV is one of few (`RowHistory`, `NavHistory`), and `Truthful` and `Exclusive`
  say that each is a step `Reporting` allows: a row becomes accepted only with
  a finished transaction of its own, and what is submitted is pending. For
  `DuplicatesCostFailures` the invariant `Spent` keeps the account: while an
  unsent row has transactions at NAV, either a lifecycle at work still carries
  the last of them, or each of them has cost a failure.
* `WebhookProofs`, for any number of deliveries, kinds of events and failures.
  `Sound` is inductive: `Entry` says of an event that Stripe counts as delivered,
  that is announced to the loop or that has a parent what must be stored of it;
  `Hand` says of each delivery what the answers it has had so far entitle it to;
  `NoLostWakeup` relates the announcement to the channel and the loop. The three
  lean on each other: Stripe's answer is only as true as the hand it comes
  from. From it `NothingAckedIsLost`, `ReversedAtOriginalRate`,
  `WakeupsAreHeard`; `FirstRowStands` needs the types only.
* `BridgeProofs`: `Tracking` says that the types of both parts hold of the
  composition and that a delivery stores an event with the parent it reverses
  or none (`Fits`), which is what `Worker!Put` may do. So each step of the
  intake is a `Put` or a stutter of `Worker` (`WorkersUnaware`), and each step
  of a worker leaves `Received` as it is (`WorkAddsNothing`, of `WorkerProofs`),
  hence is a stutter of `Webhook` (`IntakeUndisturbed`). With the two, what is
  proved of either part is proved of the bridge, from Stripe's delivery to NAV's
  verdict: `RowsTellTheTruth`, `NothingIsRevised`, `IntakeKeepsItsWord`, and under
  `Timely` `OneWorkerAtATime` and `BridgeReports`. `StoredForGood` takes both
  parts at once: no delivery and no worker ever changes the parent and the rate a
  row was stored with. `W` and `P` there are one specification under two names,
  without and with its theorems, and so are `I` and `J`. The `ENABLED` in
  `NothingClaimable` is never expanded: a scan without a batch changes no row,
  whatever the reason.
* `NavClientProofs`, for any number of callers, any burst, latency and number of
  faults: `RateIsKept` by `Slots`, which gives each waiter a tick of its own and
  accounts for the bucket, what NAV has received and what may go now in one
  sum; `TokensStayFresh` by `Debt` (the limiter's queue is no longer than those
  who wait in it and those who were cancelled out of it) and `Fresh` (a token's
  age is bounded by what its call has been through); `TokensAreSpentOnce` by
  `Owned` (a token is in one call's hands); `FinalErrorsAreTrue` by `Told`.
* `RetryProofs`, for any configuration, any suitable ceiling and any numbers of
  attempts and operations. `Doublings` is a power of two up to the ceiling, and
  past it both it and the power exceed every cap, so the early exit never shows
  (`DelaysDouble`). A delay and its double stay apart however the jitter falls
  (12 tenths of the one are less than 8 of the other), and the cap, which comes
  last, keeps their order. That alone compares two failures in a row. For
  `FailuresSlowDown` the invariant `Bounded` says that the last failure's delay is
  at most the longest for the number of attempts so far: `Attempts`
  never goes down, in a success neither, so whatever comes between two failures
  only moves the later one further off. `AcceptancesStand`: a row
  accepted has heard of every operation that it is done, and `overallStatus`
  looks at all of them.
* `InvoiceMapLemmas` and `InvoiceMapProofs`, for any invoices, any number of
  lines, any amounts, quotes, dates and page size. `Rounded` is an odd function
  (`RoundedIsOdd`), hence `ReversalIsExact`: negated amounts are reported as exactly
  the opposite amounts, at any rate. A sum of rounded parts is as far from the
  rounded sum as half a unit for each part, and rows that partition the lines have
  the lines' sums: hence `DocumentsAddUp`. For the properties of documents the
  invariant `IInv` says that each document comes from `MapInvoice` on a
  well-formed input, and `StepAdds` that each step adds one from a checked input
  whose rate and origin are known (`Adds`, `Source`): from it `TypeCorrect`,
  `RatesOfIssueDates` (the two derivations of the instant agree, so that the one
  asked with is of the day shown, and a rate read back from a document is
  printed as it was read), `StornosNumberOn` (of an original, and a storno with no
  other modification before it), `CustomersByBestId` (an id has the index of the
  first of its kind, and no kind before it in rank has any) and `WholeInvoiceReported` (what is mapped is never a
  page of a longer list).
  `StornosCancel` needs besides that an original, once stored, stays the
  invoice's only one and was mapped from its lines (`Originals`), and supposes
  `ExactQuotes`: every quote is a number of six decimals (of `RateScale`, in the
  model). That is not the code's to ensure, and `invoice_rate` is the
  counterexample without it. `RatesOfTheLaw` supposes `StripeTaxes`: each tax is
  what one of the legal rates makes of its base, to a minor unit. Stripe computes
  the tax, and the bridge only divides it back. TLC checks on the instances that
  the invoices satisfy the one, the quotes of `invoice_map` the other and those
  of `invoice_rate` not (`MCInvoiceMapAssumption`).

**Induction.** An induction rule that takes a predicate as a parameter cannot be
used by these provers. `InvoiceMapLemmas` and `RetryProofs` state induction for a
set instead: a set of sets that has every set whose proper subsets it has, has
them all (`FiniteInduction`, from the well-foundedness of strict inclusion on
finite sets), and likewise `InductionOnNat`. So sums over any number of lines and powers of two are
within reach. The sums of the community modules are recursive functions, and that
such a function exists at all is proved first.

Every invariant, every action property and every refinement that a passing run
checks is the conclusion of a theorem. Only model-checked is liveness
(`Settled`, `ClaimsEnd`, `EventuallyReported`), which with fairness and `ENABLED`
is beyond the prover.

## Findings

Each is a run that TLC ends with a counterexample.

* `worker_lost_reply`: `worker.go:621-623` says of a retriable failure that
  nothing reached NAV. A lost answer is a retriable failure, and NAV has the
  submission. `NoDuplicateSubmission` gives the exact price: one more
  transaction for each failure.
* `bridge_order`: `README.md:150-151` says that a storno waits for its original.
  It does when the original's row is found at the moment the storno is stored,
  and does not when deliveries come out of order, as in the run, or the lookup
  fails.
* `invoice_rate`: `stripenav.go:379-382` says that a storno reverses the original's
  forint amounts exactly, with the rate read back from the original's document.
  The document shows six decimals of a rate that the amounts were computed
  with in full (`invoicemap/mapping.go:161`). Where the provider's rate has more
  decimals, as one for a currency of small units may, the amounts differ.
* `invoice_chain`: `invoicemap/mapping.go:473-476` says that each submission takes
  the next free positions of the chain, and the code counts from the original's
  lines alone. An invoice marked uncollectible and later voided has two stornos
  with the same positions; a storno that follows a credit note takes the credit
  note's. (`README.md:347-371` says similar things of credit notes, none of
  stornos.)

Two more things the documentation says are narrower in the code, and the models
follow the code.

* `worker.go:303-308` says that a lifecycle stops touching shared state at once when
  its claim is gone. It stops when a renewal is attempted and fails
  (`README.md:132-135` says so), and writes until then, as it does in
  `worker_late`. What keeps this harmless is the status machine, as that run and
  the theorems of `WorkerProofs` show.
* `README.md:121-123` says that a store failure is answered 503. In
  `findParentSubmission` it is taken for "not found", deliberately, as the comment
  there says: the storno is stored without parent and at a rate of its own, so it
  neither waits for its original (`StornoWaitsForOriginal`) nor need cancel its
  forint amounts (`StornoCancels`), and a redelivery cannot mend that.

## What is not modelled, and why

* Stripe's signatures, request limits and decoding: stateless checks before the
  modelled code; an event that fails them is `undecodable` or never arrives.
* Of `invoicemap`: addresses, descriptions, delivery periods, payment dates and
  methods, the supplier, null entries in Stripe's lists, and credit notes whose
  invoice is not expanded in the event (the mapper refuses them for want of the
  original's number). `Webhook` keeps of the mapping whether it refuses a
  document and which rate it is given.
* The request envelope, signatures, token decryption and XML schemas: pure,
  covered by fixed vectors in the tests.
* `Worker.Tick`, a driver for tests; metrics, logs and the deadline alarm,
  which no step reads; `validateConfig` and `nav.Config`'s checks; a bridge with
  `DisableWorker`, which is a `Webhook` whose `Run` never works.
* `LastError`, and that a late poll failure may still change it, and `Attempts`,
  in a final row. `Worker` draws delays from a small set and `Retry` says which
  they are; `Worker`'s transactions have one operation, as the bridge's do, and
  `Retry`'s more.
* Deliveries to a handler that has been replaced: `Webhook!Restart` ends them.
  Lifecycles that outlive `Shutdown` do go on beside the new ones.
* The age of a request's timestamp when NAV gets it, for which the repository
  names no limit.
* The in-memory store's loss of everything on a restart, which its documentation
  states; the mutant `VolatileCrash` of `Bridge` is that store.

## Plan

Built in this order, the most important behaviour first: status machine and
store, workers and their proofs, the abstract specification, the intake, the
NAV client and its proofs, the invoice mapping and its proofs, the bridge as
the composition of intake and workers, the numbers of `Retry`, the proofs about
the intake, the refinements, and the proofs about retries, sums and rates and
about the bridge as a whole. Next:

1. The age of a request in `NavClient`: the queue bounds it as it bounds a
   token's, once a tolerance of NAV's is known.
2. `Attempts` and `LastError`, in `Worker`: a late failure may change them in a
   row that is final.
3. What NAV refuses: the second reversal of one invoice for its number
   (`stripenav.go:351`) or for its positions, and credit notes that overtake their invoice
   (`stripenav.go:502`).
