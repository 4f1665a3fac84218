----------------------------- MODULE NavClient ------------------------------
(***************************************************************************)
(* The NAV client of one process (internal/navclient), shared by all of    *)
(* its lifecycles.  A submission takes two requests, one for an exchange   *)
(* token and one that spends it; a status query takes one.  Each request   *)
(* waits its turn at the client's rate limiter.                            *)
(*                                                                         *)
(* One tick of the clock is the limiter's interval, a second by default.   *)
(* The clock does not move while a goroutine can: what takes time is the   *)
(* limiter's queue and the way to NAV and back.  NAV and rate.Limiter are  *)
(* external.  The annulment call goes the way of the submission.           *)
(***************************************************************************)
EXTENDS Integers, Sequences, FiniteSets

CONSTANTS Callers,    \* goroutines that call the client
          Limited,    \* DisableRateLimit is not set
          Burst,      \* RateBurst
          Latency,    \* ticks a request and its answer may take together
          Validity,   \* ticks an exchange token is good for
          MaxTokens,  \* how many tokens are exchanged in a run of the model
          Faults,     \* what may go wrong ...
          MaxFaults   \* ... and how often

FaultKinds == {"cancel",   \* the caller's context is cancelled
               "lost",     \* the connection breaks or the call times out
               "garbled",  \* an answer with status 200 does not parse
               "gateway"}  \* an answer that is not NAV's comes in place of NAV's

ASSUME NavClientAssumption ==
  /\ IsFiniteSet(Callers)
  /\ Limited \in BOOLEAN
  /\ {Burst, Validity, MaxTokens} \subseteq Nat \ {0}
  /\ {Latency, MaxFaults} \subseteq Nat
  /\ Faults \in SUBSET FaultKinds

VARIABLES call,    \* the call each goroutine is in, or was in last
          bucket,  \* the limiter's tokens; below zero are reservations
          tokens,  \* the exchange tokens NAV issued: age, and how often spent
          meter,   \* requests NAV got beyond one for each tick, of a limited client
          faults

vars == <<call, bucket, tokens, meter, faults>>
-----------------------------------------------------------------------------
(* What an answer means.                                                   *)

\* retriableErrorCodes: codes that are listed either way, and all others.
Codes == {"transient", "final", "unlisted"}

\* An answer: its HTTP status, and whether its body is a result or exception
\* of NAV's with a funcCode ("OK", "ERROR") and an error code, or is neither.
Answers == [status : {200, 400, 500}, func : {"OK", "ERROR", "none"}, code : Codes]

\* MUTANT: a code that is not listed is not worth a retry, whatever the status.
RetriableIfListed(answer) == answer.code = "transient"

\* newNAVError: 5xx is retriable unless the code is listed the other way.
Retriable(answer) ==
  answer.code = "transient" \/ (answer.code = "unlisted" /\ answer.status >= 500)

\* MUTANT: the error's code is handed on in place of its class.
OutcomeByCode(answer) ==
  IF answer.status < 400 /\ answer.func = "OK" THEN "ok" ELSE answer.code

\* do: what the caller gets.  An error that is no NAVError counts as retriable
\* (attemptSubmit, pollStatus), and so does an answer that does not parse.
Outcome(answer) ==
  IF answer.status < 400 /\ answer.func = "OK" THEN "ok"
  ELSE IF answer.status < 400 /\ answer.func = "none" THEN "retriable"
  ELSE IF Retriable(answer) THEN "retriable" ELSE "final"
-----------------------------------------------------------------------------
Legs == {"token", "manage", "query"}

Call == [pc : {"idle", "wait", "out", "back"}, leg : Legs, wait : Nat, lag : 0..Latency,
         token : Nat, registered : BOOLEAN, outcome : {"none", "ok", "retriable", "final"}]

Idle == [pc |-> "idle", leg |-> "query", wait |-> 0, lag |-> 0, token |-> 0,
         registered |-> FALSE, outcome |-> "none"]

TypeOK ==
  /\ call \in [Callers -> Call]
  /\ bucket \in Int /\ bucket <= Burst
  /\ tokens \in Seq([age : 0..Validity, spent : Nat])
  /\ meter \in Nat
  /\ faults \in 0..MaxFaults

Init ==
  /\ call = [c \in Callers |-> Idle]
  /\ bucket = Burst
  /\ tokens = <<>>
  /\ meter = 0
  /\ faults = 0

Fault(kind) == kind \in Faults /\ faults < MaxFaults /\ faults' = faults + 1

\* MUTANT: status queries are not throttled.
ThrottledUnlessQuery(leg) == Limited /\ leg # "query"

\* Every request waits for the limiter if there is one.
Throttled(leg) == Limited

\* MUTANT: a request passes the limiter twice, once more in the transport.
QueuesTwice(c, leg, token) ==
  /\ call' = [call EXCEPT ![c] =
                [Idle EXCEPT !.pc = "wait", !.leg = leg, !.token = token,
                             !.wait = IF Throttled(leg) /\ bucket < 2 THEN 2 - bucket ELSE 0]]
  /\ bucket' = IF Throttled(leg) THEN bucket - 2 ELSE bucket

\* limiter.Wait: the caller's turn is reserved behind all earlier ones.
Queues(c, leg, token) ==
  /\ call' = [call EXCEPT ![c] =
                [Idle EXCEPT !.pc = "wait", !.leg = leg, !.token = token,
                             !.wait = IF Throttled(leg) /\ bucket < 1 THEN 1 - bucket ELSE 0]]
  /\ bucket' = IF Throttled(leg) THEN bucket - 1 ELSE bucket

\* The call returns.
Returns(c, outcome) ==
  call' = [call EXCEPT ![c] = [Idle EXCEPT !.registered = call[c].registered,
                                           !.outcome = outcome]]
-----------------------------------------------------------------------------
\* MUTANT: a token that has been issued already serves the next call as well.
SubmitWithCachedToken(c) ==
  /\ call[c].pc = "idle"
  /\ IF tokens = <<>> THEN Queues(c, "token", 0) ELSE Queues(c, "manage", Len(tokens))
  /\ UNCHANGED <<tokens, meter, faults>>

\* SubmitInvoice or AnnulInvoice: no token is kept, each call exchanges its own.
SubmitInvoice(c) ==
  /\ call[c].pc = "idle" /\ Len(tokens) < MaxTokens
  /\ Queues(c, "token", 0)
  /\ UNCHANGED <<tokens, meter, faults>>

QueryTransactionStatus(c) ==
  /\ call[c].pc = "idle"
  /\ Queues(c, "query", 0)
  /\ UNCHANGED <<tokens, meter, faults>>

\* The limiter lets the request go.
Send(c) ==
  /\ call[c].pc = "wait" /\ call[c].wait = 0
  /\ call' = [call EXCEPT ![c].pc = "out"]
  /\ meter' = IF Limited THEN meter + 1 ELSE meter
  /\ UNCHANGED <<bucket, tokens, faults>>

\* NAV gets the request: it issues a token, spends one and registers what came
\* with it, or refuses the request for what is wrong with it.
Arrive(c) ==
  /\ call[c].pc = "out"
  /\ \/ /\ call[c].leg = "token" /\ Len(tokens) < MaxTokens
        /\ tokens' = Append(tokens, [age |-> 0, spent |-> 0])
        /\ call' = [call EXCEPT ![c].pc = "back", ![c].token = Len(tokens) + 1]
     \/ /\ call[c].leg = "manage" /\ tokens[call[c].token].age < Validity
        /\ tokens' = [tokens EXCEPT ![call[c].token].spent = @ + 1]
        /\ call' = [call EXCEPT ![c].pc = "back", ![c].registered = TRUE]
     \/ /\ call[c].leg = "query"
        /\ call' = [call EXCEPT ![c].pc = "back"]
        /\ UNCHANGED tokens
     \/ \E answer \in Answers :
          /\ answer.func = "ERROR"
          /\ Returns(c, Outcome(answer))
          /\ UNCHANGED tokens
  /\ UNCHANGED <<bucket, meter, faults>>

Accepted == [status |-> 200, func |-> "OK", code |-> "unlisted"]
Garbled  == [status |-> 200, func |-> "none", code |-> "unlisted"]
Gateway  == [status |-> 500, func |-> "none", code |-> "unlisted"]

\* Something before NAV answers a request itself and does not pass it on.
TurnedAway(c) ==
  /\ call[c].pc = "out"
  /\ Fault("gateway")
  /\ \E status \in {200, 400, 500} : Returns(c, Outcome([Gateway EXCEPT !.status = status]))
  /\ UNCHANGED <<bucket, tokens, meter>>

\* The answer comes back: with the token the second request goes out, every
\* other answer ends the call.  Of a gateway that has passed the request on it
\* is assumed that it replaces NAV's answer by a 5xx only.
Answered(c) ==
  /\ call[c].pc = "back"
  /\ \/ /\ call[c].leg = "token"
        /\ Queues(c, "manage", call[c].token)
        /\ UNCHANGED faults
     \/ /\ call[c].leg # "token"
        /\ Returns(c, Outcome(Accepted))
        /\ UNCHANGED <<bucket, faults>>
     \/ \E failure \in {<<"garbled", Outcome(Garbled)>>, <<"gateway", Outcome(Gateway)>>} :
          /\ Fault(failure[1])
          /\ Returns(c, failure[2])
          /\ UNCHANGED bucket
  /\ UNCHANGED <<tokens, meter>>

\* The connection breaks or times out, before NAV has the request or after.
Lose(c) ==
  /\ call[c].pc \in {"out", "back"}
  /\ Fault("lost")
  /\ Returns(c, "retriable")
  /\ UNCHANGED <<bucket, tokens, meter>>

\* The caller's context is cancelled.  The limiter takes a reservation back
\* only when no later one has been made.
Cancel(c) ==
  /\ call[c].pc # "idle"
  /\ Fault("cancel")
  /\ Returns(c, "none")
  /\ bucket' = IF Throttled(call[c].leg) /\ call[c].pc = "wait" /\ call[c].wait > 0
                  /\ call[c].wait = -bucket
               THEN bucket + 1 ELSE bucket
  /\ UNCHANGED <<tokens, meter>>

\* A tick.  Nobody's turn has come, and no request is overdue.
Tick ==
  /\ \A c \in Callers : /\ call[c].pc = "wait" => call[c].wait > 0
                        /\ call[c].pc \in {"out", "back"} => call[c].lag < Latency
  /\ call' = [c \in Callers |->
                [call[c] EXCEPT !.wait = IF @ > 0 THEN @ - 1 ELSE 0,
                                !.lag = IF call[c].pc \in {"out", "back"} THEN @ + 1 ELSE @]]
  /\ bucket' = IF bucket < Burst THEN bucket + 1 ELSE bucket
  /\ tokens' = [t \in DOMAIN tokens |->
                  [tokens[t] EXCEPT !.age = IF @ < Validity THEN @ + 1 ELSE @]]
  /\ meter' = IF meter > 0 THEN meter - 1 ELSE 0
  /\ UNCHANGED faults

Next ==
  \/ \E c \in Callers : \/ SubmitInvoice(c) \/ QueryTransactionStatus(c) \/ Send(c)
                        \/ Arrive(c) \/ TurnedAway(c) \/ Answered(c) \/ Lose(c)
                        \/ Cancel(c)
  \/ Tick

Spec == Init /\ [][Next]_vars
-----------------------------------------------------------------------------
(* What the client promises.                                               *)

\* In any stretch of time NAV gets no more requests than the limiter's rate
\* and burst allow, whichever goroutines they come from (do).
WithinRate == Limited => meter <= Burst

\* NAV takes an exchange token once (SubmitInvoice: never cached or shared).
TokenUsedOnce == \A t \in DOMAIN tokens : tokens[t].spent <= 1

\* The token validity is ample for the process's calls.  A reservation that is
\* cancelled from the middle of the queue still holds its place.
Ample == Validity > 2 * Latency + Cardinality(Callers) + MaxFaults

\* A token does not expire while the request that spends it waits behind all
\* other callers and travels (SubmitInvoice, limiter.Wait).
TokenInTime ==
  Ample =>
    \A c \in Callers : call[c].pc = "out" /\ call[c].leg = "manage" =>
      tokens[call[c].token].age < Validity

\* An error that ends a submission's life means that NAV has not registered
\* it: the worker rejects the row for good on its account (do, newNAVError).
FinalMeansUnregistered ==
  \A c \in Callers : call[c].outcome = "final" => ~call[c].registered
=============================================================================
