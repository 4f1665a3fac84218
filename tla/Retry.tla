-------------------------------- MODULE Retry -------------------------------
(***************************************************************************)
(* The numbers that Worker abstracts: how long a failed attempt is put off *)
(* (backoffFor, powInt in worker.go), and what pollStatus reads from the   *)
(* results of a transaction's operations (overallStatus), for one row.     *)
(*                                                                         *)
(* Times are in tenths of a unit, so that a jitter of n tenths is exact.   *)
(* NAV is external: it lists a transaction's operations when it takes them *)
(* up and processes each in its own time.                                  *)
(***************************************************************************)
EXTENDS Integers, Sequences

CONSTANTS Configs,        \* WorkerConfigs: [base, max], zero where not set
          DefaultBase,    \* DefaultBaseBackoff
          DefaultMax,     \* DefaultMaxBackoff
          PollInterval,
          Ceiling,        \* where powInt stops multiplying; 1e18 in the code
          MaxAttempts,    \* bounds how often the row is tried
          MaxOperations   \* bounds the operations of its transaction

ASSUME RetryAssumption ==
  /\ Configs \subseteq [base : Int, max : Int]
  /\ DefaultBase \in Nat \ {0} /\ DefaultMax \in Nat \ {0}
  /\ PollInterval \in Nat /\ Ceiling \in Nat
  /\ MaxAttempts \in Nat /\ MaxOperations \in Nat

VARIABLES config,    \* the backoff of the worker, with its defaults filled in
          status,    \* of the row
          attempts,  \* Attempts of the row
          wait,      \* why and how far NextAttemptAt was last put off
          failed,    \* a record of how far the last failure put it off, 0 before any
          results    \* the status of each operation, as NAV answers a poll

vars == <<config, status, attempts, wait, failed, results>>
-----------------------------------------------------------------------------
\* MUTANT: MaxBackoff gets no default.
CappedAtZero(c) ==
  [base |-> IF c.base <= 0 THEN DefaultBase ELSE c.base, max |-> c.max]

\* NewWorker fills in what is not set.
Configured(c) ==
  [base |-> IF c.base <= 0 THEN DefaultBase ELSE c.base,
   max  |-> IF c.max <= 0 THEN DefaultMax ELSE c.max]

\* Where powInt gives up, the delay is past MaxBackoff whatever the jitter: with
\* 1e18 and a first delay of a nanosecond, for any MaxBackoff below 25 years.
ASSUME CeilingAssumption ==
  \A c \in Configs : 8 * Configured(c).base * Ceiling >= 10 * Configured(c).max

\* The result of powInt(2, n), n > 0: it doubles once more than it has to
\* before it looks whether it is past the ceiling.
Doublings[n \in Nat \ {0}] ==
  IF n = 1 THEN 2
  ELSE IF n > 2 /\ Doublings[n - 1] > Ceiling THEN Doublings[n - 1]
  ELSE 2 * Doublings[n - 1]

PowInt(exp) == IF exp <= 0 THEN 1 ELSE Doublings[exp]

\* What rng adds or takes away, in tenths of the delay.
Jitters == 8..12

AtMost(a, b) == IF a > b THEN b ELSE a

\* MUTANT: the cap is applied first and the jitter then.
JitteredLast(n, jitter) ==
  (AtMost(10 * config.base * PowInt(n - 1), 10 * config.max) * jitter) \div 100

\* backoffFor: the cap comes last.
BackoffFor(n, jitter) ==
  AtMost((config.base * PowInt((IF n <= 0 THEN 1 ELSE n) - 1) * jitter) \div 10, config.max)
-----------------------------------------------------------------------------
Pending == {"RECEIVED", "PROCESSING", "SAVED", ""}
Final == {"FINISHED", "DONE", "ABORTED"}

\* MUTANT: only the first result is looked at.
FirstStatus == IF results = <<>> THEN "" ELSE results[1]

\* overallStatus; which status stands for "pending" makes no difference.
OverallStatus ==
  IF results = <<>> THEN ""
  ELSE IF \E i \in DOMAIN results : results[i] = "ABORTED" THEN "ABORTED"
  ELSE IF \A i \in DOMAIN results : results[i] \in Final THEN "FINISHED"
  ELSE "PROCESSING"
-----------------------------------------------------------------------------
InFlight == {"submitted", "processing"}

TypeOK ==
  /\ config \in [base : Nat \ {0}, max : Nat \ {0}]
  /\ status \in {"pending", "accepted", "rejected"} \cup InFlight
  /\ attempts \in 0..MaxAttempts
  /\ wait \in [why : {"new", "poll", "failure"}, for : Nat]
  /\ failed \in Nat
  /\ results \in Seq(Pending \cup Final)

Init ==
  /\ config \in {Configured(c) : c \in Configs}
  /\ status = "pending" /\ attempts = 0
  /\ wait = [why |-> "new", for |-> 0] /\ failed = 0
  /\ results = <<>>

Attempt == attempts < MaxAttempts /\ attempts' = attempts + 1

PutsOff(why, time) == wait' = [why |-> why, for |-> time]

\* markFailure and markPollFailure of a retriable error: neither counts its own
\* attempts, and neither starts again from the first delay.
Fail ==
  /\ status \in {"pending"} \cup InFlight
  /\ Attempt
  /\ \E jitter \in Jitters : PutsOff("failure", BackoffFor(attempts', jitter))
  /\ failed' = wait'.for
  /\ UNCHANGED <<config, status, results>>

\* markFailure and markPollFailure of an error that is final.
GiveUp ==
  /\ status \in {"pending"} \cup InFlight
  /\ Attempt
  /\ status' = "rejected"
  /\ UNCHANGED <<config, wait, failed, results>>

\* MUTANT: the attempts are counted again from the first once NAV has the row.
SubmitAfresh ==
  /\ status = "pending"
  /\ attempts < MaxAttempts /\ attempts' = 1
  /\ status' = "submitted"
  /\ PutsOff("poll", PollInterval)
  /\ UNCHANGED <<config, failed, results>>

\* attemptSubmit succeeds: it counts as an attempt like any other.
Submit ==
  /\ status = "pending"
  /\ Attempt
  /\ status' = "submitted"
  /\ PutsOff("poll", PollInterval)
  /\ UNCHANGED <<config, failed, results>>

\* pollStatus gets an answer.
Poll ==
  /\ status \in InFlight
  /\ CASE OverallStatus = "ABORTED" -> status' = "rejected" /\ UNCHANGED wait
       [] OverallStatus \in {"FINISHED", "DONE"} -> status' = "accepted" /\ UNCHANGED wait
       [] OTHER -> status' = "processing" /\ PutsOff("poll", PollInterval)
  /\ UNCHANGED <<config, attempts, failed, results>>

\* NAV takes the operations of the transaction up.
TakeUp ==
  /\ status \in InFlight /\ results = <<>>
  /\ \E n \in 1..MaxOperations : results' = [i \in 1..n |-> "RECEIVED"]
  /\ UNCHANGED <<config, status, attempts, wait, failed>>

Progress ==
  {<<"RECEIVED", "PROCESSING">>, <<"RECEIVED", "">>, <<"", "PROCESSING">>,
   <<"PROCESSING", "SAVED">>, <<"PROCESSING", "ABORTED">>, <<"PROCESSING", "DONE">>,
   <<"SAVED", "FINISHED">>, <<"SAVED", "ABORTED">>}

\* NAV gets on with one of them, before the row has its outcome or after.
Process ==
  /\ \E i \in DOMAIN results, step \in Progress :
       results[i] = step[1] /\ results' = [results EXCEPT ![i] = step[2]]
  /\ UNCHANGED <<config, status, attempts, wait, failed>>

Next == Fail \/ GiveUp \/ Submit \/ Poll \/ TakeUp \/ Process

Spec == Init /\ [][Next]_vars
-----------------------------------------------------------------------------
\* However often a row has failed, and however powInt came to its end, its next
\* attempt is put off by the doubled delay give or take a fifth, up to MaxBackoff
\* and never beyond (backoffFor, powInt).
DelayIsExponential ==
  LET delay == config.base * 2^(attempts - 1)
  IN  wait.why = "failure" /\ status # "rejected" =>
        wait.for \in AtMost((8 * delay) \div 10, config.max)
                       .. AtMost((12 * delay) \div 10, config.max)

\* A failure is never retried sooner than the last failure before it was, whatever
\* came between: the jitter does not outrun the doubling, and a failed poll does
\* not start over after a submission that failed, nor after polls that were
\* answered (backoffFor, attemptSubmit, markPollFailure).
RetriesSlowDown == [][failed' >= failed]_vars

\* A row is accepted only when no operation of its transaction can still fail:
\* nothing NAV does later contradicts it (overallStatus, pollStatus).
AcceptanceStands ==
  status = "accepted" =>
    results # <<>> /\ \A i \in DOMAIN results : results[i] \in {"FINISHED", "DONE"}
=============================================================================
