-------------------------- MODULE NavClientProofs ---------------------------
(***************************************************************************)
(* Theorems about NavClient for any number of goroutines, any burst, any   *)
(* latency and any faults.                                                 *)
(***************************************************************************)
EXTENDS NavClient, FiniteSetTheorems, SequenceTheorems, TLAPS

-----------------------------------------------------------------------------
(* What the parts of a step do.                                            *)

LEMMA OutcomeValues ==
  /\ \A answer \in Answers : Outcome(answer) \in {"ok", "retriable", "final"}
  /\ Outcome(Accepted) = "ok"
  /\ Outcome(Garbled) = "retriable"
  /\ Outcome(Gateway) = "retriable"
BY DEF Outcome, Retriable, Answers, Codes, Accepted, Garbled, Gateway

LEMMA TurnedAwayOutcome ==
  ASSUME NEW status \in {200, 400, 500}
  PROVE  Outcome([Gateway EXCEPT !.status = status]) \in {"retriable", "final"}
BY DEF Outcome, Retriable, Gateway

LEMMA FaultType ==
  ASSUME TypeOK, NEW kind, Fault(kind)
  PROVE  faults' \in 0..MaxFaults
BY NavClientAssumption DEF TypeOK, Fault

LEMMA IdleType == Idle \in Call
BY NavClientAssumption DEF Idle, Call, Legs

LEMMA ReturnsType ==
  ASSUME TypeOK, NEW c \in Callers, NEW outcome \in {"none", "ok", "retriable", "final"},
         Returns(c, outcome)
  PROVE  call' \in [Callers -> Call]
BY IdleType DEF TypeOK, Returns, Call, Idle

LEMMA QueuesType ==
  ASSUME TypeOK, NEW c \in Callers, NEW leg \in Legs, NEW token \in Nat,
         Queues(c, leg, token)
  PROVE  /\ call' \in [Callers -> Call]
         /\ bucket' \in Int /\ bucket' <= Burst
<1> DEFINE turn == IF Throttled(leg) /\ bucket < 1 THEN 1 - bucket ELSE 0
<1> DEFINE state == [Idle EXCEPT !.pc = "wait", !.leg = leg, !.token = token, !.wait = turn]
<1>1. turn \in Nat
  BY DEF TypeOK
<1> HIDE DEF turn
<1>2. state \in Call
  BY <1>1, IdleType DEF Call, Idle
<1> HIDE DEF state
<1>3. call' = [call EXCEPT ![c] = state]
  BY DEF Queues, state, turn
<1>4. call' \in [Callers -> Call]
  BY <1>2, <1>3 DEF TypeOK
<1>5. bucket' \in Int /\ bucket' <= Burst
  BY NavClientAssumption DEF Queues, TypeOK
<1> QED
  BY <1>4, <1>5

LEMMA MovesType ==
  ASSUME TypeOK, NEW c \in Callers, NEW pc \in {"idle", "wait", "out", "back"},
         call' = [call EXCEPT ![c].pc = pc]
  PROVE  call' \in [Callers -> Call]
<1> DEFINE state == [call[c] EXCEPT !.pc = pc]
<1>1. call[c] \in Call /\ call \in [Callers -> Call]
  BY DEF TypeOK
<1>2. state \in Call
  BY <1>1 DEF Call
<1>3. call' = [call EXCEPT ![c] = state]
  BY <1>1
<1> HIDE DEF state
<1> QED
  BY <1>1, <1>2, <1>3

\* An answer that has come back queues the request that spends the token, or
\* ends the call: never with an error that is final.
LEMMA AnsweredEffect ==
  ASSUME NEW c \in Callers, Answered(c)
  PROVE  /\ call[c].pc = "back"
         /\ \/ call[c].leg = "token" /\ Queues(c, "manage", call[c].token)
            \/ /\ \E outcome \in {"ok", "retriable"} : Returns(c, outcome)
               /\ bucket' = bucket
         /\ UNCHANGED <<tokens, meter>>
         /\ faults' = faults \/ \E kind \in FaultKinds : Fault(kind)
BY OutcomeValues DEF Answered, FaultKinds
-----------------------------------------------------------------------------
(* Types.                                                                  *)

Token == [age : 0..Validity, spent : Nat]

LEMMA ArriveType ==
  ASSUME TypeOK, NEW c \in Callers, Arrive(c)
  PROVE  call' \in [Callers -> Call] /\ tokens' \in Seq(Token)
<1>1. tokens \in Seq(Token) /\ Len(tokens) \in Nat
  BY LenProperties DEF TypeOK, Token
<1>2. CASE /\ tokens' = Append(tokens, [age |-> 0, spent |-> 0])
           /\ call' = [call EXCEPT ![c].pc = "back", ![c].token = Len(tokens) + 1]
  <2>1. [age |-> 0, spent |-> 0] \in Token
    BY NavClientAssumption DEF Token
  <2>2. tokens' \in Seq(Token)
    BY <1>1, <1>2, <2>1
  <2>3. call' \in [Callers -> Call]
    <3> DEFINE state == [[call[c] EXCEPT !.pc = "back"] EXCEPT !.token = Len(tokens) + 1]
    <3>1. call[c] \in Call /\ Len(tokens) + 1 \in Nat
      BY <1>1 DEF TypeOK
    <3>2. \A n \in Nat : [[call[c] EXCEPT !.pc = "back"] EXCEPT !.token = n] \in Call
      BY <3>1 DEF Call
    <3>3. call' = [call EXCEPT ![c] = state]
      BY <1>2 DEF TypeOK
    <3>4. state \in Call
      BY <3>1, <3>2
    <3> HIDE DEF state
    <3> QED
      BY <3>3, <3>4 DEF TypeOK
  <2> QED
    BY <2>2, <2>3
<1>3. CASE /\ tokens' = [tokens EXCEPT ![call[c].token].spent = @ + 1]
           /\ call' = [call EXCEPT ![c].pc = "back", ![c].registered = TRUE]
  <2>1. call' \in [Callers -> Call]
    <3> DEFINE state == [[call[c] EXCEPT !.pc = "back"] EXCEPT !.registered = TRUE]
    <3>1. call[c] \in Call
      BY DEF TypeOK
    <3>2. state \in Call
      BY <3>1 DEF Call
    <3>3. call' = [call EXCEPT ![c] = state]
      BY <1>3 DEF TypeOK
    <3> HIDE DEF state
    <3> QED
      BY <3>2, <3>3 DEF TypeOK
  <2>2. CASE call[c].token \in 1..Len(tokens)
    <3> DEFINE spent == [tokens[call[c].token] EXCEPT !.spent = @ + 1]
    <3>1. tokens[call[c].token] \in Token
      BY <1>1, <2>2, ElementOfSeq
    <3>2. spent \in Token
      BY <3>1 DEF Token
    <3>3. tokens' = [tokens EXCEPT ![call[c].token] = spent]
      BY <1>3
    <3> QED
      BY <1>1, <2>1, <2>2, <3>2, <3>3, ExceptSeq
  <2>3. CASE call[c].token \notin 1..Len(tokens)
    <3>1. tokens \in [1..Len(tokens) -> Token] /\ DOMAIN tokens = 1..Len(tokens)
      BY <1>1, LenProperties
    <3>2. tokens' = tokens
      BY <1>3, <2>3, <3>1
    <3> QED
      BY <1>1, <2>1, <3>2
  <2> QED
    BY <2>2, <2>3
<1>4. CASE /\ call' = [call EXCEPT ![c].pc = "back"]
           /\ UNCHANGED tokens
  BY <1>1, <1>4, MovesType
<1>5. CASE \E answer \in Answers : Returns(c, Outcome(answer)) /\ UNCHANGED tokens
  BY <1>1, <1>5, OutcomeValues, ReturnsType
<1> QED
  BY <1>2, <1>3, <1>4, <1>5 DEF Arrive

LEMMA TickType ==
  ASSUME TypeOK, Tick
  PROVE  TypeOK'
<1>0. /\ \A c \in Callers : call[c].pc \in {"out", "back"} => call[c].lag < Latency
      /\ bucket' = IF bucket < Burst THEN bucket + 1 ELSE bucket
      /\ meter' = IF meter > 0 THEN meter - 1 ELSE 0
      /\ faults' = faults
  BY Zenon DEF Tick
<1>1. call' \in [Callers -> Call]
  <2> DEFINE later(c) == [call[c] EXCEPT !.wait = IF @ > 0 THEN @ - 1 ELSE 0,
                                         !.lag = IF call[c].pc \in {"out", "back"}
                                                 THEN @ + 1 ELSE @]
  <2>1. \A c \in Callers : later(c) \in Call
    <3> TAKE c \in Callers
    <3>1. call[c] \in Call
      BY DEF TypeOK
    <3>2. call[c].pc \in {"out", "back"} => call[c].lag + 1 \in 0..Latency
      BY <1>0, <3>1, NavClientAssumption DEF Call
    <3> DEFINE turn == IF call[c].wait > 0 THEN call[c].wait - 1 ELSE 0
    <3> DEFINE late == IF call[c].pc \in {"out", "back"} THEN call[c].lag + 1
                       ELSE call[c].lag
    <3>3. turn \in Nat /\ late \in 0..Latency
      BY <3>1, <3>2 DEF Call
    <3>4. \A w \in Nat, g \in 0..Latency : [call[c] EXCEPT !.wait = w, !.lag = g] \in Call
      BY <3>1 DEF Call
    <3>5. [call[c] EXCEPT !.wait = turn, !.lag = late] \in Call
      BY <3>3, <3>4
    <3> QED
      BY <3>5
  <2>2. call' = [c \in Callers |-> later(c)]
    BY DEF Tick
  <2> HIDE DEF later
  <2> QED
    BY <2>1, <2>2
<1>2. tokens' \in Seq(Token)
  <2>1. tokens \in Seq(Token) /\ Len(tokens) \in Nat /\ DOMAIN tokens = 1..Len(tokens)
    BY LenProperties DEF TypeOK, Token
  <2> DEFINE older(t) == [tokens[t] EXCEPT !.age = IF @ < Validity THEN @ + 1 ELSE @]
  <2>2. \A t \in 1..Len(tokens) : older(t) \in Token
    <3> TAKE t \in 1..Len(tokens)
    <3>1. tokens[t] \in Token
      BY <2>1, ElementOfSeq
    <3> QED
      BY <3>1, NavClientAssumption DEF Token
  <2>3. tokens' = [t \in 1..Len(tokens) |-> older(t)]
    BY <2>1 DEF Tick
  <2> HIDE DEF older
  <2> QED
    BY <2>1, <2>2, <2>3, IsASeq
<1>3. bucket' \in Int /\ bucket' <= Burst
  BY <1>0, NavClientAssumption DEF TypeOK
<1>4. meter' \in Nat /\ faults' \in 0..MaxFaults
  BY <1>0 DEF TypeOK
<1> QED
  BY <1>1, <1>2, <1>3, <1>4 DEF TypeOK, Token

\* Every variable of NavClient keeps its type.
THEOREM TypeCorrect == Spec => []TypeOK
<1>1. Init => TypeOK
  BY IdleType, EmptySeq, NavClientAssumption DEF Init, TypeOK
<1>2. TypeOK /\ [Next]_vars => TypeOK'
  <2> SUFFICES ASSUME TypeOK, [Next]_vars
               PROVE  TypeOK'
    OBVIOUS
  <2>1. ASSUME NEW c \in Callers, SubmitInvoice(c) \/ QueryTransactionStatus(c)
        PROVE  TypeOK'
    BY <2>1, QueuesType DEF SubmitInvoice, QueryTransactionStatus, TypeOK, Legs
  <2>2. ASSUME NEW c \in Callers, Send(c)
        PROVE  TypeOK'
    <3>1. call' \in [Callers -> Call]
      BY <2>2, MovesType DEF Send
    <3>2. meter' \in Nat
      BY <2>2, NavClientAssumption DEF Send, TypeOK
    <3> QED
      BY <2>2, <3>1, <3>2 DEF Send, TypeOK
  <2>3. ASSUME NEW c \in Callers, Arrive(c)
        PROVE  TypeOK'
    BY <2>3, ArriveType DEF Arrive, TypeOK, Token
  <2>4. ASSUME NEW c \in Callers, Answered(c)
        PROVE  TypeOK'
    <3>1. /\ call' \in [Callers -> Call]
          /\ bucket' \in Int /\ bucket' <= Burst
      <4>1. call[c].token \in Nat
        BY DEF TypeOK, Call
      <4> QED
        BY <2>4, <4>1, AnsweredEffect, QueuesType, ReturnsType DEF TypeOK, Legs
    <3>2. faults' \in 0..MaxFaults
      BY <2>4, AnsweredEffect, FaultType DEF TypeOK
    <3> QED
      BY <2>4, <3>1, <3>2, AnsweredEffect DEF TypeOK
  <2>5. ASSUME NEW c \in Callers, Lose(c) \/ TurnedAway(c)
        PROVE  TypeOK'
    BY <2>5, ReturnsType, FaultType, TurnedAwayOutcome DEF Lose, TurnedAway, TypeOK
  <2>6. ASSUME NEW c \in Callers, Cancel(c)
        PROVE  TypeOK'
    <3>1. bucket' \in Int /\ bucket' <= Burst
      BY <2>6, NavClientAssumption DEF Cancel, TypeOK, Call
    <3> QED
      BY <2>6, <3>1, ReturnsType, FaultType DEF Cancel, TypeOK
  <2>7. CASE Tick
    BY <2>7, TickType
  <2>8. CASE UNCHANGED vars
    BY <2>8 DEF vars, TypeOK
  <2> QED
    BY <2>1, <2>2, <2>3, <2>4, <2>5, <2>6, <2>7, <2>8 DEF Next
<1> QED
  BY <1>1, <1>2, PTL DEF Spec
-----------------------------------------------------------------------------
(* Calls and tokens.  Told says what a call knows of its registration, and *)
(* Owned whose an exchange token is: it is in one call's hands from NAV's  *)
(* answer to the request that spends it.                                   *)

Told ==
  \A c \in Callers :
    /\ call[c].pc \in {"wait", "out"} => ~call[c].registered
    /\ call[c].pc # "idle" => call[c].outcome = "none"
    /\ call[c].outcome = "final" => ~call[c].registered

Holds(c) ==
  \/ call[c].pc = "back" /\ call[c].leg = "token"
  \/ call[c].pc \in {"wait", "out"} /\ call[c].leg = "manage"

Owned ==
  /\ \A c \in Callers : Holds(c) => /\ call[c].token \in 1..Len(tokens)
                                    /\ tokens[call[c].token].spent = 0
  /\ \A c, d \in Callers : Holds(c) /\ Holds(d) /\ c # d => call[c].token # call[d].token
  /\ \A t \in 1..Len(tokens) : tokens[t].spent <= 1

\* The call of one goroutine changes, or nothing does but the passage of time.
Keeps(c) == /\ call'[c].pc = call[c].pc
            /\ call'[c].leg = call[c].leg
            /\ call'[c].token = call[c].token
            /\ call'[c].registered = call[c].registered
            /\ call'[c].outcome = call[c].outcome

LEMMA OthersKeep ==
  ASSUME TypeOK, NEW c \in Callers,
         \/ SubmitInvoice(c) \/ QueryTransactionStatus(c) \/ Send(c)
         \/ Arrive(c) \/ TurnedAway(c) \/ Answered(c) \/ Lose(c) \/ Cancel(c)
  PROVE  \A d \in Callers \ {c} : call'[d] = call[d]
<1>1. ASSUME NEW leg, NEW token, Queues(c, leg, token)
      PROVE  \A d \in Callers \ {c} : call'[d] = call[d]
  BY <1>1 DEF Queues, TypeOK
<1>2. ASSUME NEW outcome, Returns(c, outcome)
      PROVE  \A d \in Callers \ {c} : call'[d] = call[d]
  BY <1>2 DEF Returns, TypeOK
<1>3. CASE SubmitInvoice(c) \/ QueryTransactionStatus(c)
  BY <1>1, <1>3 DEF SubmitInvoice, QueryTransactionStatus
<1>4. CASE Send(c)
  BY <1>4 DEF Send, TypeOK
<1>5. CASE Arrive(c)
  BY <1>2, <1>5 DEF Arrive, TypeOK
<1>6. CASE Answered(c)
  BY <1>1, <1>2, <1>6, AnsweredEffect
<1>7. CASE Lose(c) \/ TurnedAway(c) \/ Cancel(c)
  BY <1>2, <1>7 DEF Lose, TurnedAway, Cancel
<1> QED
  BY <1>3, <1>4, <1>5, <1>6, <1>7

LEMMA QueuesEffect ==
  ASSUME TypeOK, NEW c \in Callers, NEW leg, NEW token, Queues(c, leg, token)
  PROVE  /\ call'[c].pc = "wait" /\ call'[c].leg = leg /\ call'[c].token = token
         /\ ~call'[c].registered /\ call'[c].outcome = "none"
         /\ call'[c].wait = IF Throttled(leg) /\ bucket < 1 THEN 1 - bucket ELSE 0
BY DEF Queues, TypeOK, Idle

LEMMA ReturnsEffect ==
  ASSUME TypeOK, NEW c \in Callers, NEW outcome, Returns(c, outcome)
  PROVE  /\ call'[c].pc = "idle" /\ call'[c].outcome = outcome
         /\ call'[c].registered = call[c].registered
BY DEF Returns, TypeOK, Idle

LEMMA TickKeeps ==
  ASSUME TypeOK, Tick
  PROVE  /\ \A c \in Callers : Keeps(c)
         /\ Len(tokens') = Len(tokens)
         /\ \A t \in 1..Len(tokens) : tokens'[t].spent = tokens[t].spent
<1>1. \A c \in Callers : Keeps(c)
  <2> DEFINE later(c) == [call[c] EXCEPT !.wait = IF @ > 0 THEN @ - 1 ELSE 0,
                                         !.lag = IF call[c].pc \in {"out", "back"}
                                                 THEN @ + 1 ELSE @]
  <2>1. call' = [c \in Callers |-> later(c)]
    BY DEF Tick
  <2>2. \A c \in Callers :
          /\ later(c).pc = call[c].pc /\ later(c).leg = call[c].leg
          /\ later(c).token = call[c].token /\ later(c).registered = call[c].registered
          /\ later(c).outcome = call[c].outcome
    <3> TAKE c \in Callers
    <3>1. call[c] \in Call
      BY DEF TypeOK
    <3>2. \A w, g : /\ [call[c] EXCEPT !.wait = w, !.lag = g].pc = call[c].pc
                    /\ [call[c] EXCEPT !.wait = w, !.lag = g].leg = call[c].leg
                    /\ [call[c] EXCEPT !.wait = w, !.lag = g].token = call[c].token
                    /\ [call[c] EXCEPT !.wait = w, !.lag = g].registered = call[c].registered
                    /\ [call[c] EXCEPT !.wait = w, !.lag = g].outcome = call[c].outcome
      BY <3>1 DEF Call
    <3> QED
      BY <3>2
  <2> HIDE DEF later
  <2> QED
    BY <2>1, <2>2 DEF Keeps
<1>2. tokens \in Seq(Token) /\ Len(tokens) \in Nat /\ DOMAIN tokens = 1..Len(tokens)
  BY LenProperties DEF TypeOK, Token
<1>3. /\ DOMAIN tokens' = 1..Len(tokens)
      /\ \A t \in 1..Len(tokens) : tokens'[t].spent = tokens[t].spent
  <2> DEFINE older(t) == [tokens[t] EXCEPT !.age = IF @ < Validity THEN @ + 1 ELSE @]
  <2>1. tokens' = [t \in 1..Len(tokens) |-> older(t)]
    BY <1>2 DEF Tick
  <2>2. \A t \in 1..Len(tokens) : older(t).spent = tokens[t].spent
    BY <1>2, ElementOfSeq DEF Token
  <2> HIDE DEF older
  <2> QED
    BY <2>1, <2>2
<1>4. DOMAIN tokens' = 1..Len(tokens') /\ Len(tokens') \in Nat
  BY TickType, LenProperties DEF TypeOK, Token
<1> QED
  BY <1>1, <1>2, <1>3, <1>4

LEMMA ToldStep == TypeOK /\ Told /\ [Next]_vars => Told'
<1> SUFFICES ASSUME TypeOK, Told, [Next]_vars
             PROVE  Told'
  OBVIOUS
<1>1. ASSUME NEW c \in Callers, SubmitInvoice(c) \/ QueryTransactionStatus(c)
      PROVE  Told'
  BY <1>1, OthersKeep, QueuesEffect DEF SubmitInvoice, QueryTransactionStatus, Told
<1>2. ASSUME NEW c \in Callers, Send(c)
      PROVE  Told'
  <2>1. /\ call'[c].pc = "out" /\ call'[c].outcome = call[c].outcome
        /\ call'[c].registered = call[c].registered /\ call[c].pc = "wait"
    BY <1>2 DEF Send, TypeOK, Call
  <2> QED
    BY <1>2, <2>1, OthersKeep DEF Told
<1>3. ASSUME NEW c \in Callers, Arrive(c)
      PROVE  Told'
  <2>1. call[c].pc = "out" /\ call[c].outcome = "none" /\ ~call[c].registered
    BY <1>3 DEF Arrive, Told
  <2>2. \/ call'[c].pc = "back" /\ call'[c].outcome = "none"
        \/ call'[c].pc = "idle" /\ ~call'[c].registered
    <3>1. CASE \E answer \in Answers : Returns(c, Outcome(answer))
      BY <2>1, <3>1, ReturnsEffect
    <3>2. CASE \/ call' = [call EXCEPT ![c].pc = "back", ![c].token = Len(tokens) + 1]
               \/ call' = [call EXCEPT ![c].pc = "back", ![c].registered = TRUE]
               \/ call' = [call EXCEPT ![c].pc = "back"]
      BY <2>1, <3>2 DEF TypeOK, Call
    <3> QED
      BY <1>3, <3>1, <3>2 DEF Arrive
  <2> QED
    BY <1>3, <2>2, OthersKeep DEF Told
<1>4. ASSUME NEW c \in Callers, Answered(c)
      PROVE  Told'
  BY <1>4, AnsweredEffect, OthersKeep, QueuesEffect, ReturnsEffect DEF Told
<1>5. ASSUME NEW c \in Callers, Lose(c) \/ TurnedAway(c) \/ Cancel(c)
      PROVE  Told'
  BY <1>5, OthersKeep, ReturnsEffect DEF Lose, TurnedAway, Cancel, Told
<1>6. CASE Tick
  BY <1>6, TickKeeps DEF Told, Keeps
<1>7. CASE UNCHANGED vars
  BY <1>7 DEF vars, Told
<1> QED
  BY <1>1, <1>2, <1>3, <1>4, <1>5, <1>6, <1>7 DEF Next

\* An error that rejects a submission for good (do, newNAVError) means that NAV
\* has not registered it, whatever is lost, garbled or answered by a gateway.
THEOREM FinalErrorsAreTrue == Spec => []FinalMeansUnregistered
<1>1. Init => Told
  BY DEF Init, Told, Idle
<1>2. Told => FinalMeansUnregistered
  BY DEF Told, FinalMeansUnregistered
<1> QED
  BY <1>1, <1>2, ToldStep, TypeCorrect, PTL DEF Spec
-----------------------------------------------------------------------------
\* Owned is kept by a step of c that leaves c with the token it held, or with
\* none, and the tokens as they were.
LEMMA OwnedStays ==
  ASSUME Owned, NEW c \in Callers, UNCHANGED tokens,
         \A d \in Callers \ {c} : call'[d] = call[d],
         Holds(c)' => Holds(c) /\ call'[c].token = call[c].token
  PROVE  Owned'
<1>1. \A d \in Callers : Holds(d)' => Holds(d) /\ call'[d].token = call[d].token
  BY DEF Holds
<1>2. \A d \in Callers : Holds(d)' => /\ call'[d].token \in 1..Len(tokens)
                                     /\ tokens[call'[d].token].spent = 0
  BY <1>1 DEF Owned
<1>3. \A d, e \in Callers : Holds(d)' /\ Holds(e)' /\ d # e =>
                              call'[d].token # call'[e].token
  BY <1>1 DEF Owned
<1> QED
  BY <1>2, <1>3 DEF Owned

LEMMA OwnedArrive ==
  ASSUME TypeOK, Owned, NEW c \in Callers, Arrive(c)
  PROVE  Owned'
<1>0. tokens \in Seq(Token) /\ Len(tokens) \in Nat
  BY LenProperties DEF TypeOK, Token
<1>1. \A d \in Callers \ {c} : call'[d] = call[d]
  BY OthersKeep
<1>2. \A d \in Callers \ {c} : Holds(d)' = Holds(d)
  BY <1>1 DEF Holds
<1>3. CASE /\ tokens' = Append(tokens, [age |-> 0, spent |-> 0])
           /\ call' = [call EXCEPT ![c].pc = "back", ![c].token = Len(tokens) + 1]
  <2>1. /\ Len(tokens') = Len(tokens) + 1
        /\ \A t \in 1..Len(tokens) : tokens'[t] = tokens[t]
        /\ tokens'[Len(tokens) + 1] = [age |-> 0, spent |-> 0]
    BY <1>0, <1>3
  <2>2. call'[c].token = Len(tokens) + 1
    BY <1>3 DEF TypeOK, Call
  <2>3. tokens'[Len(tokens) + 1].spent = 0
    BY <2>1
  <2>4. \A d \in Callers : Holds(d)' => /\ call'[d].token \in 1..Len(tokens')
                                       /\ tokens'[call'[d].token].spent = 0
    <3> SUFFICES ASSUME NEW d \in Callers, Holds(d)'
                 PROVE  /\ call'[d].token \in 1..Len(tokens')
                        /\ tokens'[call'[d].token].spent = 0
      OBVIOUS
    <3>1. CASE d = c
      BY <1>0, <2>1, <2>2, <2>3, <3>1
    <3>2. CASE d # c
      <4>1. call[d].token \in 1..Len(tokens) /\ tokens[call[d].token].spent = 0
        BY <1>2, <3>2 DEF Owned
      <4> QED
        BY <1>0, <1>1, <2>1, <3>2, <4>1
    <3> QED
      BY <3>1, <3>2
  <2>5. \A d, e \in Callers : Holds(d)' /\ Holds(e)' /\ d # e =>
                                call'[d].token # call'[e].token
    <3>1. \A d \in Callers \ {c} : Holds(d)' => call'[d].token \in 1..Len(tokens)
      BY <1>1, <1>2 DEF Owned
    <3>2. Len(tokens) + 1 \notin 1..Len(tokens)
      BY <1>0
    <3>3. \A d, e \in Callers \ {c} : Holds(d)' /\ Holds(e)' /\ d # e =>
                                         call'[d].token # call'[e].token
      BY <1>1, <1>2 DEF Owned
    <3> QED
      BY <2>2, <3>1, <3>2, <3>3
  <2>6. \A t \in 1..Len(tokens') : tokens'[t].spent <= 1
    BY <1>0, <2>1, <2>3 DEF Owned
  <2> QED
    BY <2>4, <2>5, <2>6 DEF Owned
<1>4. CASE /\ call[c].pc = "out" /\ call[c].leg = "manage"
           /\ tokens' = [tokens EXCEPT ![call[c].token].spent = @ + 1]
           /\ call' = [call EXCEPT ![c].pc = "back", ![c].registered = TRUE]
  <2> DEFINE mine == call[c].token
  <2>1. mine \in 1..Len(tokens) /\ tokens[mine].spent = 0
    BY <1>4 DEF Owned, Holds
  <2>2. tokens[mine] \in Token
    BY <1>0, <2>1, ElementOfSeq
  <2> DEFINE spent == [tokens[mine] EXCEPT !.spent = @ + 1]
  <2>3. spent \in Token /\ spent.spent = 1
    BY <2>1, <2>2 DEF Token
  <2>4. tokens' = [tokens EXCEPT ![mine] = spent]
    BY <1>4
  <2>5. /\ Len(tokens') = Len(tokens)
        /\ \A t \in 1..Len(tokens) : tokens'[t] = IF t = mine THEN spent ELSE tokens[t]
    BY <1>0, <2>1, <2>3, <2>4, ExceptSeq
  <2>6. ~Holds(c)'
    BY <1>4 DEF Holds, TypeOK, Call
  <2>7. \A d \in Callers : Holds(d)' => d # c /\ Holds(d) /\ call'[d] = call[d]
    BY <1>1, <1>2, <2>6
  <2>8. \A d \in Callers : Holds(d)' => call[d].token # mine
    BY <1>4, <2>7 DEF Owned, Holds
  <2> HIDE DEF mine, spent
  <2>9. \A d \in Callers : Holds(d)' => /\ call'[d].token \in 1..Len(tokens')
                                       /\ tokens'[call'[d].token].spent = 0
    BY <2>5, <2>7, <2>8 DEF Owned
  <2>10. \A d, e \in Callers : Holds(d)' /\ Holds(e)' /\ d # e =>
                                 call'[d].token # call'[e].token
    BY <2>7 DEF Owned
  <2>11. \A t \in 1..Len(tokens') : tokens'[t].spent <= 1
    BY <2>3, <2>5 DEF Owned
  <2> QED
    BY <2>9, <2>10, <2>11 DEF Owned
<1>5. CASE /\ call[c].leg = "query"
           /\ call' = [call EXCEPT ![c].pc = "back"]
           /\ UNCHANGED tokens
  <2>1. call'[c].leg = "query"
    BY <1>5 DEF TypeOK, Call
  <2> QED
    BY <1>1, <1>5, <2>1, OwnedStays DEF Holds
<1>6. CASE \E answer \in Answers : Returns(c, Outcome(answer)) /\ UNCHANGED tokens
  BY <1>1, <1>6, ReturnsEffect, OwnedStays DEF Holds
<1> QED
  BY <1>3, <1>4, <1>5, <1>6 DEF Arrive

LEMMA OwnedStep == TypeOK /\ Owned /\ [Next]_vars => Owned'
<1> SUFFICES ASSUME TypeOK, Owned, [Next]_vars
             PROVE  Owned'
  OBVIOUS
<1>1. ASSUME NEW c \in Callers, SubmitInvoice(c) \/ QueryTransactionStatus(c)
      PROVE  Owned'
  <2>1. call'[c].pc = "wait" /\ call'[c].leg \in {"token", "query"} /\ UNCHANGED tokens
    BY <1>1, QueuesEffect DEF SubmitInvoice, QueryTransactionStatus
  <2> QED
    BY <1>1, <2>1, OthersKeep, OwnedStays DEF Holds
<1>2. ASSUME NEW c \in Callers, Send(c)
      PROVE  Owned'
  <2>1. /\ call[c].pc = "wait" /\ call'[c].pc = "out" /\ call'[c].leg = call[c].leg
        /\ call'[c].token = call[c].token /\ UNCHANGED tokens
    BY <1>2 DEF Send, TypeOK, Call
  <2> QED
    BY <1>2, <2>1, OthersKeep, OwnedStays DEF Holds
<1>3. ASSUME NEW c \in Callers, Arrive(c)
      PROVE  Owned'
  BY <1>3, OwnedArrive
<1>4. ASSUME NEW c \in Callers, Answered(c)
      PROVE  Owned'
  <2>1. Holds(c)' => Holds(c) /\ call'[c].token = call[c].token
    BY <1>4, AnsweredEffect, QueuesEffect, ReturnsEffect DEF Holds
  <2> QED
    BY <1>4, <2>1, AnsweredEffect, OthersKeep, OwnedStays
<1>5. ASSUME NEW c \in Callers, Lose(c) \/ TurnedAway(c) \/ Cancel(c)
      PROVE  Owned'
  <2>1. call'[c].pc = "idle" /\ UNCHANGED tokens
    BY <1>5, ReturnsEffect DEF Lose, TurnedAway, Cancel
  <2> QED
    BY <1>5, <2>1, OthersKeep, OwnedStays DEF Holds
<1>6. CASE Tick
  <2>1. \A c \in Callers : Holds(c)' = Holds(c) /\ call'[c].token = call[c].token
    BY <1>6, TickKeeps DEF Keeps, Holds
  <2> QED
    BY <1>6, <2>1, TickKeeps DEF Owned
<1>7. CASE UNCHANGED vars
  BY <1>7 DEF vars, Owned, Holds
<1> QED
  BY <1>1, <1>2, <1>3, <1>4, <1>5, <1>6, <1>7 DEF Next

\* NAV takes an exchange token once: no call spends a token of another, or its
\* own a second time (SubmitInvoice).
THEOREM TokensAreSpentOnce == Spec => []TokenUsedOnce
<1>1. Init => Owned
  BY DEF Init, Owned, Holds, Idle
<1>2. TypeOK /\ Owned => TokenUsedOnce
  <2>1. TypeOK => DOMAIN tokens = 1..Len(tokens)
    BY LenProperties DEF TypeOK
  <2> QED
    BY <2>1 DEF Owned, TokenUsedOnce
<1> QED
  BY <1>1, <1>2, OwnedStep, TypeCorrect, PTL DEF Spec
-----------------------------------------------------------------------------
(* The rate.  Slots accounts for the limiter's tokens: those who wait for   *)
(* a later tick have each a tick of their own, none beyond the debt of the  *)
(* bucket, and what NAV has got above the rate, with what may go now, is    *)
(* what the bucket lacks of its burst.                                      *)

Ready == {c \in Callers : call[c].pc = "wait" /\ call[c].wait = 0}

Waits(c) == call[c].pc = "wait" /\ call[c].wait > 0

Slots ==
  /\ \A c \in Callers : Waits(c) => call[c].wait <= -bucket
  /\ \A c, d \in Callers : Waits(c) /\ Waits(d) /\ c # d => call[c].wait # call[d].wait
  /\ meter + Cardinality(Ready) <= IF bucket > 0 THEN Burst - bucket ELSE Burst

LEMMA ReadyFinite ==
  /\ IsFiniteSet(Ready) /\ Cardinality(Ready) \in Nat
  /\ IsFiniteSet(Ready') /\ Cardinality(Ready') \in Nat
<1>1. Ready \in SUBSET Callers /\ Ready' \in SUBSET Callers /\ IsFiniteSet(Callers)
  BY NavClientAssumption DEF Ready
<1> QED
  BY <1>1, FS_Subset, FS_CardinalityType

\* A goroutine queues that did not wait before.
LEMMA SlotsQueue ==
  ASSUME TypeOK, Slots, Limited, NEW c \in Callers, NEW leg, NEW token,
         call[c].pc # "wait", Queues(c, leg, token), UNCHANGED meter,
         \A d \in Callers \ {c} : call'[d] = call[d]
  PROVE  Slots'
<1>1. /\ call'[c].pc = "wait"
      /\ call'[c].wait = IF bucket < 1 THEN 1 - bucket ELSE 0
      /\ bucket' = bucket - 1
  BY QueuesEffect DEF Queues, Throttled
<1>2. bucket \in Int /\ meter \in Nat /\ Burst \in Nat
  BY NavClientAssumption DEF TypeOK
<1>3. \A d \in Callers : call[d].wait \in Nat
  BY DEF TypeOK, Call
<1>4. \A d \in Callers \ {c} : Waits(d)' = Waits(d) /\ call'[d].wait = call[d].wait
  BY DEF Waits
<1>5. Ready' = IF bucket < 1 THEN Ready ELSE Ready \cup {c}
  BY <1>1, <1>2 DEF Ready
<1>6. c \notin Ready
  BY DEF Ready
<1>7. \A d \in Callers : Waits(d)' => call'[d].wait <= -bucket'
  BY <1>1, <1>2, <1>3, <1>4 DEF Slots, Waits
<1>8. \A d \in Callers \ {c} : Waits(d)' /\ Waits(c)' => call'[d].wait # call'[c].wait
  BY <1>1, <1>2, <1>3, <1>4 DEF Slots, Waits
<1>9. \A d, e \in Callers : Waits(d)' /\ Waits(e)' /\ d # e => call'[d].wait # call'[e].wait
  BY <1>4, <1>8 DEF Slots
<1>10. meter' + Cardinality(Ready') <= IF bucket' > 0 THEN Burst - bucket' ELSE Burst
  <2>1. Cardinality(Ready') = IF bucket < 1 THEN Cardinality(Ready) ELSE Cardinality(Ready) + 1
    BY <1>5, <1>6, ReadyFinite, FS_AddElement
  <2>2. meter + Cardinality(Ready) <= IF bucket > 0 THEN Burst - bucket ELSE Burst
    BY DEF Slots
  <2> QED
    BY <1>1, <1>2, <2>1, <2>2, ReadyFinite
<1> QED
  BY <1>7, <1>9, <1>10 DEF Slots

\* A goroutine goes on without waiting, before and after.
LEMMA SlotsStay ==
  ASSUME Slots, NEW c \in Callers, call[c].pc # "wait", call'[c].pc # "wait",
         UNCHANGED <<bucket, meter>>, \A d \in Callers \ {c} : call'[d] = call[d]
  PROVE  Slots'
<1>1. \A d \in Callers : Waits(d)' = Waits(d) /\ (Waits(d) => call'[d].wait = call[d].wait)
  BY DEF Waits
<1>2. Ready' = Ready
  BY DEF Ready
<1> QED
  BY <1>1, <1>2 DEF Slots

LEMMA SlotsSend ==
  ASSUME TypeOK, Slots, Limited, NEW c \in Callers, Send(c)
  PROVE  Slots'
<1>1. /\ c \in Ready /\ call'[c].pc = "out" /\ meter' = meter + 1 /\ bucket' = bucket
      /\ \A d \in Callers \ {c} : call'[d] = call[d]
  BY OthersKeep DEF Send, Ready, TypeOK, Call
<1>2. \A d \in Callers : Waits(d)' => Waits(d) /\ call'[d].wait = call[d].wait
  BY <1>1 DEF Waits
<1>3. Ready' = Ready \ {c}
  BY <1>1 DEF Ready
<1>4. Cardinality(Ready') = Cardinality(Ready) - 1
  BY <1>1, <1>3, ReadyFinite, FS_RemoveElement
<1>5. meter' + Cardinality(Ready') = meter + Cardinality(Ready)
  BY <1>1, <1>4, ReadyFinite DEF TypeOK
<1> QED
  BY <1>1, <1>2, <1>5 DEF Slots

LEMMA SlotsCancel ==
  ASSUME TypeOK, Slots, Limited, NEW c \in Callers, Cancel(c)
  PROVE  Slots'
<1>1. /\ call'[c].pc = "idle" /\ meter' = meter
      /\ \A d \in Callers \ {c} : call'[d] = call[d]
  BY OthersKeep, ReturnsEffect DEF Cancel
<1>2. \/ bucket' = bucket
      \/ Waits(c) /\ call[c].wait = -bucket /\ bucket' = bucket + 1
  BY DEF Cancel, Throttled, Waits
<1>3. bucket \in Int /\ meter \in Nat /\ Burst \in Nat /\ \A d \in Callers : call[d].wait \in Nat
  BY NavClientAssumption DEF TypeOK, Call
<1>4. \A d \in Callers : Waits(d)' => d # c /\ Waits(d) /\ call'[d].wait = call[d].wait
  BY <1>1 DEF Waits
<1>5. Ready' \in SUBSET Ready
  BY <1>1 DEF Ready
<1>6. Cardinality(Ready') <= Cardinality(Ready)
  BY <1>5, ReadyFinite, FS_Subset
<1>7. \A d \in Callers : Waits(d)' => call'[d].wait <= -bucket'
  BY <1>2, <1>3, <1>4 DEF Slots
<1>8. \A d, e \in Callers : Waits(d)' /\ Waits(e)' /\ d # e => call'[d].wait # call'[e].wait
  BY <1>4 DEF Slots
<1>9. meter' + Cardinality(Ready') <= IF bucket' > 0 THEN Burst - bucket' ELSE Burst
  <2>1. Waits(c) /\ call[c].wait = -bucket => bucket < 0
    BY <1>3 DEF Waits
  <2>2. meter + Cardinality(Ready) <= IF bucket > 0 THEN Burst - bucket ELSE Burst
    BY DEF Slots
  <2> QED
    BY <1>1, <1>2, <1>3, <1>6, <2>1, <2>2, ReadyFinite
<1> QED
  BY <1>7, <1>8, <1>9 DEF Slots

LEMMA TickWaits ==
  ASSUME TypeOK, Tick
  PROVE  \A c \in Callers :
           /\ call'[c].wait = IF call[c].wait > 0 THEN call[c].wait - 1 ELSE 0
           /\ call'[c].lag = IF call[c].pc \in {"out", "back"} THEN call[c].lag + 1
                             ELSE call[c].lag
<1> DEFINE later(c) == [call[c] EXCEPT !.wait = IF @ > 0 THEN @ - 1 ELSE 0,
                                       !.lag = IF call[c].pc \in {"out", "back"}
                                               THEN @ + 1 ELSE @]
<1>1. call' = [c \in Callers |-> later(c)]
  BY DEF Tick
<1>2. \A c \in Callers : \A w, g : /\ [call[c] EXCEPT !.wait = w, !.lag = g].wait = w
                                  /\ [call[c] EXCEPT !.wait = w, !.lag = g].lag = g
  BY DEF TypeOK, Call
<1>3. \A c \in Callers :
        /\ later(c).wait = IF call[c].wait > 0 THEN call[c].wait - 1 ELSE 0
        /\ later(c).lag = IF call[c].pc \in {"out", "back"} THEN call[c].lag + 1
                          ELSE call[c].lag
  BY <1>2
<1> HIDE DEF later
<1> QED
  BY <1>1, <1>3

\* A tick lets at most one more go, and nobody was left who could have gone.
LEMMA SlotsTick ==
  ASSUME TypeOK, Slots, Limited, Tick
  PROVE  Slots'
<1>1. /\ \A c \in Callers : call[c].pc = "wait" => call[c].wait > 0
      /\ bucket' = IF bucket < Burst THEN bucket + 1 ELSE bucket
      /\ meter' = IF meter > 0 THEN meter - 1 ELSE 0
  BY Zenon DEF Tick
<1>2. \A c \in Callers : call'[c].wait = IF call[c].wait > 0 THEN call[c].wait - 1 ELSE 0
  BY TickWaits
<1>3. /\ bucket \in Int /\ bucket <= Burst /\ meter \in Nat /\ Burst \in Nat \ {0}
      /\ \A c \in Callers : call[c].wait \in Nat
  BY NavClientAssumption DEF TypeOK, Call
<1>4. \A c \in Callers : call'[c].pc = call[c].pc
  BY TickKeeps DEF Keeps
<1>5. \A c \in Callers : Waits(c)' => Waits(c) /\ call'[c].wait = call[c].wait - 1
  BY <1>2, <1>3, <1>4 DEF Waits
<1>6. \A c \in Callers : c \in Ready' => Waits(c) /\ call[c].wait = 1
  BY <1>1, <1>2, <1>3, <1>4 DEF Waits, Ready
<1>7. Ready = {}
  BY <1>1 DEF Ready
<1>8. \A c \in Callers : Waits(c)' => call'[c].wait <= -bucket'
  <2>1. \A c \in Callers : Waits(c) => call[c].wait <= -bucket
    BY DEF Slots
  <2> QED
    BY <1>1, <1>3, <1>5, <2>1
<1>9. \A c, d \in Callers : Waits(c)' /\ Waits(d)' /\ c # d => call'[c].wait # call'[d].wait
  BY <1>3, <1>5 DEF Slots
<1>10. Cardinality(Ready') <= IF bucket < 0 THEN 1 ELSE 0
  <2>1. CASE Ready' = {}
    BY <1>3, <2>1, FS_EmptySet
  <2>2. CASE Ready' # {}
    <3>1. PICK c \in Callers : c \in Ready'
      BY <2>2 DEF Ready
    <3>2. Ready' = {c}
      <4>1. \A d \in Callers : d \in Ready' => d = c
        BY <1>6, <3>1 DEF Slots
      <4> QED
        BY <3>1, <4>1 DEF Ready
    <3>3. bucket < 0
      <4>1. Waits(c) /\ call[c].wait = 1
        BY <1>6, <3>1
      <4>2. 1 <= -bucket
        BY <4>1 DEF Slots
      <4> QED
        BY <1>3, <4>2
    <3> QED
      BY <3>2, <3>3, FS_Singleton
  <2> QED
    BY <2>1, <2>2
<1>11. meter <= IF bucket > 0 THEN Burst - bucket ELSE Burst
  <2>1. Cardinality(Ready) = 0
    BY <1>7, FS_EmptySet
  <2> QED
    BY <1>3, <2>1 DEF Slots
<1>12. meter' + Cardinality(Ready') <= IF bucket' > 0 THEN Burst - bucket' ELSE Burst
  BY <1>1, <1>3, <1>10, <1>11, ReadyFinite
<1> QED
  BY <1>8, <1>9, <1>12 DEF Slots

LEMMA SlotsStep == Limited /\ TypeOK /\ Slots /\ [Next]_vars => Slots'
<1> SUFFICES ASSUME Limited, TypeOK, Slots, [Next]_vars
             PROVE  Slots'
  OBVIOUS
<1>1. ASSUME NEW c \in Callers, SubmitInvoice(c) \/ QueryTransactionStatus(c)
      PROVE  Slots'
  <2>1. call[c].pc # "wait" /\ UNCHANGED meter
    BY <1>1 DEF SubmitInvoice, QueryTransactionStatus
  <2>2. Queues(c, "token", 0) \/ Queues(c, "query", 0)
    BY <1>1 DEF SubmitInvoice, QueryTransactionStatus
  <2> QED
    BY <1>1, <2>1, <2>2, OthersKeep, SlotsQueue
<1>2. ASSUME NEW c \in Callers, Send(c)
      PROVE  Slots'
  BY <1>2, SlotsSend
<1>3. ASSUME NEW c \in Callers, Arrive(c)
      PROVE  Slots'
  <2>1. call[c].pc = "out" /\ UNCHANGED <<bucket, meter>>
    BY <1>3 DEF Arrive
  <2>2. call'[c].pc \in {"back", "idle"}
    <3>1. CASE \E answer \in Answers : Returns(c, Outcome(answer))
      BY <3>1, ReturnsEffect
    <3>2. CASE \/ call' = [call EXCEPT ![c].pc = "back", ![c].token = Len(tokens) + 1]
               \/ call' = [call EXCEPT ![c].pc = "back", ![c].registered = TRUE]
               \/ call' = [call EXCEPT ![c].pc = "back"]
      BY <3>2 DEF TypeOK, Call
    <3> QED
      BY <1>3, <3>1, <3>2 DEF Arrive
  <2> QED
    BY <1>3, <2>1, <2>2, OthersKeep, SlotsStay
<1>4. ASSUME NEW c \in Callers, Answered(c)
      PROVE  Slots'
  <2>1. call[c].pc = "back" /\ UNCHANGED meter
    BY <1>4, AnsweredEffect
  <2>2. CASE Queues(c, "manage", call[c].token)
    BY <1>4, <2>1, <2>2, OthersKeep, SlotsQueue
  <2>3. CASE bucket' = bucket /\ \E outcome \in {"ok", "retriable"} : Returns(c, outcome)
    BY <1>4, <2>1, <2>3, OthersKeep, ReturnsEffect, SlotsStay
  <2> QED
    BY <1>4, <2>2, <2>3, AnsweredEffect
<1>5. ASSUME NEW c \in Callers, Lose(c) \/ TurnedAway(c)
      PROVE  Slots'
  <2>1. call[c].pc # "wait" /\ call'[c].pc = "idle" /\ UNCHANGED <<bucket, meter>>
    BY <1>5, ReturnsEffect DEF Lose, TurnedAway
  <2> QED
    BY <1>5, <2>1, OthersKeep, SlotsStay
<1>6. ASSUME NEW c \in Callers, Cancel(c)
      PROVE  Slots'
  BY <1>6, SlotsCancel
<1>7. CASE Tick
  BY <1>7, SlotsTick
<1>8. CASE UNCHANGED vars
  BY <1>8 DEF vars, Slots, Ready, Waits
<1> QED
  BY <1>1, <1>2, <1>3, <1>4, <1>5, <1>6, <1>7, <1>8 DEF Next

\* However many goroutines share the client, and whatever is cancelled, NAV gets
\* no more requests than the limiter's rate and burst allow (do, limiter.Wait).
THEOREM RateIsKept == Spec => []WithinRate
<1>1. Init => Slots
  <2> SUFFICES ASSUME Init
               PROVE  Slots
    OBVIOUS
  <2>1. Ready = {} /\ \A c \in Callers : ~Waits(c)
    BY DEF Init, Ready, Waits, Idle
  <2> QED
    BY <2>1, FS_EmptySet, NavClientAssumption DEF Init, Slots
<1>2. TypeOK /\ Slots => meter <= Burst
  <2> SUFFICES ASSUME TypeOK, Slots
               PROVE  meter <= Burst
    OBVIOUS
  <2>1. Cardinality(Ready) \in Nat
    BY ReadyFinite
  <2> QED
    BY <2>1, NavClientAssumption DEF TypeOK, Slots
<1>3. CASE Limited
  BY <1>1, <1>2, <1>3, SlotsStep, TypeCorrect, PTL DEF Spec, WithinRate
<1>4. CASE ~Limited
  <2>1. WithinRate
    BY <1>4 DEF WithinRate
  <2> QED
    BY <2>1, PTL
<1> QED
  BY <1>3, <1>4
-----------------------------------------------------------------------------
(* The queue.  Debt bounds the limiter's queue by those who wait in it and  *)
(* the places of those who have left it, and Fresh the age of a token by    *)
(* what its call has been through.                                          *)

Waiting == {c \in Callers : Waits(c)}

Debt == -bucket <= Cardinality(Waiting) + faults

Queue == Cardinality(Callers) + MaxFaults

LEMMA WaitingFinite ==
  /\ IsFiniteSet(Waiting) /\ Cardinality(Waiting) \in 0..Cardinality(Callers)
  /\ IsFiniteSet(Waiting') /\ Cardinality(Waiting') \in 0..Cardinality(Callers)
  /\ Cardinality(Callers) \in Nat
<1>1. Waiting \in SUBSET Callers /\ Waiting' \in SUBSET Callers /\ IsFiniteSet(Callers)
  BY NavClientAssumption DEF Waiting
<1> QED
  BY <1>1, FS_Subset, FS_CardinalityType

\* A step of a goroutine that keeps the bucket takes at most the goroutine off
\* the queue, which is a failure.
LEMMA DebtLeaves ==
  ASSUME TypeOK, Debt, NEW c \in Callers, faults' \in Nat, bucket' \in Int,
         \A d \in Callers \ {c} : call'[d] = call[d],
         \/ (Waits(c)' <=> Waits(c)) /\ faults' >= faults /\ bucket' = bucket
         \/ ~Waits(c)' /\ faults' = faults + 1 /\ bucket' >= bucket
  PROVE  Debt'
<1>1. bucket \in Int /\ faults \in Nat
  BY NavClientAssumption DEF TypeOK
<1>2. CASE (Waits(c)' <=> Waits(c)) /\ faults' >= faults /\ bucket' = bucket
  <2>1. Waiting' = Waiting
    BY <1>2 DEF Waiting, Waits
  <2> QED
    BY <1>1, <1>2, <2>1, WaitingFinite DEF Debt
<1>3. CASE ~Waits(c)' /\ faults' = faults + 1 /\ bucket' >= bucket
  <2>1. Waiting' = Waiting \ {c}
    BY <1>3 DEF Waiting, Waits
  <2>2. Cardinality(Waiting') >= Cardinality(Waiting) - 1
    BY <2>1, WaitingFinite, FS_RemoveElement
  <2> QED
    BY <1>1, <1>3, <2>2, WaitingFinite DEF Debt
<1> QED
  BY <1>2, <1>3

LEMMA DebtQueue ==
  ASSUME TypeOK, Debt, Limited, NEW c \in Callers, NEW leg, NEW token,
         call[c].pc # "wait", Queues(c, leg, token), UNCHANGED faults,
         \A d \in Callers \ {c} : call'[d] = call[d]
  PROVE  Debt'
<1>1. /\ call'[c].pc = "wait" /\ bucket' = bucket - 1
      /\ call'[c].wait = IF bucket < 1 THEN 1 - bucket ELSE 0
  BY QueuesEffect DEF Queues, Throttled
<1>2. bucket \in Int /\ faults \in Nat
  BY NavClientAssumption DEF TypeOK
<1>3. CASE bucket < 1
  <2>1. Waiting' = Waiting \cup {c} /\ c \notin Waiting
    BY <1>1, <1>2, <1>3 DEF Waiting, Waits
  <2>2. Cardinality(Waiting') = Cardinality(Waiting) + 1
    BY <2>1, WaitingFinite, FS_AddElement
  <2> QED
    BY <1>1, <1>2, <2>2, WaitingFinite DEF Debt
<1>4. CASE bucket >= 1
  BY <1>1, <1>2, <1>4, WaitingFinite DEF Debt
<1> QED
  BY <1>2, <1>3, <1>4

LEMMA DebtStep == Limited /\ TypeOK /\ Slots /\ Debt /\ [Next]_vars => Debt'
<1> SUFFICES ASSUME Limited, TypeOK, Slots, Debt, [Next]_vars
             PROVE  Debt'
  OBVIOUS
<1>0. bucket \in Int /\ faults \in Nat
  BY NavClientAssumption DEF TypeOK
<1>1. ASSUME NEW c \in Callers, SubmitInvoice(c) \/ QueryTransactionStatus(c)
      PROVE  Debt'
  <2>1. call[c].pc # "wait" /\ UNCHANGED faults
    BY <1>1 DEF SubmitInvoice, QueryTransactionStatus
  <2>2. Queues(c, "token", 0) \/ Queues(c, "query", 0)
    BY <1>1 DEF SubmitInvoice, QueryTransactionStatus
  <2> QED
    BY <1>1, <2>1, <2>2, OthersKeep, DebtQueue
<1>2. ASSUME NEW c \in Callers, Send(c)
      PROVE  Debt'
  <2>1. /\ Waits(c)' <=> Waits(c)
        /\ UNCHANGED <<bucket, faults>>
    BY <1>2 DEF Send, Waits, TypeOK, Call
  <2> QED
    BY <1>0, <1>2, <2>1, OthersKeep, DebtLeaves
<1>3. ASSUME NEW c \in Callers, Arrive(c)
      PROVE  Debt'
  <2>1. call[c].pc = "out" /\ UNCHANGED <<bucket, faults>>
    BY <1>3 DEF Arrive
  <2>2. call'[c].pc \in {"back", "idle"}
    <3>1. CASE \E answer \in Answers : Returns(c, Outcome(answer))
      BY <3>1, ReturnsEffect
    <3>2. CASE \/ call' = [call EXCEPT ![c].pc = "back", ![c].token = Len(tokens) + 1]
               \/ call' = [call EXCEPT ![c].pc = "back", ![c].registered = TRUE]
               \/ call' = [call EXCEPT ![c].pc = "back"]
      BY <3>2 DEF TypeOK, Call
    <3> QED
      BY <1>3, <3>1, <3>2 DEF Arrive
  <2>3. ~Waits(c) /\ ~Waits(c)'
    BY <2>1, <2>2 DEF Waits
  <2> QED
    BY <1>0, <1>3, <2>1, <2>3, OthersKeep, DebtLeaves
<1>4. ASSUME NEW c \in Callers, Answered(c)
      PROVE  Debt'
  <2>1. call[c].pc = "back" /\ faults' \in Nat /\ faults' >= faults
    BY <1>0, <1>4, AnsweredEffect DEF Fault
  <2>2. CASE Queues(c, "manage", call[c].token)
    <3>1. UNCHANGED faults
      <4>1. call'[c].pc = "wait"
        BY <2>2, QueuesEffect
      <4>2. \A outcome : ~Returns(c, outcome)
        BY <4>1, ReturnsEffect
      <4> QED
        BY <1>4, <4>2 DEF Answered
    <3> QED
      BY <1>4, <2>1, <2>2, <3>1, OthersKeep, DebtQueue
  <2>3. CASE bucket' = bucket /\ \E outcome \in {"ok", "retriable"} : Returns(c, outcome)
    <3>1. ~Waits(c) /\ ~Waits(c)'
      BY <2>1, <2>3, ReturnsEffect DEF Waits
    <3> QED
      BY <1>0, <1>4, <2>1, <2>3, <3>1, OthersKeep, DebtLeaves
  <2> QED
    BY <1>4, <2>2, <2>3, AnsweredEffect
<1>5. ASSUME NEW c \in Callers, Lose(c) \/ TurnedAway(c) \/ Cancel(c)
      PROVE  Debt'
  <2>1. /\ ~Waits(c)' /\ faults' = faults + 1
    BY <1>5, ReturnsEffect DEF Lose, TurnedAway, Cancel, Waits, Fault
  <2>2. bucket' \in Int /\ bucket' >= bucket
    BY <1>0, <1>5 DEF Lose, TurnedAway, Cancel
  <2> QED
    BY <1>0, <1>5, <2>1, <2>2, OthersKeep, DebtLeaves
<1>6. CASE Tick
  <2>1. /\ bucket' = IF bucket < Burst THEN bucket + 1 ELSE bucket
        /\ faults' = faults
    BY <1>6, Zenon DEF Tick
  <2>2. \A c \in Callers : call[c].wait \in Nat /\ call'[c].pc = call[c].pc
    BY <1>6, TickKeeps DEF TypeOK, Call, Keeps
  <2>3. CASE bucket < 0
    <3>1. \E c : Waiting \ {c} \subseteq Waiting'
      <4>1. \A c \in Waiting : c \notin Waiting' => call[c].wait = 1
        BY <1>6, <2>2, TickWaits DEF Waiting, Waits
      <4>2. \A c, d \in Waiting : c \notin Waiting' /\ d \notin Waiting' => c = d
        BY <4>1 DEF Slots, Waiting
      <4> QED
        BY <4>2
    <3>2. PICK c : Waiting \ {c} \subseteq Waiting'
      BY <3>1
    <3>3. Cardinality(Waiting') >= Cardinality(Waiting \ {c})
      BY <3>2, WaitingFinite, FS_Subset
    <3>4. /\ Cardinality(Waiting \ {c}) >= Cardinality(Waiting) - 1
          /\ Cardinality(Waiting \ {c}) \in Nat
      <4>1. /\ IsFiniteSet(Waiting \ {c})
            /\ Cardinality(Waiting \ {c}) = IF c \in Waiting THEN Cardinality(Waiting) - 1
                                             ELSE Cardinality(Waiting)
        BY WaitingFinite, FS_RemoveElement
      <4>2. Cardinality(Waiting \ {c}) \in Nat
        BY <4>1, FS_CardinalityType
      <4> QED
        BY <4>1, <4>2, WaitingFinite
    <3> QED
      BY <1>0, <2>1, <2>3, <3>3, <3>4, WaitingFinite, NavClientAssumption DEF Debt
  <2>4. CASE bucket >= 0
    BY <1>0, <2>1, <2>4, WaitingFinite DEF Debt
  <2> QED
    BY <1>0, <2>3, <2>4
<1>7. CASE UNCHANGED vars
  BY <1>7 DEF vars, Debt, Waiting, Waits
<1> QED
  BY <1>1, <1>2, <1>3, <1>4, <1>5, <1>6, <1>7 DEF Next

Queued == \A c \in Callers : call[c].pc = "wait" => call[c].wait <= Queue

\* Without a limiter nobody waits.
LEMMA UnlimitedStep ==
  ASSUME ~Limited, TypeOK, \A c \in Callers : call[c].wait = 0, [Next]_vars
  PROVE  \A c \in Callers : call'[c].wait = 0
<1>1. ASSUME NEW c \in Callers, NEW leg, NEW token, Queues(c, leg, token)
      PROVE  call'[c].wait = 0
  BY <1>1, QueuesEffect DEF Throttled
<1>2. ASSUME NEW c \in Callers, NEW outcome, Returns(c, outcome)
      PROVE  call'[c].wait = 0
  BY <1>2 DEF Returns, TypeOK, Idle
<1>3. ASSUME NEW c \in Callers,
             \/ SubmitInvoice(c) \/ QueryTransactionStatus(c) \/ Send(c)
             \/ Arrive(c) \/ TurnedAway(c) \/ Answered(c) \/ Lose(c) \/ Cancel(c)
      PROVE  \A d \in Callers : call'[d].wait = 0
  <2>1. call'[c].wait = 0
    <3>1. CASE SubmitInvoice(c) \/ QueryTransactionStatus(c)
      BY <1>1, <3>1 DEF SubmitInvoice, QueryTransactionStatus
    <3>2. CASE Send(c)
      BY <3>2 DEF Send, TypeOK, Call
    <3>3. CASE Arrive(c)
      <4>1. CASE \E answer \in Answers : Returns(c, Outcome(answer))
        BY <1>2, <4>1
      <4>2. CASE \/ call' = [call EXCEPT ![c].pc = "back", ![c].token = Len(tokens) + 1]
                 \/ call' = [call EXCEPT ![c].pc = "back", ![c].registered = TRUE]
                 \/ call' = [call EXCEPT ![c].pc = "back"]
        BY <4>2 DEF TypeOK, Call
      <4> QED
        BY <3>3, <4>1, <4>2 DEF Arrive
    <3>4. CASE Answered(c)
      BY <1>1, <1>2, <3>4, AnsweredEffect
    <3>5. CASE Lose(c) \/ TurnedAway(c) \/ Cancel(c)
      BY <1>2, <3>5 DEF Lose, TurnedAway, Cancel
    <3> QED
      BY <1>3, <3>1, <3>2, <3>3, <3>4, <3>5
  <2> QED
    BY <1>3, <2>1, OthersKeep
<1>4. CASE Tick
  BY <1>4, TickWaits
<1>5. CASE UNCHANGED vars
  BY <1>5 DEF vars
<1> QED
  BY <1>3, <1>4, <1>5 DEF Next

\* The queue at the limiter is no longer than there are goroutines, and those
\* that have left it early.
LEMMA QueueIsBounded == Spec => []Queued
<1>1. CASE Limited
  <2>1. Init => Slots /\ Debt
    <3> SUFFICES ASSUME Init
                 PROVE  Slots /\ Debt
      OBVIOUS
    <3>1. Ready = {} /\ \A c \in Callers : ~Waits(c)
      BY DEF Init, Ready, Waits, Idle
    <3> QED
      BY <3>1, WaitingFinite, FS_EmptySet, NavClientAssumption DEF Init, Slots, Debt
  <2>2. TypeOK /\ Slots /\ Debt => Queued
    <3> SUFFICES ASSUME TypeOK, Slots, Debt, NEW c \in Callers, call[c].pc = "wait"
                 PROVE  call[c].wait <= Queue
      BY DEF Queued
    <3>1. bucket \in Int /\ faults \in 0..MaxFaults /\ MaxFaults \in Nat /\ call[c].wait \in Nat
      BY NavClientAssumption DEF TypeOK, Call
    <3>2. -bucket <= Queue
      BY <3>1, WaitingFinite DEF Debt, Queue
    <3>3. call[c].wait = 0 \/ call[c].wait <= -bucket
      BY <3>1 DEF Slots, Waits
    <3> QED
      BY <3>1, <3>2, <3>3, WaitingFinite DEF Queue
  <2> QED
    BY <1>1, <2>1, <2>2, SlotsStep, DebtStep, TypeCorrect, PTL DEF Spec
<1>2. CASE ~Limited
  <2> DEFINE Nobody == \A c \in Callers : call[c].wait = 0
  <2>1. Init => Nobody
    BY DEF Init, Idle
  <2>2. TypeOK /\ Nobody /\ [Next]_vars => Nobody'
    BY <1>2, UnlimitedStep
  <2>3. Nobody => Queued
    BY WaitingFinite, NavClientAssumption DEF Queued, Queue
  <2> QED
    BY <2>1, <2>2, <2>3, TypeCorrect, PTL DEF Spec
<1> QED
  BY <1>1, <1>2

Fresh ==
  \A c \in Callers :
    /\ call[c].pc = "wait" => call[c].lag = 0
    /\ call[c].pc = "back" /\ call[c].leg = "token" =>
         tokens[call[c].token].age <= call[c].lag
    /\ call[c].pc = "wait" /\ call[c].leg = "manage" =>
         tokens[call[c].token].age + call[c].wait <= Latency + Queue
    /\ call[c].pc = "out" /\ call[c].leg = "manage" =>
         tokens[call[c].token].age <= Latency + Queue + call[c].lag

\* Only time makes a token older.
LEMMA Ages ==
  ASSUME TypeOK, Owned, [Next]_vars
  PROVE  /\ Len(tokens) \in Nat
         /\ \A t \in 1..Len(tokens) : tokens[t].age \in Nat
         /\ \A t \in 1..Len(tokens) : tokens'[t].age <= tokens[t].age + 1
         /\ ~Tick => \A t \in 1..Len(tokens) : tokens'[t].age = tokens[t].age
<1>0. tokens \in Seq(Token) /\ Len(tokens) \in Nat /\ DOMAIN tokens = 1..Len(tokens)
  BY LenProperties DEF TypeOK, Token
<1>1. \A t \in 1..Len(tokens) : tokens[t] \in Token /\ tokens[t].age \in Nat
  <2>1. \A t \in 1..Len(tokens) : tokens[t] \in Token
    BY <1>0, ElementOfSeq
  <2>2. \A record \in Token : record.age \in Nat
    BY NavClientAssumption DEF Token
  <2> QED
    BY <2>1, <2>2
<1>2. CASE Tick
  <2> DEFINE older(t) == [tokens[t] EXCEPT !.age = IF @ < Validity THEN @ + 1 ELSE @]
  <2>1. tokens' = [t \in 1..Len(tokens) |-> older(t)]
    BY <1>0, <1>2 DEF Tick
  <2>2. \A t \in 1..Len(tokens) :
          older(t).age = IF tokens[t].age < Validity THEN tokens[t].age + 1 ELSE tokens[t].age
    BY <1>1 DEF Token
  <2> HIDE DEF older
  <2>3. \A t \in 1..Len(tokens) : tokens'[t].age <= tokens[t].age + 1
    BY <1>1, <2>1, <2>2
  <2> QED
    BY <1>0, <1>1, <1>2, <2>3
<1>3. CASE UNCHANGED tokens
  BY <1>0, <1>1, <1>3
<1>4. ASSUME NEW c \in Callers, Arrive(c), tokens' # tokens
      PROVE  \A t \in 1..Len(tokens) : tokens'[t].age = tokens[t].age
  <2>1. CASE tokens' = Append(tokens, [age |-> 0, spent |-> 0])
    BY <1>0, <2>1
  <2>2. CASE tokens' = [tokens EXCEPT ![call[c].token].spent = @ + 1]
    BY <1>0, <1>1, <2>2 DEF Token
  <2> QED
    BY <1>4, <2>1, <2>2 DEF Arrive
<1>5. CASE ~Tick /\ tokens' # tokens
  <2>1. PICK c \in Callers : Arrive(c)
    BY <1>5 DEF Next, vars, SubmitInvoice, QueryTransactionStatus, Send, Answered, Lose, TurnedAway, Cancel
  <2> QED
    BY <1>0, <1>1, <1>4, <1>5, <2>1
<1> QED
  BY <1>2, <1>3, <1>5

\* Those that do not move keep their tokens fresh while no time passes.
LEMMA FreshStays ==
  ASSUME TypeOK, Owned, Fresh, [Next]_vars, ~Tick, NEW c \in Callers,
         call'[c] = call[c]
  PROVE  /\ call'[c].pc = "wait" => call'[c].lag = 0
         /\ call'[c].pc = "back" /\ call'[c].leg = "token" =>
              tokens'[call'[c].token].age <= call'[c].lag
         /\ call'[c].pc = "wait" /\ call'[c].leg = "manage" =>
              tokens'[call'[c].token].age + call'[c].wait <= Latency + Queue
         /\ call'[c].pc = "out" /\ call'[c].leg = "manage" =>
              tokens'[call'[c].token].age <= Latency + Queue + call'[c].lag
<1>1. Holds(c) => tokens'[call[c].token].age = tokens[call[c].token].age
  BY Ages DEF Owned
<1> QED
  BY <1>1 DEF Fresh, Holds

\* A tick makes a token older by one and shortens a wait, or lengthens a way, by
\* one.
LEMMA Ageing ==
  \A age, older, n, limit \in Nat :
    older <= age + 1 => /\ age <= n => older <= n + 1
                        /\ age + n <= limit => older + (n - 1) <= limit
                        /\ age <= limit + n => older <= limit + (n + 1)
OBVIOUS

LEMMA FreshStep == TypeOK /\ Owned /\ Fresh /\ Queued' /\ [Next]_vars => Fresh'
<1> SUFFICES ASSUME TypeOK, Owned, Fresh, Queued', [Next]_vars
             PROVE  Fresh'
  OBVIOUS
<1>0. /\ Latency \in Nat /\ Queue \in Nat /\ Len(tokens) \in Nat
      /\ \A c \in Callers : call[c].wait \in Nat /\ call[c].lag \in 0..Latency
      /\ \A t \in 1..Len(tokens) : tokens[t].age \in Nat
  <2>1. Latency \in Nat /\ Queue \in Nat
    BY WaitingFinite, NavClientAssumption DEF Queue
  <2>2. Len(tokens) \in Nat /\ \A t \in 1..Len(tokens) : tokens[t].age \in Nat
    BY Ages
  <2>3. \A c \in Callers : call[c].wait \in Nat /\ call[c].lag \in 0..Latency
    BY DEF TypeOK, Call
  <2> QED
    BY <2>1, <2>2, <2>3
<1>1. ASSUME NEW c \in Callers, ~Tick, \A d \in Callers \ {c} : call'[d] = call[d],
             call'[c].pc = "idle"
      PROVE  Fresh'
  BY <1>1, FreshStays DEF Fresh
<1>2. ASSUME NEW c \in Callers, ~Tick, \A d \in Callers \ {c} : call'[d] = call[d],
             call'[c].pc = "wait", call'[c].lag = 0, call'[c].leg # "manage"
      PROVE  Fresh'
  BY <1>2, FreshStays DEF Fresh
<1>3. ASSUME NEW c \in Callers, NEW leg, NEW token, Queues(c, leg, token)
      PROVE  call'[c].pc = "wait" /\ call'[c].leg = leg /\ call'[c].token = token
             /\ call'[c].lag = 0
  BY <1>3, QueuesEffect DEF Queues, TypeOK, Idle
<1>4. ASSUME NEW c \in Callers, SubmitInvoice(c) \/ QueryTransactionStatus(c), ~Tick
      PROVE  Fresh'
  <2>1. Queues(c, "token", 0) \/ Queues(c, "query", 0)
    BY <1>4 DEF SubmitInvoice, QueryTransactionStatus
  <2> QED
    BY <1>2, <1>3, <1>4, <2>1, OthersKeep
<1>5. ASSUME NEW c \in Callers, Send(c), ~Tick
      PROVE  Fresh'
  <2>1. /\ call[c].pc = "wait" /\ call[c].wait = 0 /\ call[c].lag = 0
        /\ call'[c].pc = "out" /\ call'[c].leg = call[c].leg /\ call'[c].lag = 0
        /\ call'[c].token = call[c].token /\ UNCHANGED tokens
    BY <1>5 DEF Send, TypeOK, Call, Fresh
  <2>2. call[c].leg = "manage" => tokens[call[c].token].age <= Latency + Queue
    <3>1. call[c].leg = "manage" => tokens[call[c].token].age \in Nat
      BY <1>0, <2>1 DEF Owned, Holds
    <3> QED
      BY <1>0, <2>1, <3>1 DEF Fresh
  <2>3. call'[c].leg = "manage" =>
          tokens'[call'[c].token].age <= Latency + Queue + call'[c].lag
    BY <1>0, <2>1, <2>2
  <2> QED
    BY <1>5, <2>1, <2>3, OthersKeep, FreshStays DEF Fresh
<1>6. ASSUME NEW c \in Callers, Arrive(c), ~Tick
      PROVE  Fresh'
  <2>1. CASE \E answer \in Answers : Returns(c, Outcome(answer))
    BY <1>1, <1>6, <2>1, OthersKeep, ReturnsEffect
  <2>2. CASE /\ tokens' = Append(tokens, [age |-> 0, spent |-> 0])
             /\ call' = [call EXCEPT ![c].pc = "back", ![c].token = Len(tokens) + 1]
    <3>1. call'[c].pc = "back" /\ call'[c].token = Len(tokens) + 1 /\ call'[c].lag = call[c].lag
      BY <2>2 DEF TypeOK, Call
    <3>2. tokens'[Len(tokens) + 1].age = 0
      BY <1>0, <2>2 DEF TypeOK
    <3>3. tokens'[call'[c].token].age <= call'[c].lag
      BY <1>0, <3>1, <3>2
    <3> QED
      BY <1>6, <3>1, <3>3, OthersKeep, FreshStays DEF Fresh
  <2>3. CASE /\ call[c].leg # "token"
             /\ \/ call' = [call EXCEPT ![c].pc = "back", ![c].registered = TRUE]
                \/ call' = [call EXCEPT ![c].pc = "back"]
    <3>1. call'[c].pc = "back" /\ call'[c].leg # "token"
      BY <2>3 DEF TypeOK, Call
    <3> QED
      BY <1>6, <3>1, OthersKeep, FreshStays DEF Fresh
  <2> QED
    BY <1>6, <2>1, <2>2, <2>3 DEF Arrive
<1>7. ASSUME NEW c \in Callers, Answered(c), ~Tick
      PROVE  Fresh'
  <2>1. CASE call[c].leg = "token" /\ Queues(c, "manage", call[c].token)
    <3>1. /\ call'[c].pc = "wait" /\ call'[c].leg = "manage" /\ call'[c].lag = 0
          /\ call'[c].token = call[c].token /\ UNCHANGED tokens
      BY <1>3, <1>7, <2>1, AnsweredEffect
    <3>2. tokens[call[c].token].age <= call[c].lag /\ tokens[call[c].token].age \in Nat
      BY <1>0, <1>7, <2>1, AnsweredEffect DEF Fresh, Owned, Holds
    <3>3. call'[c].wait <= Queue /\ call'[c].wait \in Nat
      <4>1. call'[c].wait \in Nat
        BY <2>1, QueuesType DEF TypeOK, Call, Legs
      <4> QED
        BY <3>1, <4>1 DEF Queued, Queue
    <3>4. tokens'[call'[c].token].age + call'[c].wait <= Latency + Queue
      <4>1. tokens'[call'[c].token].age = tokens[call[c].token].age
        BY <3>1
      <4>2. call[c].lag <= Latency /\ call[c].lag \in Nat
        BY <1>0
      <4> QED
        BY <1>0, <3>2, <3>3, <4>1, <4>2
    <3> QED
      BY <1>7, <3>1, <3>4, OthersKeep, FreshStays DEF Fresh
  <2>2. CASE \E outcome \in {"ok", "retriable"} : Returns(c, outcome)
    BY <1>1, <1>7, <2>2, OthersKeep, ReturnsEffect
  <2> QED
    BY <1>7, <2>1, <2>2, AnsweredEffect
<1>8. ASSUME NEW c \in Callers, Lose(c) \/ TurnedAway(c) \/ Cancel(c), ~Tick
      PROVE  Fresh'
  BY <1>1, <1>8, OthersKeep, ReturnsEffect DEF Lose, TurnedAway, Cancel
<1>9. CASE Tick
  <2> SUFFICES ASSUME NEW c \in Callers
               PROVE  /\ call'[c].pc = "wait" => call'[c].lag = 0
                      /\ call'[c].pc = "back" /\ call'[c].leg = "token" =>
                           tokens'[call'[c].token].age <= call'[c].lag
                      /\ call'[c].pc = "wait" /\ call'[c].leg = "manage" =>
                           tokens'[call'[c].token].age + call'[c].wait <= Latency + Queue
                      /\ call'[c].pc = "out" /\ call'[c].leg = "manage" =>
                           tokens'[call'[c].token].age <= Latency + Queue + call'[c].lag
    BY DEF Fresh
  <2>1. /\ call'[c].pc = call[c].pc /\ call'[c].leg = call[c].leg
        /\ call'[c].token = call[c].token
    BY <1>9, TickKeeps DEF Keeps
  <2>2. /\ call'[c].wait = IF call[c].wait > 0 THEN call[c].wait - 1 ELSE 0
        /\ call'[c].lag = IF call[c].pc \in {"out", "back"} THEN call[c].lag + 1
                          ELSE call[c].lag
    BY <1>9, TickWaits
  <2>3. call[c].pc = "wait" => call[c].wait > 0
    BY <1>9, Zenon DEF Tick
  <2> DEFINE mine == call[c].token
  <2>4. Holds(c) => /\ tokens[mine].age \in Nat
                    /\ tokens'[mine].age <= tokens[mine].age + 1
                    /\ tokens'[mine].age \in Nat
    <3>1. Holds(c) => mine \in 1..Len(tokens)
      BY DEF Owned
    <3>2. Len(tokens') = Len(tokens) /\ \A t \in 1..Len(tokens') : tokens'[t].age \in Nat
      <4>1. tokens' \in Seq(Token)
        BY <1>9, TickType DEF TypeOK, Token
      <4>2. \A record \in Token : record.age \in Nat
        BY NavClientAssumption DEF Token
      <4> QED
        BY <1>9, <4>1, <4>2, ElementOfSeq, TickKeeps
    <3> QED
      BY <3>1, <3>2, Ages
  <2>5. Holds(c) <=> \/ call[c].pc = "back" /\ call[c].leg = "token"
                     \/ call[c].pc \in {"wait", "out"} /\ call[c].leg = "manage"
    BY DEF Holds
  <2> HIDE DEF mine
  <2>6. /\ call[c].pc = "wait" => call[c].lag = 0
        /\ call[c].pc = "back" /\ call[c].leg = "token" => tokens[mine].age <= call[c].lag
        /\ call[c].pc = "wait" /\ call[c].leg = "manage" =>
             tokens[mine].age + call[c].wait <= Latency + Queue
        /\ call[c].pc = "out" /\ call[c].leg = "manage" =>
             tokens[mine].age <= Latency + Queue + call[c].lag
    BY DEF Fresh, mine
  <2>7. call[c].wait \in Nat /\ call[c].lag \in Nat
    BY <1>0
  <2>8. call[c].pc = "wait" => call'[c].lag = 0
    BY <2>2, <2>6
  <2>9. call[c].pc = "back" /\ call[c].leg = "token" => tokens'[mine].age <= call'[c].lag
    BY <2>2, <2>4, <2>5, <2>6, <2>7, Ageing
  <2>10. call[c].pc = "wait" /\ call[c].leg = "manage" =>
           tokens'[mine].age + call'[c].wait <= Latency + Queue
    <3> SUFFICES ASSUME call[c].pc = "wait", call[c].leg = "manage"
                 PROVE  tokens'[mine].age + call'[c].wait <= Latency + Queue
      OBVIOUS
    <3>1. call'[c].wait = call[c].wait - 1
      BY <2>2, <2>3
    <3>2. Latency + Queue \in Nat
      BY <1>0
    <3>3. /\ tokens[mine].age \in Nat /\ tokens'[mine].age \in Nat
          /\ tokens'[mine].age <= tokens[mine].age + 1
          /\ tokens[mine].age + call[c].wait <= Latency + Queue
      BY <2>4, <2>5, <2>6
    <3> QED
      BY <2>7, <3>1, <3>2, <3>3, Ageing
  <2>11. call[c].pc = "out" /\ call[c].leg = "manage" =>
           tokens'[mine].age <= Latency + Queue + call'[c].lag
    <3> SUFFICES ASSUME call[c].pc = "out", call[c].leg = "manage"
                 PROVE  tokens'[mine].age <= Latency + Queue + call'[c].lag
      OBVIOUS
    <3>1. call'[c].lag = call[c].lag + 1
      BY <2>2
    <3>2. Latency + Queue \in Nat
      BY <1>0
    <3>3. /\ tokens[mine].age \in Nat /\ tokens'[mine].age \in Nat
          /\ tokens'[mine].age <= tokens[mine].age + 1
          /\ tokens[mine].age <= (Latency + Queue) + call[c].lag
      BY <2>4, <2>5, <2>6
    <3> QED
      BY <2>7, <3>1, <3>2, <3>3, Ageing
  <2> QED
    BY <2>1, <2>8, <2>9, <2>10, <2>11 DEF mine
<1>10. CASE UNCHANGED vars
  BY <1>10 DEF vars, Fresh
<1> QED
  BY <1>4, <1>5, <1>6, <1>7, <1>8, <1>9, <1>10 DEF Next

\* If NAV's tokens are good for longer than two round trips and the longest
\* queue, none expires while the request that spends it waits at the limiter
\* and travels (SubmitInvoice, limiter.Wait).
THEOREM TokensStayFresh == Spec => []TokenInTime
<1>1. Init => Owned /\ Fresh
  BY DEF Init, Owned, Fresh, Holds, Idle
<1>2. TypeOK /\ Owned /\ Fresh => TokenInTime
  <2> SUFFICES ASSUME TypeOK, Owned, Fresh, Ample, NEW c \in Callers,
                      call[c].pc = "out", call[c].leg = "manage"
               PROVE  tokens[call[c].token].age < Validity
    BY DEF TokenInTime
  <2>1. call[c].token \in 1..Len(tokens)
    BY DEF Owned, Holds
  <2>2. tokens[call[c].token].age \in Nat
    <3>1. \A record \in Token : record.age \in Nat
      BY NavClientAssumption DEF Token
    <3> QED
      BY <2>1, <3>1, ElementOfSeq DEF TypeOK, Token
  <2>3. tokens[call[c].token].age <= Latency + Queue + call[c].lag
    BY DEF Fresh
  <2>4. /\ call[c].lag \in Nat /\ call[c].lag <= Latency /\ Latency \in Nat /\ Validity \in Nat
        /\ Cardinality(Callers) \in Nat /\ MaxFaults \in Nat
    BY WaitingFinite, NavClientAssumption DEF TypeOK, Call
  <2> QED
    BY <2>2, <2>3, <2>4 DEF Ample, Queue
<1> QED
  BY <1>1, <1>2, OwnedStep, FreshStep, QueueIsBounded, TypeCorrect, PTL DEF Spec
=============================================================================
