----------------------------- MODULE LLMGateway -----------------------------
(***************************************************************************)
(* LLMGateway.complete (app/services/llm_gateway.py) as the stages call    *)
(* it: with a response model and without the cache.                        *)
(*                                                                         *)
(* Each caller is the flow of a run of its own and makes one call after    *)
(* the other; all flows of a process share the rate limiter.  Time is      *)
(* kept as ages, which stop counting at Interval, and as timers that run   *)
(* down to zero; Tick lets one unit pass.  A cost is in units finer than   *)
(* the meter's.                                                            *)
(***************************************************************************)
EXTENDS Integers, Sequences

CONSTANTS
  Callers,
  Interval,     \* _MIN_CALL_INTERVAL
  LimitDelays,  \* the delays before the retries of a RateLimitError
  FaultDelays,  \* those of ServiceUnavailableError and APIConnectionError
  MaxRetries,   \* the gateway's max_retries: schema retries of one call
  Unit,         \* the meter's _ROUNDING
  Costs,        \* costs of one answer
  MaxCalls      \* bound: calls of complete

Tries == Len(LimitDelays)     \* max_retries of _call_with_rate_limit_retry
Delays == {LimitDelays[i] : i \in 1 .. Tries} \cup {FaultDelays[i] : i \in 1 .. Tries}

ASSUME GatewayAssumption ==
  /\ Interval \in Nat /\ MaxRetries \in Nat /\ MaxCalls \in Nat
  /\ LimitDelays \in Seq(Nat) /\ FaultDelays \in Seq(Nat)
  /\ Len(FaultDelays) = Len(LimitDelays)
  /\ \A d \in Delays : d >= Interval
  /\ Unit \in Nat \ {0} /\ Unit % 2 = 0 /\ Costs \subseteq Nat

VARIABLES
  age,       \* time since _call_timestamps[-1]
  pc,        \* per caller: idle, gate, asleep, calling, backoff or meter
  attempt,   \* schema attempts that failed
  retry,     \* provider retries of this attempt
  timer,     \* time it still has to sleep
  own,       \* history: time since its last provider call ended
  failed,    \* history: did that call fail for good?
  due,       \* the cost of the answer it is about to record
  spent,     \* runs.cost_spent_usd of its run, in units of the meter
  paid,      \* history: the cost of all answers of its run
  metered,   \* history: the number of its answers recorded
  unmetered, \* history: the cost of its answers that never will be
  missed,    \* history: the number of these
  raised,    \* history: its calls of complete that ended in an exception
  calls      \* number of calls begun

control == <<pc, attempt, retry, timer>>
money == <<due, spent, paid, metered, unmetered, missed>>
vars == <<age, own, failed, raised, control, money, calls>>

Init ==
  /\ age = Interval /\ calls = 0
  /\ pc = [c \in Callers |-> "idle"]
  /\ own = [c \in Callers |-> Interval]
  /\ failed = [c \in Callers |-> FALSE] /\ raised = [c \in Callers |-> 0]
  /\ attempt = [c \in Callers |-> 0] /\ retry = [c \in Callers |-> 0]
  /\ timer = [c \in Callers |-> 0] /\ due = [c \in Callers |-> 0]
  /\ spent = [c \in Callers |-> 0] /\ paid = [c \in Callers |-> 0]
  /\ metered = [c \in Callers |-> 0] /\ unmetered = [c \in Callers |-> 0]
  /\ missed = [c \in Callers |-> 0]

Put(f, c, v) == [f EXCEPT ![c] = v]
Add(f, c, v) == [f EXCEPT ![c] = @ + v]
Goto(c, from, to) == pc[c] = from /\ pc' = Put(pc, c, to)

\* complete() leaves its loops, with a result ...
Return(c) ==
  /\ pc' = Put(pc, c, "idle")
  /\ attempt' = Put(attempt, c, 0)
  /\ retry' = Put(retry, c, 0)

\* ... or an exception.
Raise(c) == Return(c) /\ raised' = Add(raised, c, 1)

\* An answer that was paid for is given up without a record of its cost.
Forget(c, cost) ==
  /\ unmetered' = Add(unmetered, c, cost)
  /\ missed' = Add(missed, c, 1)

Begin(c) ==
  /\ calls < MaxCalls /\ calls' = calls + 1
  /\ Goto(c, "idle", "gate")
  /\ UNCHANGED <<age, own, failed, raised, attempt, retry, timer, money>>

\* The limiter looks at the last timestamp once, then sleeps or calls.
Gate(c) ==
  /\ \/ age < Interval
        /\ Goto(c, "gate", "asleep")
        /\ timer' = Put(timer, c, Interval - age)
     \/ age >= Interval /\ Goto(c, "gate", "calling") /\ UNCHANGED timer
  /\ UNCHANGED <<age, own, failed, raised, attempt, retry, money, calls>>

Wake(c) ==
  /\ pc[c] \in {"asleep", "backoff"} /\ timer[c] = 0
  /\ pc' = Put(pc, c, "calling")
  /\ UNCHANGED <<age, own, failed, raised, attempt, retry, timer, money, calls>>

\* Mutant: the timestamp is only taken when there was none.
Stamp_FirstOnly(c, cost) ==
  /\ age' = age /\ own' = Put(own, c, 0) /\ failed' = Put(failed, c, FALSE)
  /\ paid' = Add(paid, c, cost)

\* The provider answers: the timestamp is taken and the answer is paid for.
Stamp(c, cost) ==
  /\ age' = 0 /\ own' = Put(own, c, 0) /\ failed' = Put(failed, c, FALSE)
  /\ paid' = Add(paid, c, cost)

AnswerValid(c, cost) ==
  /\ Goto(c, "calling", "meter")
  /\ Stamp(c, cost)
  /\ due' = Put(due, c, cost)
  /\ UNCHANGED <<raised, attempt, retry, timer, spent, metered, unmetered, missed,
                 calls>>

\* Schema validation fails: the next attempt goes through the limiter again;
\* after the last one QuarantineError is raised.
AnswerInvalid(c, cost) ==
  /\ pc[c] = "calling"
  /\ Stamp(c, cost) /\ Forget(c, cost)
  /\ \/ /\ attempt[c] < MaxRetries
        /\ pc' = Put(pc, c, "gate")
        /\ attempt' = Add(attempt, c, 1)
        /\ retry' = Put(retry, c, 0)
        /\ UNCHANGED raised
     \/ attempt[c] = MaxRetries /\ Raise(c)
  /\ UNCHANGED <<timer, due, spent, metered, calls>>

\* _extract_content finds no choices in the answer, or no message: outside the
\* try of the attempt, so that it propagates.
AnswerUnreadable(c, cost) ==
  /\ pc[c] = "calling"
  /\ Stamp(c, cost) /\ Forget(c, cost)
  /\ Raise(c)
  /\ UNCHANGED <<timer, due, spent, metered, calls>>

\* Mutant: the retry counter starts anew.
ProviderBusy_NoCount(c, delays) ==
  /\ retry[c] < Tries
  /\ Goto(c, "calling", "backoff")
  /\ retry' = retry
  /\ timer' = Put(timer, c, delays[retry[c] + 1])
  /\ own' = Put(own, c, 0) /\ failed' = Put(failed, c, FALSE)
  /\ UNCHANGED <<age, raised, attempt, money, calls>>

\* A transient error with retries left: back off, then call at once.
ProviderBusy(c, delays) ==
  /\ retry[c] < Tries
  /\ Goto(c, "calling", "backoff")
  /\ retry' = Add(retry, c, 1)
  /\ timer' = Put(timer, c, delays[retry[c] + 1])
  /\ own' = Put(own, c, 0) /\ failed' = Put(failed, c, FALSE)
  /\ UNCHANGED <<age, raised, attempt, money, calls>>

\* Quota exhausted, retries exhausted, or any other error: it propagates, the
\* stage fails and no timestamp is taken.
ProviderFails(c) ==
  /\ pc[c] = "calling"
  /\ Raise(c)
  /\ own' = Put(own, c, 0) /\ failed' = Put(failed, c, TRUE)
  /\ UNCHANGED <<age, timer, money, calls>>

\* Mutant: the cost is cut off.
Rounded_Down(cost) == cost \div Unit

\* ROUND_HALF_UP to the meter's unit.
Rounded(cost) == (cost + Unit \div 2) \div Unit

\* CostMeter.record_call on the caller's own run.
RecordCall(c) ==
  /\ pc[c] = "meter"
  /\ Return(c)
  /\ spent' = Add(spent, c, Rounded(due[c]))
  /\ metered' = Add(metered, c, 1)
  /\ due' = Put(due, c, 0)
  /\ UNCHANGED <<age, own, failed, raised, timer, paid, unmetered, missed, calls>>

\* record_call raises: no cost or a negative one, no row, or the commit fails.
RecordFails(c) ==
  /\ pc[c] = "meter"
  /\ Raise(c) /\ Forget(c, due[c])
  /\ due' = Put(due, c, 0)
  /\ UNCHANGED <<age, own, failed, timer, spent, paid, metered, calls>>

\* A process that waits for nothing but time lets it pass.
Tick ==
  /\ age' = IF age < Interval THEN age + 1 ELSE age
  /\ own' = [c \in Callers |-> IF own[c] < Interval THEN own[c] + 1 ELSE own[c]]
  /\ timer' = [c \in Callers |-> IF timer[c] > 0 THEN timer[c] - 1 ELSE 0]
  /\ UNCHANGED <<failed, raised, pc, attempt, retry, money, calls>>

CallStep(c) ==
  \/ Gate(c) \/ Wake(c) \/ RecordCall(c) \/ RecordFails(c) \/ ProviderFails(c)
  \/ \E cost \in Costs :
       AnswerValid(c, cost) \/ AnswerInvalid(c, cost) \/ AnswerUnreadable(c, cost)
  \/ ProviderBusy(c, LimitDelays) \/ ProviderBusy(c, FaultDelays)

Next == Tick \/ \E c \in Callers : Begin(c) \/ CallStep(c)

Spec == Init /\ [][Next]_vars

\* Time passes, coroutines are scheduled and the provider answers or raises.
FairSpec == Spec /\ WF_vars(Tick) /\ \A c \in Callers : WF_vars(CallStep(c))

-----------------------------------------------------------------------------
(* Properties *)

TypeOK ==
  /\ age \in 0 .. Interval
  /\ own \in [Callers -> 0 .. Interval] /\ failed \in [Callers -> BOOLEAN]
  /\ pc \in [Callers -> {"idle", "gate", "asleep", "calling", "backoff", "meter"}]
  /\ attempt \in [Callers -> 0 .. MaxRetries]
  /\ retry \in [Callers -> 0 .. Tries]
  /\ timer \in [Callers -> Nat]
  /\ due \in [Callers -> Costs \cup {0}]
  /\ spent \in [Callers -> Nat] /\ metered \in [Callers -> Nat]
  /\ paid \in [Callers -> Nat] /\ unmetered \in [Callers -> Nat]
  /\ missed \in [Callers -> Nat] /\ raised \in [Callers -> Nat]
  /\ calls \in 0 .. MaxCalls

\* Whatever its concurrent flows do to the shared timestamps, a flow starts a
\* provider call, a schema retry or a transient retry no sooner than Interval
\* after its previous one ended: n flows make at most n times the quota.  Only
\* a call that failed for good leaves no time behind (llm_gateway.py:243).
OwnCallsAreSpaced ==
  [][\A c \in Callers :
       pc[c] # "calling" /\ pc'[c] = "calling" =>
         own[c] >= Interval \/ failed[c]]_vars

\* "Global rate limiter: ensure >= 4s between calls (15 RPM)"
\* (llm_gateway.py:232).  Refuted: two flows that look before either calls
\* call together.
SpacedAcrossFlows ==
  [][\A c, d \in Callers :
       pc[c] # "calling" /\ pc'[c] = "calling" =>
         pc[d] # "calling" /\ own[d] >= Interval]_vars

\* What the breaker compares with the budget is what was paid, to half a unit
\* of rounding per recorded answer, but for the answers that are given up; and
\* of these there are at most MaxRetries for each recorded one and one more for
\* each call of complete that raised.  That a paid answer may be lost, to its
\* schema, to its shape or to the meter itself, is the code's doing.
MeterDriftIsBounded ==
  \A c \in Callers :
    LET drift == Unit * spent[c] - (paid[c] - unmetered[c] - due[c])
    IN  /\ 2 * drift <= Unit * metered[c] /\ -2 * drift <= Unit * metered[c]
        /\ missed[c] <=
             MaxRetries * metered[c] + (MaxRetries + 1) * raised[c] + attempt[c]

\* Every call of complete ends: the two retry loops are bounded and nothing
\* the other flows do keeps a caller asleep.
EveryCallReturns == \A c \in Callers : pc[c] # "idle" ~> pc[c] = "idle"
=============================================================================
