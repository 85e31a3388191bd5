-------------------------- MODULE LLMGatewayProofs --------------------------
(***************************************************************************)
(* Proofs about LLMGateway for any number of concurrent flows, any delays, *)
(* costs and rounding unit, and any number of calls and retries.           *)
(***************************************************************************)
EXTENDS LLMGateway, TLAPS

(***************************************************************************)
(* Type correctness.                                                       *)
(***************************************************************************)

\* The delays before retries are at least the limiter's interval.
LEMMA DelayType ==
  ASSUME NEW delays \in {LimitDelays, FaultDelays}, NEW i \in 1 .. Tries
  PROVE  delays[i] \in Nat /\ delays[i] >= Interval
<1>1. delays \in Seq(Nat) /\ Len(delays) = Tries
  BY GatewayAssumption DEF Tries
<1>2. delays[i] \in Nat
  BY <1>1
<1>3. delays[i] \in Delays
  BY DEF Delays
<1>. QED
  BY <1>2, <1>3, GatewayAssumption

LEMMA Constants ==
  /\ Interval \in Nat /\ MaxRetries \in Nat /\ MaxCalls \in Nat
  /\ Tries \in Nat /\ Costs \subseteq Nat /\ Unit \in Nat
  BY GatewayAssumption DEF Tries

\* What an answer costs, rounded to the meter's unit, is a number.
LEMMA Division ==
  ASSUME NEW a \in Nat, NEW b \in Nat \ {0}
  PROVE  /\ a \div b \in Nat
         /\ b * (a \div b) <= a /\ a < b * (a \div b) + b
<1>1. a = b * (a \div b) + (a % b) /\ a % b \in 0 .. b - 1
  BY SMT
<1>2. a \div b \in Nat
  BY SMT
<1>. QED
  BY <1>1, <1>2

\* Rounding moves a cost by at most half a unit.
LEMMA RoundedNear ==
  ASSUME NEW cost \in Nat
  PROVE  /\ Rounded(cost) \in Nat
         /\ 2 * (Unit * Rounded(cost) - cost) <= Unit
         /\ -2 * (Unit * Rounded(cost) - cost) <= Unit
<1>1. PICK h \in Nat : h = Unit \div 2 /\ 2 * h = Unit
  BY GatewayAssumption
<1>2. PICK q \in Nat : q = Rounded(cost)
  BY <1>1, Division, GatewayAssumption DEF Rounded
<1>3. Unit * q <= cost + h /\ cost + h < Unit * q + Unit
  BY <1>1, <1>2, Division, GatewayAssumption DEF Rounded
<1>4. PICK r \in Nat : r = Unit * q
  BY GatewayAssumption
<1>5. 2 * (r - cost) <= Unit /\ -2 * (r - cost) <= Unit
  BY <1>1, <1>3, <1>4, GatewayAssumption
<1>. QED
  BY <1>2, <1>4, <1>5

LEMMA DueType ==
  ASSUME TypeOK, NEW c \in Callers
  PROVE  due[c] \in Nat
<1>1. due[c] \in Costs \/ due[c] = 0
  BY DEF TypeOK
<1>2. CASE due[c] \in Costs
  BY <1>2, Constants, Zenon
<1>3. CASE due[c] = 0
  BY <1>3
<1>. QED
  BY <1>1, <1>2, <1>3

LEMMA InitTypeOK == Init => TypeOK
  BY Constants DEF Init, TypeOK

LEMMA NextTypeOK == TypeOK /\ [Next]_vars => TypeOK'
<1> SUFFICES ASSUME TypeOK, [Next]_vars PROVE TypeOK'
  OBVIOUS
<1>. USE Constants DEF TypeOK, control, money, Put, Add, Goto, Return, Raise, Forget
<1>1. CASE Tick
  BY <1>1 DEF Tick
<1>2. ASSUME NEW c \in Callers, Begin(c)
      PROVE  TypeOK'
  BY <1>2 DEF Begin
<1>3. ASSUME NEW c \in Callers, Gate(c)
      PROVE  TypeOK'
  BY <1>3 DEF Gate
<1>4. ASSUME NEW c \in Callers, Wake(c)
      PROVE  TypeOK'
  BY <1>4 DEF Wake
<1>5. ASSUME NEW c \in Callers, RecordCall(c)
      PROVE  TypeOK'
  <2>1. Rounded(due[c]) \in Nat
    BY DueType, RoundedNear
  <2>. QED
    BY <1>5, <2>1 DEF RecordCall
<1>6. ASSUME NEW c \in Callers, ProviderFails(c)
      PROVE  TypeOK'
  BY <1>6 DEF ProviderFails
<1>7. ASSUME NEW c \in Callers, NEW cost \in Costs, AnswerValid(c, cost)
      PROVE  TypeOK'
  BY <1>7 DEF AnswerValid, Stamp
<1>8. ASSUME NEW c \in Callers, NEW cost \in Costs, AnswerInvalid(c, cost)
      PROVE  TypeOK'
  BY <1>8 DEF AnswerInvalid, Stamp
<1>9. ASSUME NEW c \in Callers, NEW delays \in {LimitDelays, FaultDelays},
             ProviderBusy(c, delays)
      PROVE  TypeOK'
  <2>1. retry[c] + 1 \in 1 .. Tries
    BY <1>9 DEF ProviderBusy
  <2>2. delays[retry[c] + 1] \in Nat
    BY <2>1, DelayType
  <2>. QED
    BY <1>9, <2>1, <2>2 DEF ProviderBusy
<1>10. CASE UNCHANGED vars
  BY <1>10 DEF vars
<1>11. ASSUME NEW c \in Callers, RecordFails(c)
      PROVE  TypeOK'
  BY <1>11, DueType DEF RecordFails
<1>12. ASSUME NEW c \in Callers, NEW cost \in Costs, AnswerUnreadable(c, cost)
      PROVE  TypeOK'
  BY <1>12 DEF AnswerUnreadable, Stamp
<1>. QED
  BY <1>1, <1>2, <1>3, <1>4, <1>5, <1>6, <1>7, <1>8, <1>9, <1>10, <1>11, <1>12
     DEF Next, CallStep

\* Every variable of the gateway keeps its type.
THEOREM TypeCorrect == Spec => []TypeOK
<1>. QED
  BY InitTypeOK, NextTypeOK, PTL DEF Spec

(***************************************************************************)
(* The spacing of a flow's own calls.                                      *)
(***************************************************************************)

\* The limiter measures from the last call of any flow, a flow's own last call
\* is at least as long ago; and what a sleep has left makes up for what is
\* missing, whichever of the two loops it is in; until a call fails for good.
SpacingInv ==
  \A c \in Callers :
    ~ failed[c] =>
      /\ pc[c] \in {"idle", "gate", "meter"} => age <= own[c]
      /\ pc[c] \in {"asleep", "backoff"} => own[c] + timer[c] >= Interval
      /\ pc[c] = "calling" => own[c] = Interval

LEMMA SpacingStep ==
  ASSUME TypeOK, SpacingInv, [Next]_vars
  PROVE  SpacingInv'
<1>. USE Constants DEF TypeOK, SpacingInv, control, money, Put, Add, Goto, Return, Raise, Forget
<1>1. CASE Tick
  BY <1>1 DEF Tick
<1>2. ASSUME NEW c \in Callers, Begin(c)
      PROVE  SpacingInv'
  BY <1>2 DEF Begin
<1>3. ASSUME NEW c \in Callers, Gate(c)
      PROVE  SpacingInv'
  BY <1>3 DEF Gate
<1>4. ASSUME NEW c \in Callers, Wake(c)
      PROVE  SpacingInv'
  BY <1>4 DEF Wake
<1>5. ASSUME NEW c \in Callers, RecordCall(c)
      PROVE  SpacingInv'
  BY <1>5 DEF RecordCall
<1>6. ASSUME NEW c \in Callers, ProviderFails(c)
      PROVE  SpacingInv'
  BY <1>6 DEF ProviderFails
<1>7. ASSUME NEW c \in Callers, NEW cost \in Costs, AnswerValid(c, cost)
      PROVE  SpacingInv'
  BY <1>7 DEF AnswerValid, Stamp
<1>8. ASSUME NEW c \in Callers, NEW cost \in Costs, AnswerInvalid(c, cost)
      PROVE  SpacingInv'
  BY <1>8 DEF AnswerInvalid, Stamp
<1>9. ASSUME NEW c \in Callers, NEW delays \in {LimitDelays, FaultDelays},
             ProviderBusy(c, delays)
      PROVE  SpacingInv'
  <2>1. retry[c] + 1 \in 1 .. Tries
    BY <1>9 DEF ProviderBusy
  <2>2. delays[retry[c] + 1] \in Nat /\ delays[retry[c] + 1] >= Interval
    BY <2>1, DelayType
  <2>. QED
    BY <1>9, <2>2 DEF ProviderBusy
<1>10. CASE UNCHANGED vars
  BY <1>10 DEF vars
<1>11. ASSUME NEW c \in Callers, RecordFails(c)
      PROVE  SpacingInv'
  BY <1>11 DEF RecordFails
<1>12. ASSUME NEW c \in Callers, NEW cost \in Costs, AnswerUnreadable(c, cost)
      PROVE  SpacingInv'
  BY <1>12 DEF AnswerUnreadable, Stamp
<1>. QED
  BY <1>1, <1>2, <1>3, <1>4, <1>5, <1>6, <1>7, <1>8, <1>9, <1>10, <1>11, <1>12
     DEF Next, CallStep

LEMMA CallsAreSpaced ==
  ASSUME TypeOK, SpacingInv, [Next]_vars,
         NEW c \in Callers, pc[c] # "calling", pc'[c] = "calling"
  PROVE  own[c] >= Interval \/ failed[c]
<1>. USE Constants DEF TypeOK, SpacingInv, control, Put, Goto, Return, Raise
<1>1. ASSUME NEW d \in Callers, Gate(d) \/ Wake(d)
      PROVE  own[c] >= Interval \/ failed[c]
  BY <1>1 DEF Gate, Wake
<1>2. ASSUME NEW d \in Callers, Begin(d) \/ RecordCall(d) \/ RecordFails(d) \/ ProviderFails(d)
      PROVE  FALSE
  BY <1>2 DEF Begin, RecordCall, RecordFails, ProviderFails
<1>3. ASSUME NEW d \in Callers, NEW cost \in Costs,
             AnswerValid(d, cost) \/ AnswerInvalid(d, cost) \/ AnswerUnreadable(d, cost)
      PROVE  FALSE
  BY <1>3 DEF AnswerValid, AnswerInvalid, AnswerUnreadable
<1>4. ASSUME NEW d \in Callers, NEW delays, ProviderBusy(d, delays)
      PROVE  FALSE
  BY <1>4 DEF ProviderBusy
<1>5. CASE Tick \/ UNCHANGED vars
  BY <1>5 DEF Tick, vars
<1>. QED
  BY <1>1, <1>2, <1>3, <1>4, <1>5 DEF Next, CallStep

\* Whatever concurrent flows do to the shared timestamps (llm_gateway.py:235), a
\* flow starts a provider call no sooner than Interval after its previous one,
\* unless that one raised for good.
THEOREM FlowsAreSpaced == Spec => OwnCallsAreSpaced
<1>1. Init => SpacingInv
  <2> SUFFICES ASSUME Init, NEW c \in Callers
               PROVE  pc[c] = "idle" /\ age <= own[c]
    BY DEF SpacingInv
  <2>. QED
    BY Constants DEF Init
<1>. DEFINE Spaced ==
       \A c \in Callers :
         pc[c] # "calling" /\ pc'[c] = "calling" =>
           own[c] >= Interval \/ failed[c]
<1>2. TypeOK /\ SpacingInv /\ [Next]_vars => SpacingInv'
  BY SpacingStep
<1>3. TypeOK /\ SpacingInv /\ [Next]_vars => [Spaced]_vars
  BY CallsAreSpaced
<1>. QED
  BY <1>1, <1>2, <1>3, TypeCorrect, PTL DEF Spec, OwnCallsAreSpaced

(***************************************************************************)
(* The meter.                                                              *)
(***************************************************************************)

\* The meter follows what was paid for the answers it records.
Close(c) ==
  LET drift == Unit * spent[c] - (paid[c] - unmetered[c] - due[c])
  IN  2 * drift <= Unit * metered[c] /\ -2 * drift <= Unit * metered[c]

\* The answers given up, against those recorded and the calls that raised.
Few(c) ==
  missed[c] <= MaxRetries * metered[c] + (MaxRetries + 1) * raised[c] + attempt[c]

\* A cost is due from its answer until it is recorded or lost.
MeterOf(c) == Close(c) /\ Few(c) /\ (pc[c] # "meter" => due[c] = 0)
MeterInv == \A c \in Callers : MeterOf(c)

Unmoved(c) ==
  /\ due'[c] = due[c] /\ metered'[c] = metered[c] /\ spent'[c] = spent[c]
  /\ paid'[c] = paid[c] /\ unmetered'[c] = unmetered[c] /\ missed'[c] = missed[c]
  /\ raised'[c] = raised[c] /\ attempt'[c] = attempt[c] /\ pc'[c] = pc[c]

LEMMA MeterTypes ==
  ASSUME TypeOK, NEW c \in Callers
  PROVE  /\ due[c] \in Nat /\ metered[c] \in Nat /\ spent[c] \in Nat
         /\ paid[c] \in Nat /\ unmetered[c] \in Nat /\ missed[c] \in Nat
         /\ raised[c] \in Nat /\ attempt[c] \in Nat /\ attempt[c] <= MaxRetries
  BY DueType, Constants DEF TypeOK

\* A cost moves from what is paid to what is given up, or is not there yet.
LEMMA CloseKept ==
  ASSUME TypeOK, NEW c \in Callers, Close(c), spent'[c] = spent[c], metered'[c] = metered[c],
         due'[c] \in Nat, paid'[c] \in Nat, unmetered'[c] \in Nat,
         paid'[c] - unmetered'[c] - due'[c] = paid[c] - unmetered[c] - due[c]
  PROVE  Close(c)'
  BY DEF Close

\* No answer is given up that is not counted on the other side.
LEMMA FewKept ==
  ASSUME TypeOK, NEW c \in Callers, Few(c), metered'[c] = metered[c],
         \/ /\ missed'[c] = missed[c]
            /\ \/ raised'[c] = raised[c] /\ attempt'[c] = attempt[c]
               \/ raised'[c] = raised[c] + 1 /\ attempt'[c] = 0
         \/ /\ missed'[c] = missed[c] + 1
            /\ \/ raised'[c] = raised[c] /\ attempt'[c] = attempt[c] + 1
               \/ raised'[c] = raised[c] + 1 /\ attempt'[c] = 0
  PROVE  Few(c)'
<1>. USE Constants, MeterTypes
<1>1. PICK m \in Nat : m = MaxRetries * metered[c]
  OBVIOUS
<1>2. PICK r \in Nat : r = (MaxRetries + 1) * raised[c]
  OBVIOUS
<1>3. (MaxRetries + 1) * (raised[c] + 1) = r + MaxRetries + 1
  BY <1>2
<1>4. missed[c] <= m + r + attempt[c]
  BY <1>1, <1>2 DEF Few
<1>5. CASE raised'[c] = raised[c]
  BY <1>1, <1>2, <1>4, <1>5 DEF Few
<1>6. CASE raised'[c] = raised[c] + 1
  <2>1. missed'[c] <= m + (r + MaxRetries + 1) + 0
    BY <1>4, <1>6
  <2>. QED
    BY <1>1, <1>3, <1>6, <2>1 DEF Few
<1>. QED
  BY <1>5, <1>6

\* A step of one flow leaves alone what is counted for the others.
LEMMA OtherFlows ==
  ASSUME TypeOK, NEW c \in Callers, Begin(c) \/ CallStep(c), NEW d \in Callers \ {c}
  PROVE  Unmoved(d)
<1>. USE DEF Unmoved, TypeOK, control, money, Put, Add, Goto, Return, Raise, Forget, Stamp
<1>1. CASE Begin(c) \/ Gate(c) \/ Wake(c) \/ ProviderFails(c)
  BY <1>1 DEF Begin, Gate, Wake, ProviderFails
<1>2. CASE RecordCall(c) \/ RecordFails(c)
  BY <1>2 DEF RecordCall, RecordFails
<1>3. ASSUME NEW cost \in Costs,
             AnswerValid(c, cost) \/ AnswerInvalid(c, cost) \/ AnswerUnreadable(c, cost)
      PROVE  Unmoved(d)
  BY <1>3 DEF AnswerValid, AnswerInvalid, AnswerUnreadable
<1>4. ASSUME NEW delays, ProviderBusy(c, delays)
      PROVE  Unmoved(d)
  BY <1>4 DEF ProviderBusy
<1>. QED
  BY <1>1, <1>2, <1>3, <1>4 DEF CallStep

LEMMA RecordStep ==
  ASSUME TypeOK, NEW c \in Callers, Close(c), Few(c), RecordCall(c)
  PROVE  Close(c)' /\ Few(c)' /\ due'[c] = 0
<1>. USE Constants, MeterTypes
<1>1. PICK q \in Nat : q = Rounded(due[c])
  BY RoundedNear
<1>2. PICK before \in Nat : before = Unit * spent[c]
  OBVIOUS
<1>3. PICK more \in Nat : more = Unit * q
  OBVIOUS
<1>4. PICK bound \in Nat : bound = Unit * metered[c]
  OBVIOUS
<1>5. /\ 2 * (more - due[c]) <= Unit /\ -2 * (more - due[c]) <= Unit
  BY <1>1, <1>3, RoundedNear
<1>6. /\ Unit * (spent[c] + q) = before + more
      /\ Unit * (metered[c] + 1) = bound + Unit
  BY <1>2, <1>3, <1>4
<1>7. LET drift == before - (paid[c] - unmetered[c] - due[c])
      IN  2 * drift <= bound /\ -2 * drift <= bound
  BY <1>2, <1>4 DEF Close
<1>8. LET drift == before + more - (paid[c] - unmetered[c] - 0)
      IN  2 * drift <= bound + Unit /\ -2 * drift <= bound + Unit
  BY <1>5, <1>7
<1>9. /\ spent'[c] = spent[c] + q /\ metered'[c] = metered[c] + 1 /\ due'[c] = 0
      /\ paid'[c] = paid[c] /\ unmetered'[c] = unmetered[c] /\ missed'[c] = missed[c]
      /\ raised'[c] = raised[c] /\ attempt'[c] = 0
  BY <1>1 DEF RecordCall, Return, Add, Put, TypeOK
<1>10. Close(c)'
  BY <1>6, <1>8, <1>9 DEF Close
<1>11. PICK m \in Nat : m = MaxRetries * metered[c]
  OBVIOUS
<1>12. PICK r \in Nat : r = (MaxRetries + 1) * raised[c]
  OBVIOUS
<1>13. MaxRetries * (metered[c] + 1) = m + MaxRetries
  BY <1>11
<1>14. missed[c] <= m + MaxRetries + r + 0
  BY <1>11, <1>12 DEF Few
<1>15. Few(c)'
  BY <1>9, <1>12, <1>13, <1>14 DEF Few
<1>. QED
  BY <1>9, <1>10, <1>15

LEMMA CallMeter ==
  ASSUME TypeOK, NEW c \in Callers, MeterOf(c), Begin(c) \/ CallStep(c)
  PROVE  MeterOf(c)'
<1>. USE DEF MeterOf, TypeOK, control, money, Put, Add, Goto, Return, Raise, Forget, Stamp
<1>1. CASE Begin(c) \/ Gate(c) \/ Wake(c) \/ ProviderFails(c)
  BY <1>1, CloseKept, FewKept, MeterTypes DEF Begin, Gate, Wake, ProviderFails
<1>2. CASE RecordCall(c)
  BY <1>2, RecordStep
<1>3. CASE RecordFails(c)
  BY <1>3, CloseKept, FewKept, MeterTypes DEF RecordFails
<1>4. ASSUME NEW cost \in Costs, AnswerValid(c, cost)
      PROVE  MeterOf(c)'
  <2>1. cost \in Nat /\ pc'[c] = "meter" /\ due[c] = 0
    BY <1>4, Constants DEF AnswerValid
  <2>2. /\ paid'[c] = paid[c] + cost /\ due'[c] = cost
        /\ UNCHANGED <<spent, metered, unmetered, missed, raised, attempt>>
    BY <1>4 DEF AnswerValid
  <2>. QED
    BY <2>1, <2>2, CloseKept, FewKept, MeterTypes
<1>5. ASSUME NEW cost \in Costs, AnswerInvalid(c, cost)
      PROVE  MeterOf(c)'
  <2>1. cost \in Nat /\ pc[c] # "meter" /\ due[c] = 0
    BY <1>5, Constants DEF AnswerInvalid
  <2>2. /\ paid'[c] = paid[c] + cost /\ unmetered'[c] = unmetered[c] + cost
        /\ spent' = spent /\ metered' = metered /\ due' = due
        /\ missed'[c] = missed[c] + 1
        /\ \/ raised'[c] = raised[c] /\ attempt'[c] = attempt[c] + 1
           \/ raised'[c] = raised[c] + 1 /\ attempt'[c] = 0
    BY <1>5 DEF AnswerInvalid
  <2>. QED
    BY <2>1, <2>2, CloseKept, FewKept, MeterTypes
<1>6. ASSUME NEW cost \in Costs, AnswerUnreadable(c, cost)
      PROVE  MeterOf(c)'
  <2>1. cost \in Nat /\ pc[c] # "meter" /\ due[c] = 0
    BY <1>6, Constants DEF AnswerUnreadable
  <2>2. /\ paid'[c] = paid[c] + cost /\ unmetered'[c] = unmetered[c] + cost
        /\ spent' = spent /\ metered' = metered /\ due' = due
        /\ missed'[c] = missed[c] + 1
        /\ raised'[c] = raised[c] + 1 /\ attempt'[c] = 0
    BY <1>6 DEF AnswerUnreadable
  <2>. QED
    BY <2>1, <2>2, CloseKept, FewKept, MeterTypes
<1>7. ASSUME NEW delays, ProviderBusy(c, delays)
      PROVE  MeterOf(c)'
  BY <1>7, CloseKept, FewKept, MeterTypes DEF ProviderBusy
<1>. QED
  BY <1>1, <1>2, <1>3, <1>4, <1>5, <1>6, <1>7 DEF CallStep

LEMMA MeterStep ==
  ASSUME TypeOK, MeterInv, [Next]_vars
  PROVE  MeterInv'
<1>1. ASSUME NEW c \in Callers, Begin(c) \/ CallStep(c)
      PROVE  MeterInv'
  <2>1. MeterOf(c)'
    BY <1>1, CallMeter DEF MeterInv
  <2>2. ASSUME NEW d \in Callers \ {c}
        PROVE  MeterOf(d)'
    <3>1. Unmoved(d) /\ MeterOf(d)
      BY <1>1, OtherFlows DEF MeterInv
    <3>. QED
      BY <3>1 DEF Unmoved, MeterOf, Close, Few
  <2>. QED
    BY <2>1, <2>2 DEF MeterInv
<1>2. CASE Tick \/ UNCHANGED vars
  BY <1>2 DEF Tick, vars, money, control, MeterInv, MeterOf, Close, Few
<1>. QED
  BY <1>1, <1>2 DEF Next

\* For any costs, retries and interleaving: the meter is what was paid for the
\* recorded answers, to half a unit of rounding each (cost_meter.py:179); and
\* the answers whose cost is lost, to the schema, to their shape
\* (llm_gateway.py:436) or to a record_call that raises (cost_meter.py:177), are
\* at most MaxRetries for each recorded one and MaxRetries + 1 for each call of
\* complete that ended in an exception.
THEOREM MeterDrift == Spec => []MeterDriftIsBounded
<1>1. Init => MeterInv
  <2> SUFFICES ASSUME Init, NEW c \in Callers
               PROVE  MeterOf(c)
    BY DEF MeterInv
  <2>1. /\ due[c] = 0 /\ metered[c] = 0 /\ spent[c] = 0 /\ paid[c] = 0
        /\ unmetered[c] = 0 /\ missed[c] = 0 /\ raised[c] = 0 /\ attempt[c] = 0
    BY DEF Init
  <2>2. Unit * 0 = 0 /\ MaxRetries * 0 = 0 /\ (MaxRetries + 1) * 0 = 0
    BY Constants
  <2>. QED
    BY <2>1, <2>2 DEF MeterOf, Close, Few
<1>2. TypeOK /\ MeterInv /\ [Next]_vars => MeterInv'
  BY MeterStep
<1>3. MeterInv => MeterDriftIsBounded
  BY DEF MeterInv, MeterOf, MeterDriftIsBounded, Close, Few
<1>. QED
  BY <1>1, <1>2, <1>3, TypeCorrect, PTL DEF Spec
=============================================================================
