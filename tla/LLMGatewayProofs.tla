--------------------------- MODULE LLMGatewayProofs ---------------------------
(* Proofs about the gateway, for every threshold, timeout and retry limit.  *)
EXTENDS LLMGateway, TLAPS

\* The actions of Next, for the case split of every invariance proof.
LEMMA Cases ==
  ASSUME [Next]_vars
  PROVE  \/ Route \/ Warn \/ Admit \/ Reject \/ Dispatch \/ Send \/ NoProvider
         \/ SendSucceeds \/ \E retryable \in BOOLEAN : SendFails(retryable)
         \/ LogError \/ LogSuccess \/ Debit \/ Tick \/ Crash \/ UNCHANGED vars
BY DEF Next, Proceed

-----------------------------------------------------------------------------
(* Types.                                                                   *)

\* An update of the state, the failure count and the time of a breaker.
LEMMA BreakerUpdate ==
  ASSUME NEW b \in Breaker, NEW s \in {"CLOSED", "OPEN", "HALF_OPEN"},
         NEW n \in 0..FailureThreshold, NEW t \in Nat, NEW p \in 0..HalfOpenMax
  PROVE  [state |-> s, failures |-> n, since |-> t, probes |-> p] \in Breaker
BY DEF Breaker

\* What every operation of the circuit breaker leaves behind.
LEMMA BreakerType ==
  ASSUME breaker \in Breaker, now \in Nat
  PROVE  /\ Current \in Breaker /\ Current.since = breaker.since
         /\ Current.failures = breaker.failures
         /\ Failed \in Breaker /\ Failed.since = now
         /\ Failed.failures = Capped(breaker.failures)
         /\ Failed.state = IF Capped(breaker.failures) >= FailureThreshold
                               \/ breaker.state = "HALF_OPEN"
                             THEN "OPEN" ELSE breaker.state
         /\ Failed.probes = breaker.probes
         /\ Succeeded \in Breaker /\ Succeeded.since = breaker.since
         /\ Succeeded.state = "CLOSED" /\ Succeeded.failures = 0
<1>1. FailureThreshold \in Nat \ {0} /\ HalfOpenMax \in Nat \ {0}
  BY GatewayAssumption
<1>2. Current \in Breaker /\ Current.since = breaker.since
      /\ Current.failures = breaker.failures
  <2>1. CASE breaker.state = "OPEN" /\ now - breaker.since >= RecoveryTimeout
    <3>1. Current = [breaker EXCEPT !.state = "HALF_OPEN", !.probes = 0]
      BY <2>1 DEF Current
    <3>2. 0 \in 0..HalfOpenMax
      BY <1>1
    <3>. QED BY <3>1, <3>2 DEF Breaker
  <2>2. CASE ~(breaker.state = "OPEN" /\ now - breaker.since >= RecoveryTimeout)
    BY <2>2 DEF Current
  <2>. QED BY <2>1, <2>2
<1>3. Capped(breaker.failures) \in 0..FailureThreshold
  BY <1>1 DEF Capped, Breaker
<1>4. /\ Failed \in Breaker /\ Failed.since = now
      /\ Failed.failures = Capped(breaker.failures)
      /\ Failed.state = IF Capped(breaker.failures) >= FailureThreshold
                            \/ breaker.state = "HALF_OPEN"
                          THEN "OPEN" ELSE breaker.state
      /\ Failed.probes = breaker.probes
  <2>1. CASE Capped(breaker.failures) >= FailureThreshold \/ breaker.state = "HALF_OPEN"
    BY <1>3, <2>1 DEF Failed, Breaker
  <2>2. CASE ~(Capped(breaker.failures) >= FailureThreshold \/ breaker.state = "HALF_OPEN")
    BY <1>3, <2>2 DEF Failed, Breaker
  <2>. QED BY <2>1, <2>2
<1>5. /\ Succeeded \in Breaker /\ Succeeded.since = breaker.since
      /\ Succeeded.state = "CLOSED" /\ Succeeded.failures = 0
  BY <1>1 DEF Succeeded, NewBreaker, Breaker
<1>. QED BY <1>2, <1>4, <1>5

LEMMA AdmittedType ==
  ASSUME NEW b \in Breaker, Admits(b)
  PROVE  /\ Admitted(b) \in Breaker /\ Admitted(b).since = b.since
         /\ Admitted(b).failures = b.failures /\ Admitted(b).state = b.state
         /\ b.state # "OPEN"
<1>1. HalfOpenMax \in Nat
  BY GatewayAssumption
<1>2. CASE b.state = "HALF_OPEN"
  <2>1. b.probes + 1 \in 0..HalfOpenMax
    BY <1>1, <1>2 DEF Admits, Breaker
  <2>. QED BY <1>2, <2>1 DEF Admitted, Breaker
<1>3. CASE b.state # "HALF_OPEN"
  BY <1>3 DEF Admits, Admitted
<1>. QED BY <1>2, <1>3

LEMMA NewBreakerType == NewBreaker \in Breaker
<1>1. FailureThreshold \in Nat /\ HalfOpenMax \in Nat
  BY GatewayAssumption
<1>. QED BY <1>1 DEF NewBreaker, Breaker

\* The record of the call in progress: its fields, and the updates of it.
LEMMA CallType ==
  ASSUME call \in Call
  PROVE  /\ Idle \in Call
         /\ \A pc \in {"reject", "warn", "admit", "dispatch", "send", "await", "logSuccess", "debit"} :
              [call EXCEPT !.pc = pc] \in Call
         /\ \A again \in BOOLEAN : [call EXCEPT !.pc = "logError", !.again = again] \in Call
         /\ call.retries < MaxRetries => Retried \in Call
<1>1. MaxRetries \in Nat
  BY GatewayAssumption
<1>2. Idle \in Call
  BY <1>1 DEF Idle, Call
<1>3. ASSUME NEW pc \in {"reject", "warn", "admit", "dispatch", "send", "await", "logSuccess", "debit"}
      PROVE  [call EXCEPT !.pc = pc] \in Call
  BY DEF Call
<1>4. ASSUME NEW again \in BOOLEAN
      PROVE  [call EXCEPT !.pc = "logError", !.again = again] \in Call
  BY DEF Call
<1>5. ASSUME call.retries < MaxRetries PROVE Retried \in Call
  <2>1. call.retries + 1 \in 0..MaxRetries
    BY <1>1, <1>5 DEF Call
  <2>. QED BY <2>1 DEF Retried, Call
<1>. QED BY <1>2, <1>3, <1>4, <1>5

\* The call in progress has a retry left whenever it is going to retry.
RetryLeft == call.pc = "logError" /\ call.again => call.retries < MaxRetries

\* TypeOK alone is not inductive: that the retry count stays in its range
\* follows from RetryLeft.
Typed == TypeOK /\ RetryLeft

\* The facts about a typed state that the steps below use.
LEMMA TypedFacts ==
  ASSUME TypeOK
  PROVE  /\ now \in Nat /\ faults \in Nat /\ lost \in Nat /\ routes \in Nat
         /\ exchanges \in Nat /\ charged \in Nat /\ streak \in Nat
         /\ MaxNow \in Nat /\ MaxFaults \in Nat /\ MaxRoutes \in Nat
         /\ MaxRetries \in Nat /\ FailureThreshold \in Nat \ {0}
         /\ HalfOpenMax \in Nat \ {0} /\ RecoveryTimeout \in Nat
         /\ breaker.since \in Nat /\ breaker.since <= now
         /\ breaker.failures \in 0..FailureThreshold
         /\ breaker.state \in {"CLOSED", "OPEN", "HALF_OPEN"}
BY GatewayAssumption DEF TypeOK, Breaker

\* A call that is neither started, retried nor sent to "logError" goes on from
\* one of the other control points or returns.
LEMMA OnwardType ==
  ASSUME TypeOK,
         call' = Idle \/ \E pc \in {"reject", "warn", "admit", "dispatch", "send",
                                     "await", "logSuccess", "debit"} : GoTo(pc)
  PROVE  call' \in Call /\ RetryLeft'
<1>1. call \in Call
  BY DEF TypeOK
<1>2. CASE call' = Idle
  <2>1. call'.pc # "logError"
    BY <1>2 DEF Idle
  <2>. QED BY <1>1, <1>2, <2>1, CallType DEF RetryLeft
<1>3. ASSUME NEW pc \in {"reject", "warn", "admit", "dispatch", "send", "await", "logSuccess", "debit"},
             GoTo(pc)
      PROVE  call' \in Call /\ RetryLeft'
  <2>1. call' = [call EXCEPT !.pc = pc]
    BY <1>3 DEF GoTo
  <2>2. call'.pc = pc
    BY <1>1, <2>1 DEF Call
  <2>. QED BY <1>1, <2>1, <2>2, CallType DEF RetryLeft
<1>. QED BY <1>2, <1>3

\* A ledger write that returns or raises keeps the entries and the faults typed.
LEMMA WriteType ==
  ASSUME TypeOK, NEW kind \in Kinds, Wrote(kind) \/ Raises(kind)
  PROVE  entries' \subseteq Kinds /\ faults' \in 0..MaxFaults
BY TypedFacts DEF TypeOK, Wrote, Raises

\* Typed is an inductive invariant.
LEMMA TypedInvariant == Spec => []Typed
<1>1. Init => Typed
  <2>. SUFFICES ASSUME Init PROVE Typed
    OBVIOUS
  <2>1. Idle \in Call /\ Idle.pc # "logError"
    BY GatewayAssumption DEF Idle, Call
  <2>2. NewBreaker.since = 0
    BY DEF NewBreaker
  <2>3. 0 \in 0..FailureThreshold /\ 0 \in 0..MaxRoutes /\ 0 \in 0..MaxNow
        /\ 0 \in 0..MaxFaults /\ 0 \in Nat /\ {} \subseteq Kinds
    BY GatewayAssumption
  <2>4. breaker \in Breaker /\ breaker.since <= now
    BY <2>2, NewBreakerType DEF Init
  <2>5. call \in Call
    BY <2>1 DEF Init
  <2>6. streak \in 0..FailureThreshold /\ routes \in 0..MaxRoutes /\ now \in 0..MaxNow
        /\ faults \in 0..MaxFaults /\ exchanges \in Nat /\ charged \in Nat
        /\ entries \subseteq Kinds /\ lost \in Nat
    BY <2>3 DEF Init
  <2>7. result = "NONE" /\ sends = FALSE
    BY DEF Init
  <2>8. TypeOK
    BY <2>4, <2>5, <2>6, <2>7 DEF TypeOK
  <2>9. RetryLeft
    BY <2>1 DEF Init, RetryLeft
  <2>. QED BY <2>8, <2>9 DEF Typed
<1>2. Typed /\ [Next]_vars => Typed'
  <2>. SUFFICES ASSUME Typed, [Next]_vars PROVE Typed'
    OBVIOUS
  <2>0. TypeOK /\ RetryLeft
    BY DEF Typed
  <2>. USE <2>0
  <2>1. CASE Route
    <3>1. call' \in Call /\ RetryLeft'
      BY <2>1, OnwardType DEF Route
    <3>2. routes' \in 0..MaxRoutes /\ {} \subseteq Kinds
      BY <2>1, TypedFacts DEF Route, TypeOK
    <3>3. breaker' = breaker /\ streak' = streak /\ exchanges' = exchanges
          /\ charged' = charged /\ now' = now /\ faults' = faults /\ lost' = lost
          /\ entries' = {} /\ sends' = FALSE /\ result' = "NONE"
      BY <2>1 DEF Route
    <3>. QED BY <3>1, <3>2, <3>3 DEF Typed, TypeOK
  <2>2. CASE Warn
    <3>1. call' \in Call /\ RetryLeft'
      BY <2>2, OnwardType DEF Warn, Raises, Return
    <3>2. entries' \subseteq Kinds /\ faults' \in 0..MaxFaults
      BY <2>2, WriteType DEF Warn, Kinds
    <3>. QED BY <2>2, <3>1, <3>2 DEF Warn, Raises, Return, Typed, TypeOK
  <2>3. CASE Admit
    <3>1. call' \in Call /\ RetryLeft'
      BY <2>3, OnwardType DEF Admit
    <3>2. Current \in Breaker /\ Current.since = breaker.since
      BY TypedFacts, BreakerType DEF TypeOK
    <3>3. breaker' \in Breaker /\ breaker'.since = breaker.since
      BY <2>3, <3>2, AdmittedType DEF Admit
    <3>. QED BY <2>3, <3>1, <3>3 DEF Admit, Typed, TypeOK
  <2>4. CASE Reject
    <3>1. call' \in Call /\ RetryLeft'
      BY <2>4, OnwardType DEF Reject, Raises, Return
    <3>2. entries' \subseteq Kinds /\ faults' \in 0..MaxFaults
      BY <2>4, WriteType DEF Reject, Kinds
    <3>. QED BY <2>4, <3>1, <3>2 DEF Reject, Raises, Return, Typed, TypeOK
  <2>5. CASE Dispatch
    <3>1. call' \in Call /\ RetryLeft'
      BY <2>5, OnwardType DEF Dispatch, Raises, Return
    <3>2. entries' \subseteq Kinds /\ faults' \in 0..MaxFaults
      BY <2>5, WriteType DEF Dispatch, Kinds
    <3>3. lost' \in Nat
      BY <2>5, TypedFacts DEF Dispatch
    <3>. QED BY <2>5, <3>1, <3>2, <3>3 DEF Dispatch, Raises, Return, Typed, TypeOK
  <2>6. CASE SendSucceeds
    <3>1. call' \in Call /\ RetryLeft'
      BY <2>6, OnwardType DEF SendSucceeds
    <3>2. breaker' \in Breaker /\ breaker'.since = breaker.since
      BY <2>6, TypedFacts, BreakerType DEF SendSucceeds, TypeOK
    <3>. QED BY <2>6, <3>1, <3>2, TypedFacts DEF SendSucceeds, Typed, TypeOK
  <2>7. ASSUME NEW again \in BOOLEAN, again => call.retries < MaxRetries, Fails(again)
        PROVE  Typed'
    <3>1. streak' \in 0..FailureThreshold
      BY <2>7, TypedFacts DEF Fails, Capped, TypeOK
    <3>2. breaker' \in Breaker /\ breaker'.since = now
      BY <2>7, TypedFacts, BreakerType DEF Fails, TypeOK
    <3>4. call' = [call EXCEPT !.pc = "logError", !.again = again]
      BY <2>7 DEF Fails
    <3>5. call' \in Call
      BY <3>4, CallType DEF TypeOK
    <3>6. call'.again = again /\ call'.retries = call.retries
      BY <3>4 DEF TypeOK, Call
    <3>7. RetryLeft'
      BY <2>7, <3>6 DEF RetryLeft
    <3>. QED BY <2>7, <3>1, <3>2, <3>5, <3>7, TypedFacts DEF Fails, Typed, TypeOK
  <2>14. CASE Send
    <3>1. call' \in Call /\ RetryLeft'
      BY <2>14, OnwardType DEF Send
    <3>. QED BY <2>14, <3>1 DEF Send, Typed, TypeOK
  <2>15. CASE NoProvider
    BY <2>7, <2>15 DEF NoProvider
  <2>16. ASSUME NEW retryable \in BOOLEAN, SendFails(retryable) PROVE Typed'
    <3>. DEFINE again == retryable /\ call.retries < MaxRetries
    <3>1. again \in BOOLEAN /\ (again => call.retries < MaxRetries)
      OBVIOUS
    <3>2. Fails(again)
      BY <2>16 DEF SendFails
    <3>. HIDE DEF again
    <3>. QED BY <2>7, <3>1, <3>2
  <2>8. CASE LogError
    <3>1. call' \in Call /\ RetryLeft'
      <4>1. CASE call' = Idle
        BY <4>1, OnwardType
      <4>2. CASE call' # Idle
        <5>1. call' = Retried /\ call.retries < MaxRetries
          BY <2>8, <4>2 DEF LogError, Raises, Return, RetryLeft
        <5>2. call'.pc = "send"
          BY <5>1 DEF Retried, TypeOK, Call
        <5>. QED BY <5>1, <5>2, CallType DEF TypeOK, RetryLeft
      <4>. QED BY <4>1, <4>2
    <3>2. entries' \subseteq Kinds /\ faults' \in 0..MaxFaults
      BY <2>8, WriteType DEF LogError, Kinds
    <3>. QED BY <2>8, <3>1, <3>2 DEF LogError, Raises, Return, Typed, TypeOK
  <2>9. CASE LogSuccess
    <3>1. call' \in Call /\ RetryLeft'
      BY <2>9, OnwardType DEF LogSuccess, Raises, Return
    <3>2. entries' \subseteq Kinds /\ faults' \in 0..MaxFaults
      BY <2>9, WriteType DEF LogSuccess, Kinds
    <3>. QED BY <2>9, <3>1, <3>2 DEF LogSuccess, Raises, Return, Typed, TypeOK
  <2>10. CASE Debit
    <3>1. call' \in Call /\ RetryLeft'
      BY <2>10, OnwardType DEF Debit, Return
    <3>2. faults' \in 0..MaxFaults
      BY <2>10, TypedFacts DEF Debit, TypeOK
    <3>. QED BY <2>10, <3>1, <3>2 DEF Debit, Return, Typed, TypeOK
  <2>11. CASE Tick
    BY <2>11, TypedFacts DEF Tick, Typed, TypeOK, RetryLeft
  <2>12. CASE Crash
    <3>1. call' \in Call /\ RetryLeft'
      BY <2>12, OnwardType DEF Crash
    <3>2. breaker' \in Breaker /\ breaker'.since = 0
      BY <2>12, NewBreakerType DEF Crash, NewBreaker
    <3>. QED BY <2>12, <3>1, <3>2, TypedFacts DEF Crash, Typed, TypeOK
  <2>13. CASE UNCHANGED vars
    BY <2>13 DEF vars, Typed, TypeOK, RetryLeft
  <2>. QED
    BY Cases, <2>1, <2>2, <2>3, <2>4, <2>5, <2>6, <2>8, <2>9, <2>10, <2>11, <2>12, <2>13, <2>14,
       <2>15, <2>16
<1>. QED BY <1>1, <1>2, PTL DEF Spec

\* Every reachable state is well typed; in particular a half-open circuit has
\* never admitted more tests than half_open_max.
THEOREM TypeCorrect == Spec => []TypeOK
<1>1. Typed => TypeOK
  BY DEF Typed
<1>. QED BY <1>1, TypedInvariant, PTL

-----------------------------------------------------------------------------
(* What the ledger tells.                                                   *)

\* While a call is in progress it has no result yet, and before the debit the
\* EXCHANGE entry is written: ReturnsLogged relies on both.
Told ==
  /\ call.pc # "idle" => result = "NONE"
  /\ call.pc = "debit" => "SUCCESS" \in entries
  /\ ReturnsLogged

\* Where a step that goes on or returns leaves the control point.
LEMMA ControlPoint ==
  ASSUME TypeOK
  PROVE  /\ \A pc \in {"reject", "warn", "admit", "dispatch", "send", "await", "logSuccess", "debit"} :
              GoTo(pc) => call'.pc = pc
         /\ \A outcome : Return(outcome) => call'.pc = "idle" /\ result' = outcome
         /\ call' = Retried => call'.pc = "send"
         /\ \A again \in BOOLEAN :
              call' = [call EXCEPT !.pc = "logError", !.again = again] => call'.pc = "logError"
<1>1. call \in Call
  BY DEF TypeOK
<1>2. ASSUME NEW pc \in {"reject", "warn", "admit", "dispatch", "send", "await", "logSuccess", "debit"},
             GoTo(pc)
      PROVE  call'.pc = pc
  BY <1>1, <1>2 DEF GoTo, Call
<1>3. ASSUME NEW outcome, Return(outcome) PROVE call'.pc = "idle" /\ result' = outcome
  BY <1>3 DEF Return, Idle
<1>4. ASSUME call' = Retried PROVE call'.pc = "send"
  BY <1>1, <1>4 DEF Retried, Call
<1>5. ASSUME NEW again \in BOOLEAN, call' = [call EXCEPT !.pc = "logError", !.again = again]
      PROVE  call'.pc = "logError"
  BY <1>1, <1>5 DEF Call
<1>. QED BY <1>2, <1>3, <1>4, <1>5

\* A write that returns leaves its entry; one that raises ends the call.
LEMMA WritePoint ==
  ASSUME TypeOK, NEW kind \in Kinds
  PROVE  /\ Wrote(kind) => kind \in entries' /\ entries \subseteq entries' /\ faults' = faults
         /\ Raises(kind) => /\ call'.pc = "idle" /\ result' = "RAISED"
                           /\ entries \subseteq entries' /\ faults' # 0
<1>1. Raises(kind) => call'.pc = "idle" /\ result' = "RAISED" /\ entries \subseteq entries'
  BY DEF Raises, Return, Idle
<1>2. Raises(kind) => faults' # 0
  BY TypedFacts DEF Raises
<1>3. Wrote(kind) => kind \in entries' /\ entries \subseteq entries' /\ faults' = faults
  BY DEF Wrote
<1>. QED BY <1>1, <1>2, <1>3

\* A failure goes to "logError".
LEMMA FailurePoint ==
  ASSUME TypeOK, NoProvider \/ \E retryable \in BOOLEAN : SendFails(retryable)
  PROVE  /\ call'.pc = "logError" /\ call.pc \in {"send", "await"}
         /\ \E again \in BOOLEAN : Fails(again)
<1>1. ASSUME NEW again \in BOOLEAN, Fails(again) PROVE call'.pc = "logError"
  BY <1>1, ControlPoint DEF Fails
<1>2. CASE NoProvider
  BY <1>1, <1>2 DEF NoProvider
<1>3. ASSUME NEW retryable \in BOOLEAN, SendFails(retryable)
      PROVE  /\ call'.pc = "logError" /\ call.pc = "await"
             /\ \E again \in BOOLEAN : Fails(again)
  <2>. DEFINE again == retryable /\ call.retries < MaxRetries
  <2>1. again \in BOOLEAN /\ Fails(again) /\ call.pc = "await"
    BY <1>3 DEF SendFails
  <2>. HIDE DEF again
  <2>. QED BY <1>1, <2>1
<1>. QED BY <1>2, <1>3

\* Every response route() returns has its entry in the ledger, whatever writes
\* raise and whenever the process ends.
THEOREM ResponsesLogged == Spec => []ReturnsLogged
<1>1. Init => Told
  BY DEF Init, Idle, Told, ReturnsLogged
<1>2. Typed /\ Told /\ [Next]_vars => Told'
  <2>. SUFFICES ASSUME Typed, Told, [Next]_vars PROVE Told'
    OBVIOUS
  <2>0. TypeOK
    BY DEF Typed
  <2>. USE <2>0 DEF Told, ReturnsLogged
  <2>1. CASE Route
    BY <2>1, ControlPoint DEF Route
  <2>2. CASE Warn
    BY <2>2, ControlPoint, WritePoint DEF Warn, Kinds
  <2>3. CASE Admit
    BY <2>3, ControlPoint DEF Admit
  <2>4. CASE Reject
    BY <2>4, ControlPoint, WritePoint DEF Reject, Kinds
  <2>5. CASE Dispatch
    BY <2>5, ControlPoint, WritePoint DEF Dispatch, Kinds
  <2>6. CASE SendSucceeds
    BY <2>6, ControlPoint DEF SendSucceeds
  <2>7. CASE NoProvider \/ \E retryable \in BOOLEAN : SendFails(retryable)
    BY <2>7, FailurePoint DEF Fails
  <2>14. CASE Send
    BY <2>14, ControlPoint DEF Send
  <2>8. CASE LogError
    BY <2>8, ControlPoint, WritePoint DEF LogError, Kinds
  <2>9. CASE LogSuccess
    BY <2>9, ControlPoint, WritePoint DEF LogSuccess, Kinds
  <2>10. CASE Debit
    BY <2>10, ControlPoint, WritePoint DEF Debit, Kinds
  <2>11. CASE Tick
    BY <2>11 DEF Tick
  <2>12. CASE Crash
    BY <2>12 DEF Crash, Idle
  <2>13. CASE UNCHANGED vars
    BY <2>13 DEF vars
  <2>. QED
    BY Cases, <2>1, <2>2, <2>3, <2>4, <2>5, <2>6, <2>7, <2>8, <2>9, <2>10, <2>11, <2>12, <2>13,
       <2>14
<1>3. Told => ReturnsLogged
  BY DEF Told
<1>. QED BY <1>1, <1>2, <1>3, TypedInvariant, PTL DEF Spec

\* From the marker on it is in the ledger, through every attempt: a write that
\* raises ends the call, and Route starts the next one without having sent.
Marked ==
  /\ call.pc \in {"send", "await"} \/ (call.pc = "logError" /\ call.again) =>
       "DISPATCH" \in entries
  /\ MarkedBeforeSend

\* No call to the provider without its DISPATCH marker in the ledger, whatever
\* raises or ends between the two.
THEOREM MarkerFirst == Spec => []MarkedBeforeSend
<1>1. Init => Marked
  BY DEF Init, Idle, Marked, MarkedBeforeSend
<1>2. Typed /\ Marked /\ [Next]_vars => Marked'
  <2>. SUFFICES ASSUME Typed, Marked, [Next]_vars PROVE Marked'
    OBVIOUS
  <2>0. TypeOK
    BY DEF Typed
  <2>. USE <2>0 DEF Marked, MarkedBeforeSend
  <2>1. CASE Route
    BY <2>1, ControlPoint DEF Route
  <2>2. CASE Warn
    BY <2>2, ControlPoint, WritePoint DEF Warn, Kinds
  <2>9. CASE Admit
    BY <2>9, ControlPoint DEF Admit
  <2>11. CASE Debit
    BY <2>11 DEF Debit, Return, Idle
  <2>10. CASE Reject
    BY <2>10, ControlPoint, WritePoint DEF Reject, Kinds
  <2>3. CASE Dispatch
    BY <2>3, ControlPoint, WritePoint DEF Dispatch, Kinds
  <2>4. CASE Send \/ SendSucceeds
    BY <2>4, ControlPoint DEF Send, SendSucceeds
  <2>5. CASE NoProvider \/ \E retryable \in BOOLEAN : SendFails(retryable)
    BY <2>5, FailurePoint DEF Fails
  <2>6. CASE LogError
    <3>1. "DISPATCH" \in entries => "DISPATCH" \in entries'
      BY <2>6, WritePoint DEF LogError, Kinds
    <3>2. CASE call.again /\ call' = Retried
      BY <2>6, <3>1, <3>2 DEF LogError
    <3>3. CASE call' = Idle
      BY <2>6, <3>1, <3>3 DEF LogError, Idle
    <3>. QED BY <2>6, <3>2, <3>3 DEF LogError, Raises, Return
  <2>7. CASE LogSuccess
    BY <2>7, ControlPoint, WritePoint DEF LogSuccess, Kinds
  <2>8. CASE Tick \/ Crash \/ UNCHANGED vars
    BY <2>8 DEF Tick, Crash, Idle, vars
  <2>. QED BY Cases, <2>1, <2>2, <2>3, <2>4, <2>5, <2>6, <2>7, <2>8, <2>9, <2>10, <2>11
<1>3. Marked => MarkedBeforeSend
  BY DEF Marked
<1>. QED BY <1>1, <1>2, <1>3, TypedInvariant, PTL DEF Spec

\* While nothing has failed, the debits and the exchanges differ by the one
\* exchange that is about to be debited.
Owed ==
  faults = 0 =>
    exchanges = IF call.pc = "debit" THEN charged + 1 ELSE charged

\* Every successful exchange is debited exactly once, unless a write raises or
\* the process ends.
THEOREM ExchangesCharged == Spec => []ChargedOnce
<1>1. Init => Owed
  BY DEF Init, Idle, Owed
<1>2. Typed /\ Owed /\ [Next]_vars => Owed'
  <2>. SUFFICES ASSUME Typed, Owed, [Next]_vars, faults' = 0
                PROVE  exchanges' = IF call'.pc = "debit" THEN charged' + 1 ELSE charged'
    BY DEF Owed
  <2>0. TypeOK
    BY DEF Typed
  <2>. USE <2>0, TypedFacts DEF Owed
  <2>1. CASE Route
    BY <2>1, ControlPoint DEF Route
  <2>2. CASE Warn
    BY <2>2, ControlPoint, WritePoint DEF Warn, Kinds
  <2>3. CASE Admit
    BY <2>3, ControlPoint DEF Admit
  <2>4. CASE Reject
    BY <2>4, ControlPoint, WritePoint DEF Reject, Kinds
  <2>5. CASE Dispatch
    BY <2>5, ControlPoint, WritePoint DEF Dispatch, Kinds
  <2>6. CASE SendSucceeds
    BY <2>6, ControlPoint DEF SendSucceeds
  <2>7. CASE NoProvider \/ \E retryable \in BOOLEAN : SendFails(retryable)
    BY <2>7, FailurePoint DEF Fails
  <2>14. CASE Send
    BY <2>14, ControlPoint DEF Send
  <2>8. CASE LogError
    BY <2>8, ControlPoint, WritePoint DEF LogError, Kinds
  <2>9. CASE LogSuccess
    BY <2>9, ControlPoint, WritePoint DEF LogSuccess, Kinds
  <2>10. CASE Debit
    <3>1. call.pc = "debit" /\ charged' = charged + 1 /\ exchanges' = exchanges /\ call'.pc = "idle"
      BY <2>10 DEF Debit, Return, Idle
    <3>2. faults = 0
      BY <2>10 DEF Debit
    <3>. QED BY <3>1, <3>2
  <2>11. CASE Tick
    BY <2>11 DEF Tick
  <2>12. CASE Crash
    BY <2>12 DEF Crash
  <2>13. CASE UNCHANGED vars
    BY <2>13 DEF vars
  <2>. QED
    BY Cases, <2>1, <2>2, <2>3, <2>4, <2>5, <2>6, <2>7, <2>8, <2>9, <2>10, <2>11, <2>12, <2>13,
       <2>14
<1>3. Owed => ChargedOnce
  BY DEF Owed, ChargedOnce
<1>. QED BY <1>1, <1>2, <1>3, TypedInvariant, PTL DEF Spec

-----------------------------------------------------------------------------
(* The circuit breaker.                                                     *)

\* The breaker counts exactly the failures in a row, capped at the threshold.
Counts == breaker.failures = streak /\ TripsOnStreak

\* The circuit opens on failure_threshold failures in a row, not sooner, not
\* later, and nothing but a success closes it: true however the calls are
\* retried, rejected, cut off by a write that raises or by a crash.
THEOREM CircuitTrips == Spec => []TripsOnStreak
<1>1. Init => Counts
  BY GatewayAssumption DEF Init, NewBreaker, Counts, TripsOnStreak
<1>2. Typed /\ Counts /\ [Next]_vars => Counts'
  <2>. SUFFICES ASSUME Typed, Counts, [Next]_vars PROVE Counts'
    OBVIOUS
  <2>0. TypeOK
    BY DEF Typed
  <2>. USE <2>0 DEF Counts, TripsOnStreak
  <2>. DEFINE kept == breaker' = breaker /\ streak' = streak
  <2>1. CASE Admit
    <3>1. Current \in Breaker /\ Current.failures = breaker.failures
      BY TypedFacts, BreakerType DEF TypeOK
    <3>2. Current.state = "CLOSED" <=> breaker.state = "CLOSED"
      <4>1. CASE breaker.state = "OPEN" /\ now - breaker.since >= RecoveryTimeout
        <5>1. Current.state = "HALF_OPEN"
          BY <4>1 DEF Current, TypeOK, Breaker
        <5>. QED BY <4>1, <5>1
      <4>2. CASE ~(breaker.state = "OPEN" /\ now - breaker.since >= RecoveryTimeout)
        BY <4>2 DEF Current
      <4>. QED BY <4>1, <4>2
    <3>3. breaker'.failures = Current.failures /\ breaker'.state = Current.state
      BY <2>1, <3>1, AdmittedType DEF Admit
    <3>. QED BY <2>1, <3>1, <3>2, <3>3 DEF Admit
  <2>2. CASE SendSucceeds
    BY <2>2, TypedFacts, BreakerType DEF SendSucceeds, TypeOK
  <2>3. CASE NoProvider \/ \E retryable \in BOOLEAN : SendFails(retryable)
    <3>0. PICK again \in BOOLEAN : Fails(again)
      BY <2>3, FailurePoint
    <3>1. breaker'.failures = Capped(streak) /\ streak' = Capped(streak)
      BY <3>0, TypedFacts, BreakerType DEF Fails, TypeOK
    <3>2. breaker'.state = IF Capped(streak) >= FailureThreshold \/ breaker.state = "HALF_OPEN"
                             THEN "OPEN" ELSE breaker.state
      BY <3>0, TypedFacts, BreakerType DEF Fails, TypeOK
    <3>3. CASE streak < FailureThreshold
      BY <3>1, <3>2, <3>3, TypedFacts DEF Capped
    <3>4. CASE streak >= FailureThreshold
      BY <3>1, <3>2, <3>4, TypedFacts DEF Capped
    <3>. QED BY <3>3, <3>4, TypedFacts
  <2>4. CASE Crash
    BY <2>4, GatewayAssumption DEF Crash, NewBreaker
  <2>5. CASE Route \/ Warn \/ Reject \/ Dispatch \/ Send
    <3>1. kept
      BY <2>5 DEF Route, Warn, Reject, Dispatch, Send
    <3>. QED BY <3>1
  <2>6. CASE LogError \/ LogSuccess \/ Debit \/ Tick \/ UNCHANGED vars
    <3>1. kept
      BY <2>6 DEF LogError, LogSuccess, Debit, Tick, vars
    <3>. QED BY <3>1
  <2>. QED BY Cases, <2>1, <2>2, <2>3, <2>4, <2>5, <2>6
<1>3. Counts => TripsOnStreak
  BY DEF Counts
<1>. QED BY <1>1, <1>2, <1>3, TypedInvariant, PTL DEF Spec

\* A call that the circuit breaker has admitted finds it not open until the
\* provider has been called for the first time: nothing in between opens it.
Admission ==
  call.pc = "dispatch" \/ (call.pc = "send" /\ call.retries = 0) => breaker.state # "OPEN"

\* Whatever raises, and however many retries are allowed: the first attempt of
\* a call never goes through an open circuit.
THEOREM FirstSendIsAdmitted == Spec => FirstSendAdmitted
<1>1. Init => Admission
  BY DEF Init, Idle, Admission
<1>2. Typed /\ Admission /\ [Next]_vars => Admission'
  <2>. SUFFICES ASSUME Typed, Admission, [Next]_vars PROVE Admission'
    OBVIOUS
  <2>0. TypeOK
    BY DEF Typed
  <2>. USE <2>0 DEF Admission
  <2>1. CASE Admit
    <3>1. CASE Admits(Current)
      <4>1. Current \in Breaker
        BY TypedFacts, BreakerType DEF TypeOK
      <4>2. Admitted(Current).state # "OPEN"
        BY <3>1, <4>1, AdmittedType
      <4>. QED BY <2>1, <3>1, <4>2 DEF Admit
    <3>2. CASE ~Admits(Current)
      BY <2>1, <3>2, ControlPoint DEF Admit
    <3>. QED BY <3>1, <3>2
  <2>2. CASE Route \/ Warn \/ Reject
    BY <2>2, ControlPoint, WritePoint DEF Route, Warn, Reject, Kinds
  <2>3. CASE Dispatch \/ Send \/ SendSucceeds
    BY <2>3, ControlPoint, WritePoint DEF Dispatch, Send, SendSucceeds, Kinds
  <2>4. CASE NoProvider \/ \E retryable \in BOOLEAN : SendFails(retryable)
    BY <2>4, FailurePoint
  <2>5. CASE LogError
    <3>1. call.retries \in Nat
      BY GatewayAssumption DEF TypeOK, Call
    <3>2. CASE call' = Retried
      BY <3>1, <3>2 DEF Retried, TypeOK, Call
    <3>3. CASE call' = Idle
      BY <3>3 DEF Idle
    <3>. QED BY <2>5, <3>2, <3>3 DEF LogError, Raises, Return
  <2>6. CASE LogSuccess \/ Debit
    BY <2>6, ControlPoint, WritePoint DEF LogSuccess, Debit, Kinds
  <2>7. CASE Tick \/ Crash \/ UNCHANGED vars
    BY <2>7 DEF Tick, Crash, Idle, vars
  <2>. QED BY Cases, <2>1, <2>2, <2>3, <2>4, <2>5, <2>6, <2>7
<1>3. Admission => [call.pc = "send" /\ call'.pc = "await" /\ call.retries = 0 => ~Open]_vars
  BY DEF Admission, Open
<1>. QED BY <1>1, <1>2, <1>3, TypedInvariant, PTL DEF Spec, FirstSendAdmitted

\* A test that is under way keeps the circuit half-open, or has settled it.
Testing(c) == IF c.pc \in {"dispatch", "send", "await"} THEN 1 ELSE 0

\* Only a half-open circuit loses tests, and a failure leaves none half-open.
Tested ==
  /\ breaker.state = "HALF_OPEN" => breaker.probes = lost + Testing(call)
  /\ breaker.state # "HALF_OPEN" => lost = 0
  /\ call.pc = "logError" => breaker.state # "HALF_OPEN"

\* The tests of a half-open circuit are used up by markers that cannot be
\* written, and by nothing else: whoever reaches the provider, at the first
\* attempt or a later one, brings the circuit out of it.
THEOREM TestsAreAccounted == Spec => []TestsAccounted
<1>1. Init => Tested
  BY DEF Init, NewBreaker, Tested
<1>2. Typed /\ Tested /\ [Next]_vars => Tested'
  <2>. SUFFICES ASSUME Typed, Tested, [Next]_vars PROVE Tested'
    OBVIOUS
  <2>0. TypeOK
    BY DEF Typed
  <2>. USE <2>0
  <2>1. ASSUME breaker' = breaker, lost' = lost, Testing(call') = Testing(call),
               call'.pc = "logError" => call.pc = "logError"
        PROVE  Tested'
    BY <2>1 DEF Tested
  <2>2. CASE Route
    BY <2>1, <2>2, ControlPoint DEF Route, Testing
  <2>3. CASE Warn \/ Reject
    BY <2>1, <2>3, ControlPoint, WritePoint DEF Warn, Reject, Testing, Kinds
  <2>4. CASE Admit
    <3>0. /\ Testing(call) = 0 /\ lost' = lost /\ lost \in Nat
          /\ breaker.probes \in Nat /\ HalfOpenMax \in Nat
      BY <2>4, TypedFacts DEF Admit, Testing, TypeOK, Breaker
    <3>1. /\ Current \in Breaker /\ Current.probes \in Nat
          /\ Current.state = "HALF_OPEN" => Current.probes = lost
          /\ Current.state # "HALF_OPEN" => lost = 0
      <4>1. CASE breaker.state = "OPEN" /\ now - breaker.since >= RecoveryTimeout
        <5>1. Current.state = "HALF_OPEN" /\ Current.probes = 0
          BY <4>1 DEF Current, TypeOK, Breaker
        <5>. QED BY <4>1, <5>1, TypedFacts, BreakerType DEF Tested, TypeOK
      <4>2. CASE ~(breaker.state = "OPEN" /\ now - breaker.since >= RecoveryTimeout)
        <5>1. Current = breaker
          BY <4>2 DEF Current
        <5>. QED BY <3>0, <5>1 DEF Tested, TypeOK
      <4>. QED BY <4>1, <4>2
    <3>2. CASE Admits(Current)
      <4>1. breaker' = Admitted(Current) /\ call'.pc = "dispatch"
        BY <2>4, <3>2, ControlPoint DEF Admit
      <4>2. Admitted(Current).state = Current.state
        BY <3>1, <3>2, AdmittedType
      <4>3. Current.state = "HALF_OPEN" => Admitted(Current).probes = Current.probes + 1
        BY <3>1 DEF Admitted, Breaker
      <4>. QED BY <3>0, <3>1, <4>1, <4>2, <4>3 DEF Tested, Testing
    <3>3. CASE ~Admits(Current)
      <4>1. breaker' = Current /\ call'.pc = "reject"
        BY <2>4, <3>3, ControlPoint DEF Admit
      <4>. QED BY <3>0, <3>1, <4>1 DEF Tested, Testing
    <3>. QED BY <3>2, <3>3
  <2>5. CASE Dispatch
    <3>1. CASE Wrote("DISPATCH") /\ GoTo("send") /\ UNCHANGED <<result, lost>>
      BY <2>1, <2>5, <3>1, ControlPoint DEF Dispatch, Testing
    <3>2. CASE Raises("DISPATCH") /\ lost' = IF breaker.state = "HALF_OPEN" THEN lost + 1 ELSE lost
      <4>1. /\ Testing(call) = 1 /\ Testing(call') = 0 /\ breaker' = breaker
            /\ call'.pc # "logError"
        BY <2>5, <3>2, WritePoint DEF Dispatch, Testing, Kinds
      <4>. QED BY <3>2, <4>1, TypedFacts DEF Tested
    <3>. QED BY <2>5, <3>1, <3>2 DEF Dispatch
  <2>6. CASE Send
    BY <2>1, <2>6, ControlPoint DEF Send, Testing
  <2>7. CASE SendSucceeds
    <3>1. breaker'.state = "CLOSED" /\ lost' = 0
      BY <2>7, TypedFacts, BreakerType DEF SendSucceeds, TypeOK
    <3>. QED BY <3>1 DEF Tested
  <2>8. CASE NoProvider \/ \E retryable \in BOOLEAN : SendFails(retryable)
    <3>1. PICK again \in BOOLEAN : Fails(again)
      BY <2>8, FailurePoint
    <3>2. breaker'.state # "HALF_OPEN" /\ lost' = 0
      BY <3>1, TypedFacts, BreakerType DEF Fails, TypeOK
    <3>. QED BY <3>2 DEF Tested
  <2>9. CASE LogError
    <3>1. breaker' = breaker /\ lost' = lost /\ Testing(call) = 0
      BY <2>9 DEF LogError, Testing
    <3>2. CASE call'.pc = "idle"
      BY <2>1, <3>1, <3>2 DEF Testing
    <3>3. CASE call'.pc # "idle"
      <4>1. breaker.state # "HALF_OPEN" /\ call'.pc # "logError"
        BY <2>9, <3>3, ControlPoint, WritePoint DEF LogError, Tested, Kinds
      <4>. QED BY <3>1, <4>1 DEF Tested
    <3>. QED BY <3>2, <3>3
  <2>10. CASE LogSuccess \/ Debit
    BY <2>1, <2>10, ControlPoint, WritePoint DEF LogSuccess, Debit, Testing, Kinds
  <2>11. CASE Tick \/ UNCHANGED vars
    BY <2>1, <2>11 DEF Tick, vars
  <2>12. CASE Crash
    BY <2>12 DEF Crash, NewBreaker, Tested
  <2>. QED BY Cases, <2>2, <2>3, <2>4, <2>5, <2>6, <2>7, <2>8, <2>9, <2>10, <2>11, <2>12
<1>3. Tested => TestsAccounted
  BY DEF Tested, Testing, TestsAccounted
<1>. QED BY <1>1, <1>2, <1>3, TypedInvariant, PTL DEF Spec

-----------------------------------------------------------------------------
(* A call comes to its end.                                                 *)

\* The most steps the call in progress still takes, with the attempts it has left.
Left ==
  LET attempts == 3 * (MaxRetries - call.retries)
  IN  CASE call.pc = "idle" -> 0
        [] call.pc \in {"reject", "debit"} -> 1
        [] call.pc = "logSuccess" -> 2
        [] call.pc = "logError" -> attempts + 2
        [] call.pc = "await" -> attempts + 3
        [] call.pc = "send" -> attempts + 4
        [] call.pc = "dispatch" -> attempts + 5
        [] call.pc = "admit" -> attempts + 6
        [] call.pc = "warn" -> attempts + 7

\* A call in progress takes at most that many steps; nothing else happens in it but
\* that time passes.
LeftBounded == Left \in 0..(3 * MaxRetries + 7)
RunsDown == [][call.pc # "idle" => Left' < Left \/ (call' = call /\ now' = now + 1)]_vars

LEMMA LeftIs ==
  ASSUME NEW c \in Call
  PROVE  LET attempts == 3 * (MaxRetries - c.retries)
         IN  /\ attempts \in 0..(3 * MaxRetries) /\ attempts \in Nat
             /\ c.retries \in Nat /\ c.again \in BOOLEAN
BY GatewayAssumption DEF Call

LEMMA LeftInRange == Typed => LeftBounded
<1> SUFFICES ASSUME Typed PROVE LeftBounded
  OBVIOUS
<1> DEFINE attempts == 3 * (MaxRetries - call.retries)
<1>1. call \in Call
  BY DEF Typed, TypeOK
<1>2. attempts \in Nat /\ attempts <= 3 * MaxRetries /\ MaxRetries \in Nat
  BY <1>1, LeftIs, GatewayAssumption
<1>3. call.pc \in {"idle", "reject", "warn", "admit", "dispatch", "send", "await", "logError", "logSuccess", "debit"}
  BY <1>1 DEF Call
<1>4. Left \in {0, 1, 2, attempts + 2, attempts + 3, attempts + 4, attempts + 5, attempts + 6,
              attempts + 7}
  BY <1>3 DEF Left
<1> HIDE DEF attempts
<1>. QED BY <1>2, <1>4 DEF LeftBounded

\* A step to another control point with as many attempts left.
LEMMA Onward ==
  ASSUME Typed, NEW pc \in {"idle", "reject", "warn", "admit", "dispatch", "send", "await", "logError", "logSuccess", "debit"},
         GoTo(pc),
         \/ call.pc \in {"warn", "admit"} /\ pc = "reject"
         \/ call.pc = "warn" /\ pc = "admit"
         \/ call.pc = "admit" /\ pc = "dispatch"
         \/ call.pc = "dispatch" /\ pc = "send"
         \/ call.pc = "send" /\ pc = "await"
         \/ call.pc = "await" /\ pc = "logSuccess"
         \/ call.pc = "logSuccess" /\ pc = "debit"
  PROVE  Left' < Left
<1> DEFINE attempts == 3 * (MaxRetries - call.retries)
<1>1. call \in Call /\ attempts \in Nat
  BY LeftIs DEF Typed, TypeOK
<1>2. call'.pc = pc /\ call'.retries = call.retries
  BY <1>1 DEF GoTo, Call
<1>3. Left' = CASE pc = "idle" -> 0
                [] pc \in {"reject", "debit"} -> 1
                [] pc = "logSuccess" -> 2
                [] pc = "logError" -> attempts + 2
                [] pc = "await" -> attempts + 3
                [] pc = "send" -> attempts + 4
                [] pc = "dispatch" -> attempts + 5
                [] pc = "admit" -> attempts + 6
                [] pc = "warn" -> attempts + 7
  BY <1>2 DEF Left
<1>4. Left = CASE call.pc = "idle" -> 0
                [] call.pc \in {"reject", "debit"} -> 1
                [] call.pc = "logSuccess" -> 2
                [] call.pc = "logError" -> attempts + 2
                [] call.pc = "await" -> attempts + 3
                [] call.pc = "send" -> attempts + 4
                [] call.pc = "dispatch" -> attempts + 5
                [] call.pc = "admit" -> attempts + 6
                [] call.pc = "warn" -> attempts + 7
  BY DEF Left
<1> HIDE DEF attempts
<1>. QED BY <1>1, <1>3, <1>4

LEMMA Ending ==
  ASSUME Typed, call' = Idle, call.pc # "idle"
  PROVE  Left' < Left
<1>1. Left' = 0
  BY DEF Left, Idle
<1>2. Left > 0
  <2> DEFINE attempts == 3 * (MaxRetries - call.retries)
  <2>1. call \in Call /\ attempts \in Nat
    BY LeftIs DEF Typed, TypeOK
  <2>2. Left \in {1, 2, attempts + 2, attempts + 3, attempts + 4, attempts + 5, attempts + 6,
              attempts + 7}
    BY <2>1 DEF Left, Call
  <2> HIDE DEF attempts
  <2>. QED BY <2>1, <2>2
<1>. QED BY <1>1, <1>2

\* Every call of route() comes to an end after a bounded number of its own steps,
\* whatever the provider, the ledger and the budgeter do.
THEOREM CallsRunDown == Spec => []LeftBounded /\ RunsDown
<1>1. ASSUME Typed, [Next]_vars
      PROVE  [call.pc # "idle" => Left' < Left \/ (call' = call /\ now' = now + 1)]_vars
  <2> SUFFICES ASSUME call.pc # "idle", ~UNCHANGED vars
               PROVE  Left' < Left \/ (call' = call /\ now' = now + 1)
    OBVIOUS
  <2>1. CASE Route
    BY <2>1 DEF Route
  <2>2. CASE Warn
    BY <1>1, <2>2, Onward, Ending DEF Warn, Raises, Return
  <2>3. CASE Admit
    BY <1>1, <2>3, Onward DEF Admit
  <2>4. CASE Reject
    BY <1>1, <2>4, Ending DEF Reject, Raises, Return
  <2>5. CASE Dispatch
    BY <1>1, <2>5, Onward, Ending DEF Dispatch, Raises, Return
  <2>6. CASE SendSucceeds
    BY <1>1, <2>6, Onward DEF SendSucceeds
  <2>13. CASE Send
    BY <1>1, <2>13, Onward DEF Send
  <2>7. CASE NoProvider \/ \E retryable \in BOOLEAN : SendFails(retryable)
    <3>1. call \in Call /\ TypeOK
      BY <1>1 DEF Typed, TypeOK
    <3>2. PICK again \in BOOLEAN : Fails(again)
      BY <2>7, <3>1, FailurePoint
    <3>3. call.pc \in {"send", "await"} /\ call'.pc = "logError"
      BY <2>7, <3>1, FailurePoint
    <3>4. call'.retries = call.retries
      BY <3>1, <3>2 DEF Fails, Call
    <3> DEFINE attempts == 3 * (MaxRetries - call.retries)
    <3>5. Left \in {attempts + 3, attempts + 4} /\ Left' = attempts + 2
      BY <3>3, <3>4 DEF Left
    <3>6. attempts \in Nat
      BY <3>1, LeftIs
    <3> HIDE DEF attempts
    <3>. QED BY <3>5, <3>6
  <2>8. CASE LogError
    <3>1. CASE call.again /\ call' = Retried
      <4>1. call \in Call /\ call.pc = "logError"
        BY <1>1, <2>8 DEF Typed, TypeOK, LogError
      <4>2. call'.pc = "send" /\ call'.retries = call.retries + 1
        BY <3>1, <4>1 DEF Retried, Call
      <4>3. Left = 3 * (MaxRetries - call.retries) + 2 /\ Left' = 3 * (MaxRetries - (call.retries + 1)) + 4
        BY <4>1, <4>2 DEF Left
      <4>4. MaxRetries \in Nat /\ call.retries \in Nat
        BY <4>1, LeftIs, GatewayAssumption
      <4>. QED BY <4>3, <4>4
    <3>2. CASE call' = Idle
      BY <1>1, <3>2, Ending
    <3>. QED BY <2>8, <3>1, <3>2 DEF LogError, Raises, Return
  <2>9. CASE LogSuccess
    BY <1>1, <2>9, Onward, Ending DEF LogSuccess, Raises, Return
  <2>10. CASE Debit
    BY <1>1, <2>10, Ending DEF Debit, Raises, Return
  <2>11. CASE Tick
    BY <2>11 DEF Tick
  <2>12. CASE Crash
    BY <1>1, <2>12, Ending DEF Crash
  <2>. QED BY <1>1, <2>1, <2>2, <2>3, <2>4, <2>5, <2>6, <2>7, <2>8, <2>9, <2>10, <2>11, <2>12, <2>13, Cases
<1>. QED BY <1>1, TypedInvariant, LeftInRange, PTL DEF Spec, RunsDown
=============================================================================
