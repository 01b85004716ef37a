------------------------------ MODULE LLMGateway ------------------------------
(***************************************************************************)
(* One gateway in front of the model providers: route() with its circuit   *)
(* breaker, its ledger entries, its retries and the debit at its end.      *)
(* PKG-LLM-GATEWAY-001/HOT/kernel/llm_gateway.py.                          *)
(*                                                                         *)
(* The host is single-threaded: one route() at a time.  Each write to the  *)
(* ledger is a step of its own, and so are the call of the provider and    *)
(* its answer: a write may raise, the process may end before and after     *)
(* each of them, and time passes during any step.  What the budget check   *)
(* and the provider answer is arbitrary here.                              *)
(***************************************************************************)
EXTENDS Integers

CONSTANTS
  FailureThreshold,  \* CircuitBreakerConfig.failure_threshold
  RecoveryTimeout,   \* recovery_timeout_ms, in ticks of the clock
  HalfOpenMax,       \* half_open_max
  MaxRetries,        \* RouterConfig.max_retries
  BudgetMode,        \* "enforce", "warn" or "off"
  MaxRoutes,         \* bound: calls of route()
  MaxNow,            \* bound: ticks of the clock
  MaxFaults          \* bound: ledger writes that raise, and crashes

ASSUME GatewayAssumption ==
  /\ FailureThreshold \in Nat \ {0}
  /\ RecoveryTimeout \in Nat
  /\ HalfOpenMax \in Nat \ {0}
  /\ MaxRetries \in Nat
  /\ BudgetMode \in {"enforce", "warn", "off"}
  /\ MaxRoutes \in Nat
  /\ MaxNow \in Nat
  /\ MaxFaults \in Nat

VARIABLES
  breaker,    \* the CircuitBreaker
  call,       \* the route() in progress
  result,     \* how the last route() ended
  entries,    \* kinds of the ledger entries of the current or last route()
  sends,      \* the current or last route() has called the provider
  lost,       \* tests of the half-open circuit that never reached the provider
  streak,     \* failures of the provider since its last success
  exchanges,  \* EXCHANGE entries of successful calls
  charged,    \* debits of the budgeter
  routes,     \* calls of route()
  now,        \* the clock
  faults      \* ledger writes that have raised, and crashes

vars == <<breaker, call, result, entries, sends, lost, streak, exchanges, charged,
          routes, now, faults>>

Kinds == {"REJECTED", "WARNING", "DISPATCH", "ERROR", "SUCCESS"}

\* A failure count beyond the threshold has no further effect.
Capped(n) == IF n < FailureThreshold THEN n + 1 ELSE n

-----------------------------------------------------------------------------
(* CircuitBreaker                                                           *)

Breaker ==
  [state : {"CLOSED", "OPEN", "HALF_OPEN"}, failures : 0..FailureThreshold,
   since : Nat, probes : 0..HalfOpenMax]

NewBreaker == [state |-> "CLOSED", failures |-> 0, since |-> 0, probes |-> 0]

\* Bug: the tests of the last time the circuit was half-open still count.
Current_TestsKept ==
  IF breaker.state = "OPEN" /\ now - breaker.since >= RecoveryTimeout
    THEN [breaker EXCEPT !.state = "HALF_OPEN"]
    ELSE breaker

\* The state property: an open circuit turns half-open after the timeout.
Current ==
  IF breaker.state = "OPEN" /\ now - breaker.since >= RecoveryTimeout
    THEN [breaker EXCEPT !.state = "HALF_OPEN", !.probes = 0]
    ELSE breaker

\* Bug: a half-open circuit lets everything through.
Admits_Unbounded(b) == b.state # "OPEN"

\* allow_request(): a half-open circuit lets half_open_max requests through.
Admits(b) == b.state = "CLOSED" \/ (b.state = "HALF_OPEN" /\ b.probes < HalfOpenMax)

Admitted(b) == IF b.state = "HALF_OPEN" THEN [b EXCEPT !.probes = @ + 1] ELSE b

\* Bug: the failures before the success are still counted.
Succeeded_CountKept == [NewBreaker EXCEPT !.since = breaker.since,
                                          !.failures = breaker.failures]

\* record_success(): closed, whatever the state was.
Succeeded == [NewBreaker EXCEPT !.since = breaker.since]

\* record_failure()
Failed ==
  LET n == Capped(breaker.failures)
  IN  [breaker EXCEPT !.failures = n, !.since = now,
                      !.state = IF n >= FailureThreshold \/ @ = "HALF_OPEN" THEN "OPEN" ELSE @]

-----------------------------------------------------------------------------
(* route()                                                                  *)

\* pc: what route() does next.
Call == [pc : {"idle", "reject", "warn", "admit", "dispatch", "send", "await",
               "logError", "logSuccess", "debit"},
         retries : 0..MaxRetries, again : BOOLEAN]

Idle == [pc |-> "idle", retries |-> 0, again |-> FALSE]

Init ==
  /\ breaker = NewBreaker
  /\ call = Idle
  /\ result = "NONE"
  /\ entries = {}
  /\ sends = FALSE
  /\ lost = 0
  /\ streak = 0
  /\ exchanges = 0
  /\ charged = 0
  /\ routes = 0
  /\ now = 0
  /\ faults = 0

GoTo(pc) == call' = [call EXCEPT !.pc = pc]

Return(outcome) == call' = Idle /\ result' = outcome

\* self._ledger.write(entry) of this kind returns...
Wrote(kind) == entries' = entries \union {kind} /\ faults' = faults

\* ... or raises, and with it route().  The entry may be there all the same; if
\* it is not, the client keeps it and writes it during a later call.
Raises(kind) ==
  /\ faults < MaxFaults
  /\ faults' = faults + 1
  /\ entries' \in {entries, entries \union {kind}}
  /\ Return("RAISED")

\* Steps 1 to 3: the input and the token are good or not, the budget check
\* passes or not; in "warn" mode a failed check is only reported.
Route ==
  /\ call.pc = "idle"
  /\ routes < MaxRoutes
  /\ routes' = routes + 1
  /\ entries' = {}
  /\ sends' = FALSE
  /\ result' = "NONE"
  /\ \/ GoTo("reject")
     \/ GoTo("admit")
     \/ BudgetMode = "warn" /\ GoTo("warn")
  /\ UNCHANGED <<breaker, lost, streak, exchanges, charged, now, faults>>

\* _write_budget_warning()
Warn ==
  /\ call.pc = "warn"
  /\ \/ Wrote("WARNING") /\ GoTo("admit") /\ UNCHANGED result
     \/ Raises("WARNING")
  /\ UNCHANGED <<breaker, sends, lost, streak, exchanges, charged, routes, now>>

\* Step 5: ask the circuit breaker.
Admit ==
  /\ call.pc = "admit"
  /\ IF Admits(Current)
       THEN breaker' = Admitted(Current) /\ GoTo("dispatch")
       ELSE breaker' = Current /\ GoTo("reject")
  /\ UNCHANGED <<result, entries, sends, lost, streak, exchanges, charged, routes, now, faults>>

\* _reject()
Reject ==
  /\ call.pc = "reject"
  /\ \/ Wrote("REJECTED") /\ Return("REJECTED")
     \/ Raises("REJECTED")
  /\ UNCHANGED <<breaker, sends, lost, streak, exchanges, charged, routes, now>>

\* Bug: a marker that cannot be written does not stop the call.
Dispatch_Unmarked ==
  /\ call.pc = "dispatch"
  /\ \/ Wrote("DISPATCH")
     \/ faults < MaxFaults /\ faults' = faults + 1 /\ entries' = entries
  /\ GoTo("send")
  /\ UNCHANGED <<breaker, result, sends, lost, streak, exchanges, charged, routes, now>>

\* Step 6: the DISPATCH marker.  If it raises, the test that a half-open circuit
\* has admitted is used up, and no outcome of the provider will give it back.
Dispatch ==
  /\ call.pc = "dispatch"
  /\ \/ Wrote("DISPATCH") /\ GoTo("send") /\ UNCHANGED <<result, lost>>
     \/ /\ Raises("DISPATCH")
        /\ lost' = IF breaker.state = "HALF_OPEN" THEN lost + 1 ELSE lost
  /\ UNCHANGED <<breaker, sends, streak, exchanges, charged, routes, now>>

\* record_failure(), before the entry of the failed exchange.
Fails(again) ==
  /\ breaker' = Failed
  /\ lost' = 0
  /\ streak' = Capped(streak)
  /\ call' = [call EXCEPT !.pc = "logError", !.again = again]
  /\ UNCHANGED <<result, entries, sends, exchanges, charged, routes, now, faults>>

\* Step 7: the provider is called...
Send ==
  /\ call.pc = "send"
  /\ sends' = TRUE
  /\ GoTo("await")
  /\ UNCHANGED <<breaker, result, entries, lost, streak, exchanges, charged, routes, now, faults>>

\* ... unless none is registered under that name.
NoProvider == call.pc = "send" /\ call.retries = 0 /\ Fails(FALSE)

\* The provider answers.
SendSucceeds ==
  /\ call.pc = "await"
  /\ breaker' = Succeeded
  /\ lost' = 0
  /\ streak' = 0
  /\ GoTo("logSuccess")
  /\ UNCHANGED <<result, entries, sends, exchanges, charged, routes, now, faults>>

\* The provider raises: the failure is recorded, and a retryable one is tried
\* again while retries are left.
SendFails(retryable) ==
  call.pc = "await" /\ Fails(retryable /\ call.retries < MaxRetries)

\* Bug: retry_count is set instead of incremented.
Retried_NotCounted == [call EXCEPT !.pc = "send", !.retries = 1]

Retried == [call EXCEPT !.pc = "send", !.retries = @ + 1]

\* _write_exchange_error(), then the next attempt or the error response.
LogError ==
  /\ call.pc = "logError"
  /\ \/ /\ Wrote("ERROR")
        /\ IF call.again THEN call' = Retried /\ UNCHANGED result ELSE Return("ERROR")
     \/ Raises("ERROR")
  /\ UNCHANGED <<breaker, sends, lost, streak, exchanges, charged, routes, now>>

\* Bug: the debit is forgotten.
LogSuccess_NoDebit ==
  /\ call.pc = "logSuccess"
  /\ Wrote("SUCCESS") /\ exchanges' = exchanges + 1 /\ Return("SUCCESS")
  /\ UNCHANGED <<breaker, sends, lost, streak, charged, routes, now>>

\* Step 8: _write_exchange()
LogSuccess ==
  /\ call.pc = "logSuccess"
  /\ \/ Wrote("SUCCESS") /\ exchanges' = exchanges + 1 /\ GoTo("debit") /\ UNCHANGED result
     \/ Raises("SUCCESS") /\ UNCHANGED exchanges
  /\ UNCHANGED <<breaker, sends, lost, streak, charged, routes, now>>

\* Steps 9 to 11: the debit, whose own entry may raise after the budget in
\* memory has been charged, and the response.
Debit ==
  /\ call.pc = "debit"
  /\ charged' = charged + 1
  /\ \/ Return("SUCCESS") /\ UNCHANGED faults
     \/ faults < MaxFaults /\ faults' = faults + 1 /\ Return("RAISED")
  /\ UNCHANGED <<breaker, entries, sends, lost, streak, exchanges, routes, now>>

Tick ==
  /\ now < MaxNow
  /\ now' = now + 1
  /\ UNCHANGED <<breaker, call, result, entries, sends, lost, streak, exchanges, charged,
                 routes, faults>>

\* The process ends; the next one starts with a closed circuit.
Crash ==
  /\ faults < MaxFaults
  /\ faults' = faults + 1
  /\ call' = Idle
  /\ result' = "NONE"
  /\ breaker' = NewBreaker
  /\ lost' = 0
  /\ streak' = 0
  /\ UNCHANGED <<entries, sends, exchanges, charged, routes, now>>

Proceed ==
  \/ Warn \/ Admit \/ Reject \/ Dispatch \/ Send \/ NoProvider \/ SendSucceeds
  \/ \E retryable \in BOOLEAN : SendFails(retryable)
  \/ LogError \/ LogSuccess \/ Debit

Next == Route \/ Proceed \/ Tick \/ Crash

Spec == Init /\ [][Next]_vars

\* route() is straight code around a provider whose send() has a timeout.
FairSpec == Spec /\ WF_vars(Proceed)

-----------------------------------------------------------------------------
(* Properties.                                                              *)

\* Types: a half-open circuit has admitted at most half_open_max tests, a call
\* has been retried at most max_retries times.
TypeOK ==
  /\ breaker \in Breaker
  /\ call \in Call
  /\ result \in {"NONE", "REJECTED", "ERROR", "SUCCESS", "RAISED"}
  /\ entries \subseteq Kinds
  /\ sends \in BOOLEAN
  /\ lost \in Nat
  /\ streak \in 0..FailureThreshold
  /\ exchanges \in Nat /\ charged \in Nat
  /\ routes \in 0..MaxRoutes
  /\ now \in 0..MaxNow
  /\ faults \in 0..MaxFaults
  /\ breaker.since <= now

\* "Every path (success or error) logs to the ledger. No silent failures":
\* whatever response route() returns, the entry that tells of it is written.
ReturnsLogged == result \in {"REJECTED", "ERROR", "SUCCESS"} => result \in entries

\* A provider that has been called has its DISPATCH marker in the ledger: the
\* marker may raise, and the process may end, between the circuit breaker, the
\* marker, the call and its answer, and the call may be one of several attempts.
MarkedBeforeSend == sends => "DISPATCH" \in entries

\* Between two calls every successful exchange has been debited exactly once,
\* as long as no write has raised and the process has not ended.
ChargedOnce == faults = 0 /\ call.pc # "debit" => charged = exchanges

\* "failure_threshold: consecutive failures before opening circuit": the circuit
\* is closed exactly as long as fewer failures than that follow one another.
TripsOnStreak == breaker.state = "CLOSED" <=> streak < FailureThreshold

Open == breaker.state = "OPEN" /\ now - breaker.since < RecoveryTimeout

\* The first attempt of a call never goes through an open circuit, whatever was
\* written and whatever time has passed since the circuit breaker was asked.
FirstSendAdmitted ==
  [][call.pc = "send" /\ call'.pc = "await" /\ call.retries = 0 => ~Open]_vars

\* "half_open_max": the tests that a half-open circuit has used are the one under
\* way, if there is one, and those whose marker could not be written.  Every
\* outcome of the provider, of a retry too, gives back all of them; no rejected
\* call takes one.
TestsAccounted ==
  breaker.state = "HALF_OPEN" =>
    breaker.probes = lost + (IF call.pc \in {"dispatch", "send", "await"} THEN 1 ELSE 0)

\* Every call of route() comes to an end, however the provider behaves.
RouteReturns == call.pc # "idle" ~> call.pc = "idle"
=============================================================================
