-------------------------- MODULE HO1ExecutorProofs --------------------------
(* Proofs about HO1, for every set of tools, budget, limit and number of    *)
(* ledger writes that raise.                                                *)
EXTENDS HO1Executor, FiniteSetTheorems, TLAPS

\* The actions of Execute, for the case split of every invariance proof.
LEMMA Cases ==
  ASSUME [Execute]_vars
  PROVE  \/ Dispatch \/ Start \/ Prepare \/ Check
         \/ RouteSucceeds \/ RouteFails \/ RouteRaises \/ Account
         \/ \E tool \in Tools : RunTool(tool)
         \/ ToolsDone \/ FollowUp \/ Finish \/ Complete \/ Fail \/ UNCHANGED vars
BY DEF Execute

\* Where execute() has left its try block, or is about to.
Ended == {"fail", "failAgain", "returned", "raised"}

-----------------------------------------------------------------------------
(* Types.                                                                   *)

\* A model call or a tool leaves room for a further turn.
TurnLeft == pc \notin Ended \union {"check"} => turn < TurnLimit

\* TypeOK alone is not inductive: that turn stays in its range follows from
\* TurnLeft.
Typed == TypeOK /\ TurnLeft

LEMMA TypedFacts ==
  ASSUME TypeOK
  PROVE  /\ turn \in Nat /\ left \in Nat /\ charged \in Nat /\ debits \in Nat /\ faults \in Nat
         /\ turn <= TurnLimit /\ left <= TokenBudget /\ faults <= MaxFaults
         /\ cost.total \in Nat /\ cost.llmCalls \in Nat /\ cost.toolCalls \in Nat
         /\ cost = [total |-> cost.total, llmCalls |-> cost.llmCalls, toolCalls |-> cost.toolCalls]
         /\ got.tokens \in Nat /\ got.ok \in BOOLEAN
         /\ order.tools \subseteq Tools /\ order.type \in {"llm", "tool_call"}
         /\ \A k \in Kinds : log[k] \in Nat
         /\ TokenBudget \in Nat \ {0} /\ TurnLimit \in Nat \ {0} /\ FollowupMin \in Nat
         /\ ContractMax \in Nat /\ MaxInput \in Nat /\ MaxFaults \in Nat
         /\ order.mode \in Modes /\ RateLimited \in BOOLEAN
<1>1. /\ TokenBudget \in Nat \ {0} /\ TurnLimit \in Nat \ {0} /\ FollowupMin \in Nat
      /\ ContractMax \in Nat /\ MaxInput \in Nat /\ MaxFaults \in Nat
      /\ RateLimited \in BOOLEAN
  BY ExecutorAssumption
<1>2. /\ turn \in Nat /\ left \in Nat /\ charged \in Nat /\ debits \in Nat /\ faults \in Nat
      /\ turn <= TurnLimit /\ left <= TokenBudget /\ faults <= MaxFaults
  <2>1. turn \in 0..TurnLimit /\ left \in 0..TokenBudget /\ faults \in 0..MaxFaults
        /\ charged \in Nat /\ debits \in Nat
    BY DEF TypeOK
  <2>. QED BY <1>1, <2>1
<1>3. /\ cost.total \in Nat /\ cost.llmCalls \in Nat /\ cost.toolCalls \in Nat
      /\ cost = [total |-> cost.total, llmCalls |-> cost.llmCalls, toolCalls |-> cost.toolCalls]
  BY DEF TypeOK
<1>4. got.tokens \in Nat /\ got.ok \in BOOLEAN
  BY DEF TypeOK
<1>5. order.tools \subseteq Tools /\ order.type \in {"llm", "tool_call"} /\ order.mode \in Modes
  BY DEF TypeOK
<1>6. \A k \in Kinds : log[k] \in Nat
  BY DEF TypeOK
<1>. QED BY <1>1, <1>2, <1>3, <1>4, <1>5, <1>6

\* What a ledger write leaves behind, whether it returns or raises.
LEMMA WriteFacts ==
  ASSUME TypeOK, NEW kind \in Kinds, Wrote(kind) \/ Raised(kind)
  PROVE  /\ log' \in [Kinds -> Nat]
         /\ last' \in Kinds \union {"none"}
         /\ faults' \in 0..MaxFaults
         /\ \A k \in Kinds \ {kind} : log'[k] = log[k]
         /\ faults' = 0 => faults = 0
<1>1. log \in [Kinds -> Nat] /\ last \in Kinds \union {"none"} /\ faults \in 0..MaxFaults
  BY DEF TypeOK
<1>2. MaxFaults \in Nat
  BY ExecutorAssumption
<1>3. log' = [log EXCEPT ![kind] = @ + 1] \/ log' = log
  BY DEF Wrote, Raised
<1>4. log' \in [Kinds -> Nat] /\ \A k \in Kinds \ {kind} : log'[k] = log[k]
  <2>1. CASE log' = [log EXCEPT ![kind] = @ + 1]
    <3>1. log[kind] + 1 \in Nat
      BY <1>1
    <3>. QED BY <1>1, <2>1, <3>1
  <2>. QED BY <1>1, <1>3, <2>1
<1>5. last' \in Kinds \union {"none"}
  BY <1>1 DEF Wrote, Raised
<1>6. faults' \in 0..MaxFaults /\ (faults' = 0 => faults = 0)
  BY <1>1, <1>2 DEF Wrote, Raised
<1>. QED BY <1>4, <1>5, <1>6

\* An entry on the way: where execute() goes on, and that it counts the entry.
LEMMA WriteThenFacts ==
  ASSUME TypeOK, NEW kind \in Kinds, NEW next, WriteThen(kind, next)
  PROVE  /\ Wrote(kind) \/ Raised(kind)
         /\ pc' = next \/ pc' = "failAgain"
         /\ pc' # "failAgain" => pc' = next /\ Wrote(kind) /\ log'[kind] = log[kind] + 1
BY DEF WriteThen, Wrote, TypeOK

\* The two updates of the cost.
LEMMA CostFacts ==
  ASSUME TypeOK
  PROVE  /\ Accounted = [total |-> cost.total + got.tokens, llmCalls |-> cost.llmCalls + 1,
                         toolCalls |-> cost.toolCalls]
         /\ [cost EXCEPT !.toolCalls = @ + 1] =
              [total |-> cost.total, llmCalls |-> cost.llmCalls, toolCalls |-> cost.toolCalls + 1]
<1>1. cost \in [total : Nat, llmCalls : Nat, toolCalls : Nat]
  BY DEF TypeOK
<1>2. Accounted = [total |-> cost.total + got.tokens, llmCalls |-> cost.llmCalls + 1,
                   toolCalls |-> cost.toolCalls]
  <2>1. Accounted = [[cost EXCEPT !.total = @ + got.tokens] EXCEPT !.llmCalls = @ + 1]
    BY DEF Accounted
  <2>2. DEFINE once == [cost EXCEPT !.total = @ + got.tokens]
  <2>3. once = [total |-> cost.total + got.tokens, llmCalls |-> cost.llmCalls,
                toolCalls |-> cost.toolCalls]
    BY <1>1
  <2>4. once.llmCalls = cost.llmCalls
    BY <2>3
  <2>. QED BY <2>1, <2>3, <2>4
<1>3. [cost EXCEPT !.toolCalls = @ + 1] =
        [total |-> cost.total, llmCalls |-> cost.llmCalls, toolCalls |-> cost.toolCalls + 1]
  BY <1>1
<1>. QED BY <1>2, <1>3

LEMMA TypedInvariant == Spec => []Typed
<1>1. Init => Typed
  <2>. SUFFICES ASSUME Init PROVE Typed
    OBVIOUS
  <2>1. 0 \in 0..TurnLimit /\ 0 \in 0..MaxFaults /\ TokenBudget \in 0..TokenBudget
        /\ 0 < TurnLimit /\ 0 \in Nat
    BY ExecutorAssumption
  <2>2. cost \in [total : Nat, llmCalls : Nat, toolCalls : Nat] /\ got \in [tokens : Nat, ok : BOOLEAN]
    BY DEF Init, NoCost
  <2>3. log \in [Kinds -> Nat]
    BY DEF Init
  <2>. QED BY <2>1, <2>2, <2>3 DEF Init, Typed, TypeOK, TurnLeft
<1>2. Typed /\ [Execute]_vars => Typed'
  <2>. SUFFICES ASSUME TypeOK, TurnLeft, [Execute]_vars PROVE TypeOK' /\ TurnLeft'
    BY DEF Typed
  <2>1. CASE Dispatch
    BY <2>1 DEF Dispatch, TypeOK, TurnLeft, Ended, budget, ledger
  <2>2. CASE Start
    BY <2>2, TypedFacts DEF Start, TypeOK, TurnLeft, Ended, budget, ledger
  <2>3. CASE Prepare
    BY <2>3 DEF Prepare, TypeOK, TurnLeft, Ended, budget, ledger
  <2>4. CASE Check
    <3>1. ledger' = ledger \/ Wrote("BUDGET_WARNING") \/ Raised("BUDGET_WARNING")
      BY <2>4 DEF Check, WriteThen
    <3>2. log' \in [Kinds -> Nat] /\ last' \in Kinds \union {"none"} /\ faults' \in 0..MaxFaults
      BY <3>1, WriteFacts DEF ledger, TypeOK, Kinds
    <3>3. /\ pc' \in {"fail", "route", "failAgain"} /\ turn' = turn
          /\ pc' = "route" => turn < TurnLimit
      BY <2>4 DEF Check, WriteThen
    <3>. QED BY <2>4, <3>2, <3>3 DEF Check, TypeOK, TurnLeft, Ended, budget
  <2>5. CASE RouteSucceeds
    <3>1. PICK in \in 0..MaxInput, out \in 0..MaxTokens :
            got' = [tokens |-> in + out, ok |-> TRUE] /\ charged' = charged + in + out
      BY <2>5 DEF RouteSucceeds
    <3>2. in \in Nat /\ out \in Nat
      BY <3>1, TypedFacts DEF MaxTokens, Least
    <3>3. got' \in [tokens : Nat, ok : BOOLEAN] /\ charged' \in Nat
      BY <3>1, <3>2, TypedFacts
    <3>. QED BY <2>5, <3>3 DEF RouteSucceeds, TypeOK, TurnLeft, Ended, ledger
  <2>6. CASE RouteFails
    BY <2>6 DEF RouteFails, TypeOK, TurnLeft, Ended, budget, ledger
  <2>7. CASE RouteRaises
    <3>1. MaxTokens \in Nat
      BY TypedFacts DEF MaxTokens, Least
    <3>2. charged' \in Nat /\ debits' \in Nat
      BY <2>7, <3>1, TypedFacts DEF RouteRaises, budget
    <3>3. faults' \in 0..MaxFaults
      BY <2>7, TypedFacts DEF RouteRaises
    <3>. QED BY <2>7, <3>2, <3>3 DEF RouteRaises, TypeOK, TurnLeft, Ended
  <2>8. CASE Account
    <3>1. PICK uses \in ToolUses, next \in {"fail", "finish", "tools"} :
            /\ WriteThen("LLM_CALL", next)
            /\ pending' = IF pc' = "tools" THEN Permitted(uses) ELSE {}
      BY <2>8 DEF Account
    <3>2. /\ log' \in [Kinds -> Nat] /\ last' \in Kinds \union {"none"} /\ faults' \in 0..MaxFaults
          /\ pc' \in {"fail", "finish", "tools", "failAgain"}
      BY <3>1, WriteThenFacts, WriteFacts DEF Kinds
    <3>3. pending' \subseteq Tools
      BY <3>1, TypedFacts DEF Permitted, ToolUses
    <3>4. cost' \in [total : Nat, llmCalls : Nat, toolCalls : Nat]
      BY <2>8, CostFacts, TypedFacts DEF Account
    <3>5. turn' = turn /\ pc = "account"
      BY <2>8 DEF Account
    <3>. QED BY <2>8, <3>2, <3>3, <3>4, <3>5 DEF Account, TypeOK, TurnLeft, Ended, budget
  <2>9. ASSUME NEW tool \in Tools, RunTool(tool) PROVE TypeOK' /\ TurnLeft'
    <3>1. /\ log' \in [Kinds -> Nat] /\ last' \in Kinds \union {"none"} /\ faults' \in 0..MaxFaults
          /\ pc' \in {"tools", "failAgain"}
      BY <2>9, WriteThenFacts, WriteFacts DEF RunTool, Kinds
    <3>2. cost' \in [total : Nat, llmCalls : Nat, toolCalls : Nat]
      BY <2>9, CostFacts, TypedFacts DEF RunTool
    <3>3. pc = "tools" /\ turn' = turn /\ pending' \subseteq Tools /\ used' \subseteq Tools
      BY <2>9 DEF RunTool, TypeOK
    <3>. QED BY <2>9, <3>1, <3>2, <3>3 DEF RunTool, TypeOK, TurnLeft, Ended, budget
  <2>10. CASE ToolsDone
    BY <2>10 DEF ToolsDone, TypeOK, TurnLeft, Ended, budget, ledger
  <2>11. CASE FollowUp
    <3>1. ledger' = ledger \/ Wrote("BUDGET_WARNING") \/ Raised("BUDGET_WARNING")
      BY <2>11 DEF FollowUp, WriteThen
    <3>2. log' \in [Kinds -> Nat] /\ last' \in Kinds \union {"none"} /\ faults' \in 0..MaxFaults
      BY <3>1, WriteFacts DEF ledger, TypeOK, Kinds
    <3>3. pc' \in {"fail", "check", "failAgain"}
      BY <2>11 DEF FollowUp, WriteThen
    <3>4. turn < TurnLimit
      BY <2>11 DEF FollowUp, TurnLeft, Ended
    <3>5. left' \in 0..TokenBudget /\ turn' \in 0..TurnLimit
      <4>1. Reconciled \in 0..TokenBudget
        BY TypedFacts DEF Reconciled, AtLeastZero
      <4>2. NextTurn \in 0..TurnLimit
        BY <3>4, TypedFacts DEF NextTurn
      <4>. QED BY <2>11, <4>1, <4>2 DEF FollowUp, TypeOK
    <3>. QED BY <2>11, <3>2, <3>3, <3>5 DEF FollowUp, TypeOK, TurnLeft, Ended, budget
  <2>12. CASE Finish
    BY <2>12 DEF Finish, TypeOK, TurnLeft, Ended, budget, ledger
  <2>13. CASE Complete
    <3>1. /\ log' \in [Kinds -> Nat] /\ last' \in Kinds \union {"none"} /\ faults' \in 0..MaxFaults
          /\ pc' \in {"returned", "failAgain"}
      BY <2>13, WriteThenFacts, WriteFacts DEF Complete, Kinds
    <3>. QED BY <2>13, <3>1 DEF Complete, TypeOK, TurnLeft, Ended, budget
  <2>14. CASE Fail
    <3>1. /\ log' \in [Kinds -> Nat] /\ last' \in Kinds \union {"none"} /\ faults' \in 0..MaxFaults
      BY <2>14, WriteFacts DEF Fail, Kinds
    <3>2. pc' \in {"returned", "failAgain", "raised"}
      BY <2>14 DEF Fail
    <3>. QED BY <2>14, <3>1, <3>2 DEF Fail, TypeOK, TurnLeft, Ended, budget
  <2>15. CASE UNCHANGED vars
    BY <2>15 DEF vars, TypeOK, TurnLeft, Ended, budget, ledger
  <2>. QED BY <2>1, <2>2, <2>3, <2>4, <2>5, <2>6, <2>7, <2>8, <2>9, <2>10, <2>11, <2>12, <2>13,
              <2>14, <2>15, Cases
<1>. QED BY <1>1, <1>2, PTL DEF Spec

\* Every reachable state is well typed: the loop of execute() stays within its
\* limit and the budget it writes back stays between zero and what was granted.
THEOREM TypeCorrect == Spec => []TypeOK
BY TypedInvariant, PTL DEF Typed

-----------------------------------------------------------------------------
(* Turns and tokens.                                                        *)

\* A turn of the loop makes one call.
CallsCounted ==
  /\ TurnsBounded
  /\ pc \in {"planned", "start", "prepare", "check", "route", "account"} => cost.llmCalls <= turn
  /\ pc \in {"tools", "followUp"} => cost.llmCalls <= turn + 1

\* Until execute() leaves its try block the two accounts agree.
Agree ==
  /\ CostIsCharged
  /\ pc \notin Ended => charged = cost.total + (IF pc = "account" THEN got.tokens ELSE 0)

\* When budgets are enforced, what the loop writes back is the exact rest of the
\* budget before every call, never a rest that was cut off at zero.
LeftExact ==
  order.mode = "enforce" /\ pc \in {"planned", "start", "prepare", "check", "route"} =>
    left = TokenBudget - cost.total

Accounts == CallsCounted /\ Agree /\ LeftExact /\ OverspendBounded

\* No action takes back a ledger write that has raised.
LEMMA FaultsStay ==
  ASSUME TypeOK, [Execute]_vars
  PROVE  faults' \in Nat /\ (faults' = 0 => faults = 0)
<1>1. faults' = faults \/ faults' = faults + 1
  <2>1. \A kind, next : WriteThen(kind, next) => faults' = faults \/ faults' = faults + 1
    BY DEF WriteThen, Wrote, Raised
  <2>2. \A kind : Wrote(kind) \/ Raised(kind) => faults' = faults \/ faults' = faults + 1
    BY DEF Wrote, Raised
  <2>3. CASE Check \/ Account \/ FollowUp \/ Complete \/ \E tool \in Tools : RunTool(tool)
    BY <2>1, <2>3 DEF Check, Account, FollowUp, Complete, RunTool, ledger
  <2>4. CASE Fail
    BY <2>2, <2>4 DEF Fail
  <2>. QED BY <2>3, <2>4, Cases
       DEF Dispatch, Start, Prepare, RouteSucceeds, RouteFails, RouteRaises, ToolsDone, Finish,
           ledger, vars
<1>2. faults \in Nat
  BY TypedFacts
<1>. QED BY <1>1, <1>2

\* When a follow-up call is allowed, nothing of the rest of the budget is cut off.
LEMMA RestExact ==
  ASSUME TypeOK, ~TooLittle
  PROVE  Reconciled = TokenBudget - cost.total
<1>1. TokenBudget \in Nat /\ cost.total \in Nat /\ FollowupMin \in Nat
  BY TypedFacts
<1>2. TokenBudget - cost.total >= 0
  BY <1>1 DEF TooLittle
<1>. QED BY <1>1, <1>2 DEF Reconciled, AtLeastZero

\* A call may ask for no more output than the loop has left of the budget.
LEMMA MaxTokensFacts ==
  ASSUME TypeOK
  PROVE  MaxTokens \in Nat /\ MaxTokens <= left
<1>1. ContractMax \in Nat /\ left \in Nat
  BY TypedFacts
<1>2. CASE ContractMax <= left
  BY <1>1, <1>2 DEF MaxTokens, Least
<1>3. CASE ~(ContractMax <= left)
  BY <1>1, <1>3 DEF MaxTokens, Least
<1>. QED BY <1>2, <1>3

\* execute() reads the work order and does not change it.
LEMMA OrderStays == ASSUME [Execute]_vars PROVE order' = order
<1>1. ASSUME NEW tool \in Tools, RunTool(tool) PROVE order' = order
  BY <1>1 DEF RunTool
<1>2. CASE Check \/ Account \/ FollowUp \/ Complete \/ Fail
  BY <1>2 DEF Check, Account, FollowUp, Complete, Fail
<1>. QED BY <1>1, <1>2, Cases
     DEF Dispatch, Start, Prepare, RouteSucceeds, RouteFails, RouteRaises, ToolsDone, Finish, vars

LEMMA AccountsInvariant == Spec => []Accounts
<1>1. Init => Accounts
  <2>. SUFFICES ASSUME Init PROVE Accounts
    OBVIOUS
  <2>1. cost.total = 0 /\ cost.llmCalls = 0 /\ turn = 0 /\ charged = 0 /\ left = TokenBudget
        /\ pc = "planned"
    BY DEF Init, NoCost
  <2>. QED BY <2>1, ExecutorAssumption
       DEF Accounts, CallsCounted, TurnsBounded, Agree, CostIsCharged, LeftExact, OverspendBounded
<1>2. Typed /\ Accounts /\ [Execute]_vars => Accounts'
  <2>. SUFFICES ASSUME TypeOK, TurnLeft, Accounts, [Execute]_vars PROVE Accounts'
    BY DEF Typed
  <2>0. /\ turn \in Nat /\ left \in Nat /\ charged \in Nat /\ faults \in Nat
        /\ cost.total \in Nat /\ cost.llmCalls \in Nat /\ got.tokens \in Nat
        /\ TokenBudget \in Nat /\ TurnLimit \in Nat /\ FollowupMin \in Nat
        /\ ContractMax \in Nat /\ MaxInput \in Nat /\ turn <= TurnLimit
        /\ faults' \in Nat /\ (faults' = 0 => faults = 0)
        /\ order' = order
    BY TypedFacts, FaultsStay, OrderStays
  <2>. USE DEF Accounts, CallsCounted, TurnsBounded, Agree, CostIsCharged, LeftExact,
               OverspendBounded, Ended
  <2>1. CASE Dispatch
    BY <2>0, <2>1 DEF Dispatch, budget, ledger
  <2>2. CASE Start
    BY <2>0, <2>2 DEF Start, budget, ledger
  <2>3. CASE Prepare
    BY <2>0, <2>3 DEF Prepare, budget, ledger
  <2>4. CASE Check
    <3>1. pc = "check" /\ pc' \in {"fail", "route", "failAgain"} /\ turn' = turn /\ left' = left
          /\ cost' = cost /\ charged' = charged
      BY <2>0, <2>4 DEF Check, WriteThen, budget
    <3>. QED BY <2>0, <3>1
  <2>5. CASE RouteSucceeds
    <3>1. PICK in \in 0..MaxInput, out \in 0..MaxTokens :
            got' = [tokens |-> in + out, ok |-> TRUE] /\ charged' = charged + in + out
      BY <2>0, <2>5 DEF RouteSucceeds
    <3>2. in \in Nat /\ out \in Nat /\ in <= MaxInput /\ out <= left
      <4>1. MaxTokens \in Nat /\ MaxTokens <= left
        BY MaxTokensFacts
      <4>. QED BY <2>0, <4>1
    <3>5. got'.tokens = in + out
      BY <3>1
    <3>3. pc = "route" /\ pc' = "account" /\ turn' = turn /\ cost' = cost /\ faults' = faults
      BY <2>0, <2>5 DEF RouteSucceeds, ledger
    <3>4. charged = cost.total
      BY <2>0, <3>3
    <3>. QED BY <2>0, <3>1, <3>2, <3>3, <3>4, <3>5
  <2>6. CASE RouteFails
    BY <2>0, <2>6 DEF RouteFails, budget, ledger
  <2>7. CASE RouteRaises
    <3>1. pc = "route" /\ pc' = "fail" /\ turn' = turn /\ cost' = cost /\ faults' = faults + 1
      BY <2>0, <2>7 DEF RouteRaises
    <3>2. order.mode = "enforce" => charged' <= TokenBudget + MaxInput
      <4>1. charged = cost.total
        BY <2>0, <3>1
      <4>2. MaxTokens <= left /\ MaxTokens \in Nat
        BY MaxTokensFacts
      <4>3. PICK tokens \in 0..(MaxInput + MaxTokens) : charged' = charged + tokens \/ charged' = charged
        BY <2>0, <2>7, <4>2 DEF RouteRaises, budget
      <4>4. order.mode = "enforce" => left = TokenBudget - cost.total
        BY <3>1 DEF Accounts, LeftExact
      <4>. QED BY <2>0, <4>1, <4>2, <4>3, <4>4
    <3>. QED BY <2>0, <3>1, <3>2
  <2>8. CASE Account
    <3>1. cost'.total = cost.total + got.tokens /\ cost'.llmCalls = cost.llmCalls + 1
      BY <2>0, <2>8, CostFacts DEF Account
    <3>2. pc = "account" /\ turn' = turn /\ charged' = charged
          /\ pc' \in {"fail", "finish", "tools", "failAgain"}
      BY <2>0, <2>8 DEF Account, WriteThen, budget
    <3>3. cost.llmCalls <= turn /\ turn < TurnLimit /\ charged = cost.total + got.tokens
      BY <2>0, <3>2 DEF TurnLeft, Accounts, CallsCounted, Agree, Ended
    <3>. QED BY <2>0, <3>1, <3>2, <3>3
  <2>9. ASSUME NEW tool \in Tools, RunTool(tool) PROVE Accounts'
    <3>1. cost'.total = cost.total /\ cost'.llmCalls = cost.llmCalls
      BY <2>0, <2>9, CostFacts DEF RunTool
    <3>2. pc = "tools" /\ turn' = turn /\ charged' = charged /\ pc' \in {"tools", "failAgain"}
      BY <2>0, <2>9 DEF RunTool, WriteThen, budget
    <3>. QED BY <2>0, <3>1, <3>2
  <2>10. CASE ToolsDone
    BY <2>0, <2>10 DEF ToolsDone, budget, ledger
  <2>11. CASE FollowUp
    <3>1. pc = "followUp" /\ pc' \in {"fail", "check", "failAgain"} /\ cost' = cost
          /\ charged' = charged
      BY <2>0, <2>11 DEF FollowUp, WriteThen, budget
    <3>2. pc' = "check" => turn' = turn + 1 /\ left' = Reconciled
      BY <2>0, <2>11 DEF FollowUp, NextTurn
    <3>3. order.mode = "enforce" /\ pc' = "check" => left' = TokenBudget - cost.total
      <4>1. order.mode = "enforce" /\ pc' = "check" => ~TooLittle
        BY <2>0, <2>11 DEF FollowUp, WriteThen
      <4>. QED BY <2>0, <3>2, <4>1, RestExact
    <3>. QED BY <2>0, <3>1, <3>2, <3>3
  <2>12. CASE Finish
    BY <2>0, <2>12 DEF Finish, budget, ledger
  <2>13. CASE Complete
    <3>1. pc' \in {"returned", "failAgain"} /\ cost' = cost /\ charged' = charged
          /\ pc = "complete"
      BY <2>0, <2>13 DEF Complete, WriteThen, budget
    <3>. QED BY <2>0, <3>1
  <2>14. CASE Fail
    <3>1. pc' \in {"returned", "failAgain", "raised"} /\ cost' = cost /\ charged' = charged
          /\ pc \in {"fail", "failAgain"}
      BY <2>14 DEF Fail, budget
    <3>. QED BY <2>0, <3>1
  <2>15. CASE UNCHANGED vars
    BY <2>0, <2>15 DEF vars, budget, ledger
  <2>. QED BY <2>1, <2>2, <2>3, <2>4, <2>5, <2>6, <2>7, <2>8, <2>9, <2>10, <2>11, <2>12, <2>13,
              <2>14, <2>15, Cases
<1>. QED BY <1>1, <1>2, TypedInvariant, PTL DEF Spec

\* HO1 never calls the gateway more often than turn_limit allows.
THEOREM TurnLimitHolds == Spec => []TurnsBounded
BY AccountsInvariant, PTL DEF Accounts, CallsCounted

\* The cost HO1 reports is what the gateway has debited, as long as no ledger
\* write raises.
THEOREM AccountsAgree == Spec => []CostIsCharged
BY AccountsInvariant, PTL DEF Accounts, Agree

\* When budgets are enforced a work order overspends by at most one prompt,
\* whatever the tools, the limits and the faults.
THEOREM OverspendLimited == Spec => []OverspendBounded
BY AccountsInvariant, PTL DEF Accounts

-----------------------------------------------------------------------------
(* The trace of a work order in HO1m.                                       *)

\* What runs is allowed, what has run is in HO1m until execute() gives up, and
\* what it returns is the last entry.
Trace ==
  /\ pending \subseteq order.tools
  /\ ToolsAllowed
  /\ pc \notin Ended => cost.toolCalls = log["TOOL_CALL"]
  /\ ResultLogged

\* Actions that run no tool and end nothing leave the trace as it is.
LEMMA TraceKept ==
  ASSUME TypeOK, Trace, order' = order, used' = used, cost'.toolCalls = cost.toolCalls,
         pending' \subseteq order.tools, log'["TOOL_CALL"] = log["TOOL_CALL"],
         pc' \notin Ended => pc \notin Ended, pc' # "returned"
  PROVE  Trace'
BY DEF Trace, ToolsAllowed, ResultLogged

LEMMA TraceInvariant == Spec => []Trace
<1>1. Init => Trace
  <2>. SUFFICES ASSUME Init PROVE Trace
    OBVIOUS
  <2>1. cost.toolCalls = 0 /\ log["TOOL_CALL"] = 0 /\ pc = "planned"
    BY DEF Init, NoCost, Kinds
  <2>. QED BY <2>1 DEF Init, Trace, ToolsAllowed, ResultLogged
<1>2. Typed /\ Trace /\ [Execute]_vars => Trace'
  <2>. SUFFICES ASSUME TypeOK, Trace, [Execute]_vars PROVE Trace'
    BY DEF Typed
  <2>0. pending \subseteq order.tools
    BY DEF Trace
  <2>1. CASE Dispatch
    BY <2>0, <2>1, TraceKept DEF Dispatch, Ended, budget, ledger
  <2>2. CASE Start
    BY <2>0, <2>2, TraceKept DEF Start, Ended, budget, ledger
  <2>3. CASE Prepare
    BY <2>0, <2>3, TraceKept DEF Prepare, Ended, budget, ledger
  <2>4. CASE Check
    <3>1. ledger' = ledger \/ Wrote("BUDGET_WARNING") \/ Raised("BUDGET_WARNING")
      BY <2>4 DEF Check, WriteThen
    <3>2. log'["TOOL_CALL"] = log["TOOL_CALL"]
      BY <3>1, WriteFacts DEF ledger, Kinds
    <3>3. pc = "check" /\ pc' # "returned"
      BY <2>4 DEF Check, WriteThen
    <3>. QED BY <2>0, <2>4, <3>2, <3>3, TraceKept DEF Check, Ended
  <2>5. CASE RouteSucceeds
    BY <2>0, <2>5, TraceKept DEF RouteSucceeds, Ended, ledger
  <2>6. CASE RouteFails
    BY <2>0, <2>6, TraceKept DEF RouteFails, Ended, ledger
  <2>7. CASE RouteRaises
    BY <2>0, <2>7, TraceKept DEF RouteRaises, Ended
  <2>8. CASE Account
    <3>1. PICK uses \in ToolUses, next \in {"fail", "finish", "tools"} :
            /\ WriteThen("LLM_CALL", next)
            /\ pending' = IF pc' = "tools" THEN Permitted(uses) ELSE {}
      BY <2>8 DEF Account
    <3>2. log'["TOOL_CALL"] = log["TOOL_CALL"] /\ pc' # "returned"
      BY <3>1, WriteFacts, WriteThenFacts DEF Kinds
    <3>3. pending' \subseteq order.tools
      BY <3>1 DEF Permitted, ToolUses
    <3>4. cost'.toolCalls = cost.toolCalls /\ order' = order /\ used' = used /\ pc = "account"
      BY <2>8, CostFacts DEF Account
    <3>. QED BY <3>2, <3>3, <3>4, TraceKept DEF Ended
  <2>9. ASSUME NEW tool \in Tools, RunTool(tool) PROVE Trace'
    <3>1. order' = order /\ pc = "tools" /\ tool \in pending /\ WriteThen("TOOL_CALL", "tools")
      BY <2>9 DEF RunTool
    <3>2. pending' \subseteq order'.tools /\ used' \subseteq order'.tools
      BY <2>0, <2>9, <3>1 DEF RunTool, Trace, ToolsAllowed
    <3>3. cost'.toolCalls = cost.toolCalls + 1
      BY <2>9, CostFacts DEF RunTool
    <3>4. pc' # "failAgain" => pc' = "tools" /\ log'["TOOL_CALL"] = log["TOOL_CALL"] + 1
      <4>1. "TOOL_CALL" \in Kinds
        BY DEF Kinds
      <4>. QED BY <3>1, <4>1, WriteThenFacts
    <3>5. cost.toolCalls = log["TOOL_CALL"]
      BY <3>1 DEF Trace, Ended
    <3>6. pc' \notin Ended => cost'.toolCalls = log'["TOOL_CALL"]
      BY <3>3, <3>4, <3>5 DEF Ended
    <3>7. pc' # "returned"
      BY <3>4
    <3>. QED BY <3>2, <3>6, <3>7 DEF Trace, ToolsAllowed, ResultLogged
  <2>10. CASE ToolsDone
    BY <2>0, <2>10, TraceKept DEF ToolsDone, Ended, budget, ledger
  <2>11. CASE FollowUp
    <3>1. ledger' = ledger \/ Wrote("BUDGET_WARNING") \/ Raised("BUDGET_WARNING")
      BY <2>11 DEF FollowUp, WriteThen
    <3>2. log'["TOOL_CALL"] = log["TOOL_CALL"]
      BY <3>1, WriteFacts DEF ledger, Kinds
    <3>3. pc = "followUp" /\ pc' # "returned"
      BY <2>11 DEF FollowUp, WriteThen
    <3>. QED BY <2>0, <2>11, <3>2, <3>3, TraceKept DEF FollowUp, Ended
  <2>12. CASE Finish
    BY <2>0, <2>12, TraceKept DEF Finish, Ended, budget, ledger
  <2>13. CASE Complete
    <3>1. /\ order' = order /\ used' = used /\ pending' = pending /\ cost' = cost
          /\ state' = "completed" /\ WriteThen("WO_COMPLETED", "returned")
      BY <2>13 DEF Complete
    <3>2. ResultLogged' /\ pc' \in Ended
      BY <3>1, WriteThenFacts DEF ResultLogged, Kinds, Wrote, Ended
    <3>. QED BY <2>0, <3>1, <3>2 DEF Trace, ToolsAllowed
  <2>14. CASE Fail
    <3>1. /\ order' = order /\ used' = used /\ pending' = pending /\ cost' = cost
          /\ state' = "failed" /\ pc \in {"fail", "failAgain"}
      BY <2>14 DEF Fail
    <3>2. \/ pc' = "returned" /\ last' = "WO_FAILED"
          \/ pc' \in {"failAgain", "raised"}
      BY <2>14 DEF Fail, Wrote
    <3>3. ResultLogged' /\ pc' \in Ended
      BY <3>1, <3>2 DEF ResultLogged, Ended
    <3>. QED BY <2>0, <3>1, <3>3 DEF Trace, ToolsAllowed
  <2>15. CASE UNCHANGED vars
    BY <2>15 DEF vars, budget, ledger, Trace, ToolsAllowed, ResultLogged
  <2>. QED BY <2>1, <2>2, <2>3, <2>4, <2>5, <2>6, <2>7, <2>8, <2>9, <2>10, <2>11, <2>12, <2>13,
              <2>14, <2>15, Cases
<1>. QED BY <1>1, <1>2, TypedInvariant, PTL DEF Spec

\* No tool runs that the work order does not allow, whatever the model asks for.
THEOREM AllowlistHolds == Spec => []ToolsAllowed
BY TraceInvariant, PTL DEF Trace

\* Before the model is called again, and before a work order completes, every
\* tool it asked for is in HO1m, however many writes raise.
THEOREM TraceComplete == Spec => []ToolsTraced
<1>1. Trace => ToolsTraced
  BY DEF Trace, ToolsTraced, Ended
<1>. QED BY <1>1, TraceInvariant, PTL

\* Whatever execute() returns is the last entry of the work order in HO1m,
\* however many writes raise.
THEOREM ResultInLedger == Spec => []ResultLogged
BY TraceInvariant, PTL DEF Trace

-----------------------------------------------------------------------------
(* The life of the work order and its end.                                  *)

\* The control point tells the state in which others find the work order.
Alive ==
  /\ state \in {"planned", "dispatched", "executing", "completed", "failed"}
  /\ Seen \in CASE pc = "planned" -> {"planned"}
                [] pc = "start" -> {"dispatched"}
                [] pc = "failAgain" -> {"executing", "failed"}
                [] pc \in {"returned", "raised"} -> {"completed", "failed"}
                [] OTHER -> {"executing"}

\* As long as no write has raised, a work order has no terminal entry before it
\* is returned, and one then.
Ends ==
  faults = 0 =>
    /\ pc # "raised"
    /\ log["WO_COMPLETED"] + log["WO_FAILED"] = (IF pc = "returned" THEN 1 ELSE 0)

\* A step writes no terminal entry.
SameEnds ==
  log'["WO_COMPLETED"] = log["WO_COMPLETED"] /\ log'["WO_FAILED"] = log["WO_FAILED"]

\* What an entry that has been written does to the terminal entries.
LEMMA EntryFacts ==
  ASSUME TypeOK, NEW kind \in Kinds, Wrote(kind)
  PROVE  /\ kind \notin {"WO_COMPLETED", "WO_FAILED"} => SameEnds
         /\ kind \in {"WO_COMPLETED", "WO_FAILED"} =>
              log'["WO_COMPLETED"] + log'["WO_FAILED"] = log["WO_COMPLETED"] + log["WO_FAILED"] + 1
<1>1. log \in [Kinds -> Nat] /\ log' = [log EXCEPT ![kind] = log[kind] + 1]
  BY DEF TypeOK, Wrote
<1>2. "WO_COMPLETED" \in Kinds /\ "WO_FAILED" \in Kinds
  BY DEF Kinds
<1>3. \A k \in Kinds : log'[k] = IF k = kind THEN log[k] + 1 ELSE log[k]
  BY <1>1
<1>4. log["WO_COMPLETED"] \in Nat /\ log["WO_FAILED"] \in Nat
  BY <1>1, <1>2
<1>5. CASE kind = "WO_COMPLETED"
  <2>1. log'["WO_COMPLETED"] = log["WO_COMPLETED"] + 1 /\ log'["WO_FAILED"] = log["WO_FAILED"]
    BY <1>2, <1>3, <1>5
  <2>. QED BY <1>4, <1>5, <2>1
<1>6. CASE kind = "WO_FAILED"
  <2>1. log'["WO_FAILED"] = log["WO_FAILED"] + 1 /\ log'["WO_COMPLETED"] = log["WO_COMPLETED"]
    BY <1>2, <1>3, <1>6
  <2>. QED BY <1>4, <1>6, <2>1
<1>7. CASE kind \notin {"WO_COMPLETED", "WO_FAILED"}
  BY <1>2, <1>3, <1>7 DEF SameEnds
<1>. QED BY <1>5, <1>6, <1>7

\* The points between the start of execute() and its end.
Running == {"prepare", "check", "route", "account", "tools", "followUp", "finish", "complete", "fail"}

\* A step of the executing work order leaves it executing.
LEMMA OnwardAlive ==
  ASSUME Alive, state' = state, pc \in Running, pc' \in Running \union {"failAgain"}
  PROVE  Alive' /\ Seen' = Seen
<1>1. state = "executing"
  BY DEF Alive, Seen, Running
<1>2. Seen = "executing" /\ Seen' = "executing"
  BY <1>1 DEF Seen
<1>. QED BY <1>1, <1>2 DEF Alive, Running

\* A step that writes no terminal entry, or raises.
LEMMA OnwardEnds ==
  ASSUME Ends, faults' = 0 => faults = 0 /\ SameEnds, pc \notin {"returned", "raised"},
         faults' = 0 => pc' \notin {"returned", "raised"}
  PROVE  Ends'
BY DEF Ends, SameEnds

\* The step that ends the work order.
LEMMA LastEnds ==
  ASSUME TypeOK, Ends, NEW kind \in {"WO_COMPLETED", "WO_FAILED"},
         faults' = 0 => faults = 0 /\ Wrote(kind) /\ pc' = "returned",
         pc \notin {"returned", "raised"}
  PROVE  Ends'
<1>1. CASE faults' = 0
  <2>1. faults = 0 /\ Wrote(kind) /\ pc' = "returned"
    BY <1>1
  <2>2. kind \in Kinds
    BY DEF Kinds
  <2>3. log["WO_COMPLETED"] + log["WO_FAILED"] = 0
    BY <2>1 DEF Ends
  <2>4. log'["WO_COMPLETED"] + log'["WO_FAILED"] = 0 + 1
    BY <2>1, <2>2, <2>3, EntryFacts
  <2>. QED BY <2>1, <2>4 DEF Ends
<1>2. CASE faults' # 0
  BY <1>2 DEF Ends
<1>. QED BY <1>1, <1>2

\* The transitions of the state machine that execute() makes.
LEMMA Moves ==
  ASSUME \/ Seen = "planned" /\ Seen' = "dispatched"
         \/ Seen = "dispatched" /\ Seen' = "executing"
         \/ Seen = "executing" /\ Seen' \in {"completed", "failed"}
         \/ Seen' = Seen
  PROVE  [Lifecycle!Next]_Seen
<1>1. ASSUME Seen = "planned", Seen' = "dispatched"
      PROVE  Lifecycle!Transition("dispatched", "HO2")
  BY <1>1 DEF Lifecycle!Transition, Lifecycle!AllowedStates, Lifecycle!ValidTransitions,
              Lifecycle!WOStates
<1>2. ASSUME Seen = "dispatched", Seen' = "executing"
      PROVE  Lifecycle!Transition("executing", "HO1")
  BY <1>2 DEF Lifecycle!Transition, Lifecycle!AllowedStates, Lifecycle!ValidTransitions,
              Lifecycle!WOStates
<1>3. ASSUME Seen = "executing", NEW new \in {"completed", "failed"}, Seen' = new
      PROVE  Lifecycle!Transition(new, "HO1")
  BY <1>3 DEF Lifecycle!Transition, Lifecycle!AllowedStates, Lifecycle!ValidTransitions,
              Lifecycle!WOStates
<1>. QED BY <1>1, <1>2, <1>3 DEF Lifecycle!Next, Lifecycle!WOStates

\* Every step is one of the work order state machine, whatever raises.
LEMMA AliveStep ==
  ASSUME TypeOK, Alive, [Execute]_vars
  PROVE  Alive' /\ [Lifecycle!Next]_Seen
<1>1. CASE Dispatch
  <2>1. pc = "planned" /\ pc' = "start" /\ state' = "dispatched"
    BY <1>1 DEF Dispatch
  <2>2. Seen = "planned" /\ Seen' = "dispatched"
    BY <2>1 DEF Alive, Seen
  <2>3. Alive'
    BY <2>1, <2>2 DEF Alive
  <2>. QED BY <2>2, <2>3, Moves
<1>2. CASE Start
  <2>1. pc = "start" /\ pc' \in {"tools", "prepare"} /\ state' = "executing"
    BY <1>2 DEF Start
  <2>2. Seen = "dispatched" /\ Seen' = "executing"
    BY <2>1 DEF Alive, Seen
  <2>3. Alive'
    BY <2>1, <2>2 DEF Alive
  <2>. QED BY <2>2, <2>3, Moves
<1>3. CASE \/ Prepare \/ Check \/ RouteSucceeds \/ RouteFails \/ RouteRaises \/ Account
           \/ (\E tool \in Tools : RunTool(tool)) \/ ToolsDone \/ FollowUp \/ Finish
  <2>1. state' = state /\ pc \in Running
    BY <1>3 DEF Prepare, Check, RouteSucceeds, RouteFails, RouteRaises, Account, RunTool,
                ToolsDone, FollowUp, Finish, Running
  <2>2. pc' \in Running \union {"failAgain"}
    <3>1. CASE Prepare \/ RouteSucceeds \/ RouteFails \/ RouteRaises \/ ToolsDone \/ Finish
      BY <3>1 DEF Prepare, RouteSucceeds, RouteFails, RouteRaises, ToolsDone, Finish, Running
    <3>2. CASE Check
      BY <3>2 DEF Check, WriteThen, Running
    <3>3. CASE Account
      BY <3>3 DEF Account, WriteThen, Running
    <3>4. ASSUME NEW tool \in Tools, RunTool(tool) PROVE pc' \in {"tools", "failAgain"}
      BY <3>4 DEF RunTool, WriteThen
    <3>5. CASE FollowUp
      BY <3>5 DEF FollowUp, WriteThen, Running
    <3>. QED BY <1>3, <3>1, <3>2, <3>3, <3>4, <3>5 DEF Running
  <2>3. Alive' /\ Seen' = Seen
    BY <2>1, <2>2, OnwardAlive
  <2>. QED BY <2>3, Moves
<1>4. CASE Complete
  <2>1. pc = "complete" /\ state' = "completed" /\ pc' \in {"returned", "failAgain"}
    BY <1>4 DEF Complete, WriteThen
  <2>2. Seen = "executing"
    BY <2>1 DEF Alive, Seen
  <2>3. Seen' = (IF pc' = "failAgain" THEN "executing" ELSE "completed")
    BY <2>1 DEF Seen
  <2>4. Alive'
    BY <2>1, <2>3 DEF Alive
  <2>. QED BY <2>2, <2>3, <2>4, Moves
<1>5. CASE Fail
  <2>1. /\ pc \in {"fail", "failAgain"} /\ state' = "failed"
        /\ pc' \in {"returned", "failAgain", "raised"}
    BY <1>5 DEF Fail
  <2>2. Seen \in {"executing", "failed"}
    BY <2>1 DEF Alive, Seen
  <2>3. Seen' = "failed"
    BY <2>1 DEF Seen
  <2>4. Alive'
    BY <2>1, <2>3 DEF Alive
  <2>. QED BY <2>2, <2>3, <2>4, Moves
<1>6. CASE UNCHANGED vars
  <2>1. pc' = pc /\ state' = state
    BY <1>6 DEF vars
  <2>2. Seen' = Seen
    BY <2>1 DEF Seen
  <2>3. Alive'
    BY <2>1, <2>2 DEF Alive
  <2>. QED BY <2>2, <2>3, Moves
<1>. QED BY <1>1, <1>2, <1>3, <1>4, <1>5, <1>6, Cases

LEMMA AliveInvariant == Spec => [](TypeOK /\ Alive)
<1>1. Init => Alive
  BY DEF Init, Alive, Seen
<1>2. TypeOK /\ Alive /\ [Execute]_vars => Alive'
  BY AliveStep
<1>. QED BY <1>1, <1>2, TypeCorrect, PTL DEF Spec

\* HO1 implements the work order state machine, whatever the provider, the tools
\* and the budget do and whatever entries cannot be written: nobody who looks at
\* a work order before or after execute() sees a transition that is not one.
THEOREM Implementation == Spec => ImplementsWorkOrder
<1>1. Init => Lifecycle!Create
  BY DEF Init, Lifecycle!Create, Seen
<1>2. TypeOK /\ Alive /\ [Execute]_vars => [Lifecycle!Next]_Seen
  BY AliveStep
<1>. QED BY <1>1, <1>2, AliveInvariant, PTL DEF Spec, ImplementsWorkOrder, Lifecycle!Spec

\* An entry on the way ends nothing.
LEMMA WriteOn ==
  ASSUME TypeOK, NEW kind \in Kinds \ {"WO_COMPLETED", "WO_FAILED"}, NEW next,
         WriteThen(kind, next), faults' = 0
  PROVE  faults = 0 /\ SameEnds /\ pc' = next
<1>1. faults \in Nat
  BY TypedFacts
<1>2. ~Raised(kind)
  BY <1>1 DEF Raised
<1>3. Wrote(kind) /\ pc' = next
  BY <1>2 DEF WriteThen
<1>. QED BY <1>3, EntryFacts DEF Wrote

LEMMA EndsStep ==
  ASSUME TypeOK, Ends, [Execute]_vars
  PROVE  Ends'
<1>0. faults \in Nat
  BY TypedFacts
<1>1. CASE Dispatch \/ Start \/ Prepare \/ RouteSucceeds \/ RouteFails \/ ToolsDone \/ Finish
  <2>1. /\ ledger' = ledger /\ pc \notin {"returned", "raised"}
        /\ pc' \notin {"returned", "raised"}
    BY <1>1 DEF Dispatch, Start, Prepare, RouteSucceeds, RouteFails, ToolsDone, Finish
  <2>. QED BY <2>1, OnwardEnds DEF ledger, SameEnds
<1>2. CASE RouteRaises
  <2>1. faults' # 0
    BY <1>0, <1>2 DEF RouteRaises
  <2>. QED BY <2>1 DEF Ends
<1>3. CASE Check
  <2>1. faults' = 0 => faults = 0 /\ SameEnds /\ pc' \in {"fail", "route"}
    BY <1>3, WriteOn DEF Check, ledger, SameEnds, Kinds
  <2>. QED BY <1>3, <2>1, OnwardEnds DEF Check
<1>4. CASE Account
  <2>1. PICK next \in {"fail", "finish", "tools"} : WriteThen("LLM_CALL", next)
    BY <1>4 DEF Account
  <2>2. faults' = 0 => faults = 0 /\ SameEnds /\ pc' = next
    BY <2>1, WriteOn DEF Kinds
  <2>. QED BY <1>4, <2>2, OnwardEnds DEF Account
<1>5. ASSUME NEW tool \in Tools, RunTool(tool) PROVE Ends'
  <2>1. faults' = 0 => faults = 0 /\ SameEnds /\ pc' = "tools"
    BY <1>5, WriteOn DEF RunTool, Kinds
  <2>. QED BY <1>5, <2>1, OnwardEnds DEF RunTool
<1>6. CASE FollowUp
  <2>1. faults' = 0 => faults = 0 /\ SameEnds /\ pc' \in {"fail", "check"}
    BY <1>6, WriteOn DEF FollowUp, ledger, SameEnds, Kinds
  <2>. QED BY <1>6, <2>1, OnwardEnds DEF FollowUp
<1>7. CASE Complete
  <2>1. faults' = 0 => faults = 0 /\ Wrote("WO_COMPLETED") /\ pc' = "returned"
    BY <1>0, <1>7 DEF Complete, WriteThen, Raised, Wrote
  <2>. QED BY <1>7, <2>1, LastEnds DEF Complete
<1>8. CASE Fail
  <2>1. faults' = 0 => faults = 0 /\ Wrote("WO_FAILED") /\ pc' = "returned"
    BY <1>0, <1>8 DEF Fail, Raised, Wrote
  <2>. QED BY <1>8, <2>1, LastEnds DEF Fail
<1>9. CASE UNCHANGED vars
  BY <1>9 DEF vars, ledger, Ends
<1>. QED BY <1>1, <1>2, <1>3, <1>4, <1>5, <1>6, <1>7, <1>8, <1>9, Cases

\* As long as every entry can be written, HO1m holds exactly one terminal entry
\* of a work order that has been returned.
THEOREM OneEnd == Spec => []OneTerminalEntry
<1>1. Init => Ends
  BY DEF Init, Ends, Kinds
<1>2. TypeOK /\ Ends /\ [Execute]_vars => Ends'
  BY EndsStep
<1>3. Ends => OneTerminalEntry
  BY DEF Ends, OneTerminalEntry
<1>. QED BY <1>1, <1>2, <1>3, TypeCorrect, PTL DEF Spec

-----------------------------------------------------------------------------
(* execute() comes to its end.                                              *)

\* The most steps execute() still takes: the rounds of its loop, each with every
\* tool of the work order at most once.
Count == Cardinality(Tools)
Round == Count + 5
Rounds == (TurnLimit - turn) * Round

StepsLeft ==
  CASE pc \in {"returned", "raised"} -> 0
    [] pc = "failAgain" -> 1
    [] pc = "fail" -> 2
    [] pc = "complete" -> 3
    [] pc = "finish" -> 4
    [] pc = "followUp" -> Rounds - Count + 1
    [] pc = "tools" -> Rounds - Count + 2 + Cardinality(pending)
    [] pc = "account" -> Rounds + 3
    [] pc = "route" -> Rounds + 4
    [] pc = "check" -> Rounds + 5
    [] pc = "prepare" -> Rounds + 6
    [] pc = "start" -> Rounds + 7
    [] pc = "planned" -> Rounds + 8

LeftBounded == StepsLeft \in 0..(TurnLimit * (Count + 5) + 8)
RunsDown == [][StepsLeft' < StepsLeft]_vars

LEMMA ToolsCount ==
  ASSUME NEW tools \in SUBSET Tools
  PROVE  /\ IsFiniteSet(tools) /\ Cardinality(tools) \in Nat
         /\ Count \in Nat /\ Cardinality(tools) <= Count
<1>1. IsFiniteSet(Tools)
  BY ExecutorAssumption
<1>2. IsFiniteSet(tools) /\ Cardinality(tools) <= Cardinality(Tools)
  BY <1>1, FS_Subset
<1>3. Cardinality(tools) \in Nat /\ Cardinality(Tools) \in Nat
  BY <1>1, <1>2, FS_CardinalityType
<1>. QED BY <1>2, <1>3 DEF Count

LEMMA RoundsFacts ==
  ASSUME Typed
  PROVE  /\ Count \in Nat /\ Rounds \in Nat /\ Rounds <= TurnLimit * (Count + 5)
         /\ TurnLimit * (Count + 5) \in Nat
         /\ TurnLeft /\ pc \notin Ended \union {"check"} => Rounds >= Count + 5
<1>1. turn \in Nat /\ TurnLimit \in Nat /\ turn <= TurnLimit /\ Count \in Nat
  BY TypedFacts, ToolsCount DEF Typed
<1>2. \A m, n \in Nat : m * n \in Nat
  BY SMT
<1>3. TurnLimit - turn \in Nat /\ Count + 5 \in Nat
  BY <1>1
<1>4. Rounds \in Nat /\ TurnLimit * (Count + 5) \in Nat
  BY <1>1, <1>2, <1>3 DEF Rounds, Round
<1>5. \A l, n, r \in Nat : l <= n => l * r <= n * r
  BY SMT
<1>6. Rounds <= TurnLimit * (Count + 5)
  BY <1>1, <1>3, <1>5 DEF Rounds, Round
<1>7. \A l, r \in Nat : l >= 1 => l * r >= r
  BY SMT
<1>8. TurnLimit - turn >= 1 => Rounds >= Count + 5
  BY <1>3, <1>7 DEF Rounds, Round
<1>9. TurnLeft /\ pc \notin Ended \union {"check"} => TurnLimit - turn >= 1
  BY <1>1 DEF TurnLeft
<1>. QED BY <1>1, <1>4, <1>6, <1>8, <1>9

LEMMA StepsInRange == Typed => LeftBounded
<1> SUFFICES ASSUME Typed PROVE LeftBounded
  OBVIOUS
<1> DEFINE n == TurnLimit * (Count + 5)
           p == Cardinality(pending)
<1>1. /\ Count \in Nat /\ Rounds \in Nat /\ Rounds <= n /\ n \in Nat
      /\ pc \notin Ended \union {"check"} => Rounds >= Count + 5
  BY RoundsFacts DEF Typed
<1>2. p \in Nat /\ p <= Count
  BY ToolsCount DEF Typed, TypeOK
<1>3. \/ StepsLeft \in {0, 1, 2, Rounds + 5}
      \/ /\ Rounds >= Count + 5
         /\ StepsLeft \in {3, 4, Rounds - Count + 1, Rounds - Count + 2 + p, Rounds + 3, Rounds + 4,
                           Rounds + 6, Rounds + 7, Rounds + 8}
  BY <1>1 DEF StepsLeft, Typed, TypeOK, Ended
<1>4. LeftBounded <=> StepsLeft \in 0..(n + 8)
  BY DEF LeftBounded
<1> HIDE DEF n, p
<1>. QED BY <1>1, <1>2, <1>3, <1>4

\* Within a round, and out of it.
LEMMA InRound ==
  ASSUME Typed, turn' = turn,
         \/ pc = "planned" /\ pc' = "start"
         \/ pc = "start" /\ pc' = "prepare"
         \/ pc = "prepare" /\ pc' \in {"check", "fail", "failAgain"}
         \/ pc = "check" /\ pc' \in {"route", "fail", "failAgain"}
         \/ pc = "route" /\ pc' \in {"account", "fail"}
         \/ pc = "account" /\ pc' \in {"finish", "fail", "failAgain"}
         \/ pc = "tools" /\ pc' \in {"followUp", "complete", "failAgain"}
         \/ pc = "followUp" /\ pc' \in {"fail", "failAgain"}
         \/ pc = "finish" /\ pc' \in {"complete", "fail", "failAgain"}
         \/ pc = "complete" /\ pc' \in {"returned", "failAgain"}
         \/ pc = "fail" /\ pc' \in {"returned", "failAgain"}
         \/ pc = "failAgain" /\ pc' \in {"returned", "raised"}
  PROVE  StepsLeft' < StepsLeft
<1> DEFINE p == Cardinality(pending)
<1>1. /\ Count \in Nat /\ Rounds \in Nat
      /\ pc \notin Ended \union {"check"} => Rounds >= Count + 5
  BY RoundsFacts DEF Typed
<1>2. p \in Nat
  BY ToolsCount DEF Typed, TypeOK
<1>3. Rounds' = Rounds
  BY DEF Rounds
<1>4. /\ pc = "planned" => StepsLeft = Rounds + 8
      /\ pc = "start" => StepsLeft = Rounds + 7
      /\ pc = "prepare" => StepsLeft = Rounds + 6
      /\ pc = "check" => StepsLeft = Rounds + 5
      /\ pc = "route" => StepsLeft = Rounds + 4
      /\ pc = "account" => StepsLeft = Rounds + 3
      /\ pc = "tools" => StepsLeft = Rounds - Count + 2 + p
      /\ pc = "followUp" => StepsLeft = Rounds - Count + 1
      /\ pc = "finish" => StepsLeft = 4
      /\ pc = "complete" => StepsLeft = 3
      /\ pc = "fail" => StepsLeft = 2
      /\ pc = "failAgain" => StepsLeft = 1
  BY DEF StepsLeft
<1>5. /\ pc' = "start" => StepsLeft' = Rounds + 7
      /\ pc' = "prepare" => StepsLeft' = Rounds + 6
      /\ pc' = "check" => StepsLeft' = Rounds + 5
      /\ pc' = "route" => StepsLeft' = Rounds + 4
      /\ pc' = "account" => StepsLeft' = Rounds + 3
      /\ pc' = "followUp" => StepsLeft' = Rounds - Count + 1
      /\ pc' = "finish" => StepsLeft' = 4
      /\ pc' = "complete" => StepsLeft' = 3
      /\ pc' = "fail" => StepsLeft' = 2
      /\ pc' = "failAgain" => StepsLeft' = 1
      /\ pc' \in {"returned", "raised"} => StepsLeft' = 0
  BY <1>3 DEF StepsLeft, Count
<1> HIDE DEF p
<1>. QED BY <1>1, <1>2, <1>4, <1>5 DEF Ended

\* To the tools of a response, or of a tool_call.
LEMMA ToTools ==
  ASSUME Typed, Typed', turn' = turn, pc \in {"start", "account"}, pc' = "tools"
  PROVE  StepsLeft' < StepsLeft
<1> DEFINE q == Cardinality(pending')
<1>1. Count \in Nat /\ Rounds \in Nat
  BY RoundsFacts
<1>2. pending' \in SUBSET Tools
  BY DEF Typed, TypeOK
<1>3. q \in Nat /\ q <= Count
  BY <1>2, ToolsCount
<1>4. StepsLeft \in {Rounds + 3, Rounds + 7} /\ StepsLeft' = Rounds - Count + 2 + q
  BY DEF StepsLeft, Rounds, Round, Count
<1> HIDE DEF q
<1>. QED BY <1>1, <1>3, <1>4

LEMMA ToolRuns ==
  ASSUME Typed, Typed', NEW tool \in Tools, RunTool(tool)
  PROVE  StepsLeft' < StepsLeft
<1>1. /\ pc = "tools" /\ tool \in pending /\ pending' = pending \ {tool} /\ turn' = turn
      /\ pc' \in {"tools", "failAgain"}
  BY WriteThenFacts DEF RunTool, WriteThen
<1>2. CASE pc' = "failAgain"
  BY <1>1, <1>2, InRound
<1>3. CASE pc' = "tools"
  <2> DEFINE p == Cardinality(pending)
  <2>1. IsFiniteSet(pending) /\ p \in Nat /\ Count \in Nat /\ Rounds \in Nat
    BY ToolsCount, RoundsFacts DEF Typed, TypeOK
  <2>2. Cardinality(pending') = p - 1
    BY <1>1, <2>1, FS_RemoveElement
  <2>3. StepsLeft = Rounds - Count + 2 + p
    BY <1>1 DEF StepsLeft
  <2>4. StepsLeft' = Rounds - Count + 2 + Cardinality(pending')
    BY <1>1, <1>3 DEF StepsLeft, Rounds, Round, Count
  <2> HIDE DEF p
  <2>. QED BY <2>1, <2>2, <2>3, <2>4
<1>. QED BY <1>1, <1>2, <1>3

\* The next round has one round less before it.
LEMMA NextRound ==
  ASSUME Typed, pc = "followUp", pc' = "check", turn' = turn + 1
  PROVE  StepsLeft' < StepsLeft
<1>1. turn \in Nat /\ TurnLimit \in Nat /\ Count \in Nat /\ Rounds \in Nat
  BY TypedFacts, RoundsFacts DEF Typed
<1>2. \A l, t, r \in Nat : (l - (t + 1)) * r = (l - t) * r - r
  BY SMT
<1>3. Rounds' = (TurnLimit - (turn + 1)) * Round /\ Round \in Nat /\ Round = Count + 5
  BY <1>1 DEF Rounds, Round, Count
<1>4. Rounds' = Rounds - (Count + 5)
  BY <1>1, <1>2, <1>3 DEF Rounds
<1>5. StepsLeft = Rounds - Count + 1
  BY DEF StepsLeft
<1>6. StepsLeft' = Rounds' + 5
  BY DEF StepsLeft
<1>. QED BY <1>1, <1>4, <1>5, <1>6

LEMMA ExecuteRunsDown ==
  ASSUME Typed, Typed', Execute
  PROVE  StepsLeft' < StepsLeft
<1>1. CASE Dispatch
  BY <1>1, InRound DEF Dispatch
<1>2. CASE Start
  BY <1>2, InRound, ToTools DEF Start
<1>3. CASE Prepare
  BY <1>3, InRound DEF Prepare
<1>4. CASE Check
  <2>1. pc = "check" /\ turn' = turn /\ pc' \in {"route", "fail", "failAgain"}
    BY <1>4 DEF Check, WriteThen
  <2>. QED BY <2>1, InRound
<1>5. CASE RouteSucceeds
  BY <1>5, InRound DEF RouteSucceeds
<1>6. CASE RouteFails
  BY <1>6, InRound DEF RouteFails
<1>7. CASE RouteRaises
  BY <1>7, InRound DEF RouteRaises
<1>8. CASE Account
  <2>1. pc = "account" /\ turn' = turn /\ pc' \in {"finish", "fail", "failAgain", "tools"}
    BY <1>8 DEF Account, WriteThen
  <2>. QED BY <2>1, InRound, ToTools
<1>9. ASSUME NEW tool \in Tools, RunTool(tool)
      PROVE  StepsLeft' < StepsLeft
  BY <1>9, ToolRuns
<1>10. CASE ToolsDone
  BY <1>10, InRound DEF ToolsDone
<1>11. CASE FollowUp
  <2>1. pc = "followUp" /\ pc' \in {"check", "fail", "failAgain"}
    BY <1>11 DEF FollowUp, WriteThen
  <2>2. IF pc' = "check" THEN turn' = turn + 1 ELSE turn' = turn
    BY <1>11 DEF FollowUp, NextTurn
  <2>. QED BY <2>1, <2>2, InRound, NextRound
<1>12. CASE Finish
  BY <1>12, InRound DEF Finish
<1>13. CASE Complete
  <2>1. pc = "complete" /\ turn' = turn /\ pc' \in {"returned", "failAgain"}
    BY <1>13 DEF Complete, WriteThen
  <2>. QED BY <2>1, InRound
<1>14. CASE Fail
  <2>1. /\ turn' = turn
        /\ \/ pc = "fail" /\ pc' \in {"returned", "failAgain"}
           \/ pc = "failAgain" /\ pc' \in {"returned", "raised"}
    BY <1>14 DEF Fail
  <2>. QED BY <2>1, InRound
<1>. QED BY <1>1, <1>2, <1>3, <1>4, <1>5, <1>6, <1>7, <1>8, <1>9, <1>10, <1>11, <1>12, <1>13, <1>14
  DEF Execute

\* execute() takes a bounded number of steps, for every number of tools and every
\* limit, whatever the model asks for and whichever entries are refused.
THEOREM OrdersRunDown == Spec => []LeftBounded /\ RunsDown
<1>1. Typed /\ Typed' /\ [Execute]_vars => [StepsLeft' < StepsLeft]_vars
  BY ExecuteRunsDown
<1>. QED BY <1>1, TypedInvariant, StepsInRange, PTL DEF Spec, RunsDown
=============================================================================
