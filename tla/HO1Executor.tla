------------------------------ MODULE HO1Executor ------------------------------
(***************************************************************************)
(* HO1 executes one work order: HO1Executor.execute() with its tool loop,  *)
(* its budget checks and its entries in HO1m, between the gateway, the     *)
(* token budgeter and the tools.                                           *)
(* PKG-HO1-EXECUTOR-001/HO1/kernel/ho1_executor.py.                        *)
(*                                                                         *)
(* Work orders have identities and budget scopes of their own, so one of   *)
(* them is enough.  Every ledger write may raise, and may then have left   *)
(* its entry or not.  The gateway is seen through what route() does to the *)
(* caller: it answers, answers with an error, or raises; LLMGateway has    *)
(* the rest.                                                               *)
(***************************************************************************)
EXTENDS Integers, FiniteSets

CONSTANTS
  Tools,        \* what the model may ask for
  TokenBudget,  \* constraints.token_budget
  TurnLimit,    \* constraints.turn_limit
  FollowupMin,  \* constraints.followup_min_remaining
  ContractMax,  \* boundary.max_tokens of the prompt contract
  MaxInput,     \* bound: tokens of a prompt
  Modes,        \* budget_mode of the configurations tried
  RateLimited,  \* the budgeter has a rate limit, and denies by the clock too
  MaxFaults     \* bound: ledger writes that raise

ASSUME ExecutorAssumption ==
  /\ IsFiniteSet(Tools)
  /\ TokenBudget \in Nat \ {0}
  /\ TurnLimit \in Nat \ {0}
  /\ FollowupMin \in Nat
  /\ ContractMax \in Nat
  /\ MaxInput \in Nat
  /\ Modes \subseteq {"enforce", "warn", "off"}
  /\ RateLimited \in BOOLEAN
  /\ MaxFaults \in Nat

VARIABLES
  order,    \* what execute() reads of the work order, and the budget_mode
  state,    \* wo["state"]
  pc,       \* what execute() does next
  turn,     \* index of the tool loop
  left,     \* wo["constraints"]["token_budget"], written back by the loop
  cost,     \* wo["cost"]
  got,      \* tokens of the last response; ok: it was a success
  pending,  \* tools of the last response still to run
  used,     \* tools that have run
  log,      \* entries in HO1m, by kind
  last,     \* kind of the last entry
  charged,  \* tokens debited from the scope of the work order
  debits,   \* debits of that scope
  faults    \* ledger writes that have raised

budget == <<charged, debits>>
ledger == <<log, last, faults>>
vars == <<order, state, pc, turn, left, cost, got, pending, used, budget, ledger>>

Kinds == {"LLM_CALL", "TOOL_CALL", "BUDGET_WARNING", "WO_COMPLETED", "WO_FAILED"}

Least(a, b) == IF a <= b THEN a ELSE b
AtLeastZero(n) == IF n < 0 THEN 0 ELSE n

MaxTokens == Least(ContractMax, left)

-----------------------------------------------------------------------------
(* The token budgeter, for a scope without budgets above it (admin/main.py *)
(* allocates no others): TokenBudgeter.check() and debit().                 *)

Remaining == AtLeastZero(TokenBudget - charged)

Denies(requested) ==
  debits >= TurnLimit \/ (requested > 0 /\ requested > Remaining)

-----------------------------------------------------------------------------
(* Ledger writes                                                            *)

\* self._log_event(kind) returns...
Wrote(kind) ==
  /\ log' = [log EXCEPT ![kind] = @ + 1]
  /\ last' = kind
  /\ faults' = faults

\* ... or raises, its entry being there or not.
Raised(kind) ==
  /\ faults < MaxFaults
  /\ faults' = faults + 1
  /\ \/ log' = [log EXCEPT ![kind] = @ + 1] /\ last' = kind
     \/ UNCHANGED <<log, last>>

\* An entry on the way: a write that raises goes to the except clause around
\* the whole of execute().
WriteThen(kind, next) == (Wrote(kind) /\ pc' = next) \/ (Raised(kind) /\ pc' = "failAgain")

-----------------------------------------------------------------------------
(* execute()                                                                *)

NoCost == [total |-> 0, llmCalls |-> 0, toolCalls |-> 0]

Init ==
  /\ order \in [type : {"llm", "tool_call"}, tools : SUBSET Tools, mode : Modes]
  /\ state = "planned"
  /\ pc = "planned"
  /\ turn = 0
  /\ left = TokenBudget
  /\ cost = NoCost
  /\ got = [tokens |-> 0, ok |-> FALSE]
  /\ pending = {}
  /\ used = {}
  /\ log = [k \in Kinds |-> 0]
  /\ last = "none"
  /\ charged = 0
  /\ debits = 0
  /\ faults = 0

\* HO2's _dispatch_wo()
Dispatch ==
  /\ pc = "planned"
  /\ state' = "dispatched"
  /\ pc' = "start"
  /\ UNCHANGED <<order, turn, left, cost, got, pending, used, budget, ledger>>

\* Bug: the work order is not marked as executing.
Start_Unmarked ==
  /\ pc = "start"
  /\ pc' = IF order.type = "tool_call" THEN "tools" ELSE "prepare"
  /\ pending' = IF order.type = "tool_call" THEN order.tools ELSE {}
  /\ UNCHANGED <<order, state, turn, left, cost, got, used, budget, ledger>>

\* Steps 1 and 2: a tool_call runs all its tools without the model.
Start ==
  /\ pc = "start"
  /\ state' = "executing"
  /\ pc' = IF order.type = "tool_call" THEN "tools" ELSE "prepare"
  /\ pending' = IF order.type = "tool_call" THEN order.tools ELSE {}
  /\ UNCHANGED <<order, turn, left, cost, got, used, budget, ledger>>

\* Steps 3 to 6: contract and input are good or not; rendering the prompt or
\* allocating the budget, whose entry goes to the governance ledger, may raise.
Prepare ==
  /\ pc = "prepare"
  /\ pc' \in {"check", "fail", "failAgain"}
  /\ UNCHANGED <<order, state, turn, left, cost, got, pending, used, budget, ledger>>

\* HO1's own check of the budget asks for all that is left of it.
Denied(limited) == order.mode # "off" /\ (limited \/ Denies(TokenBudget - cost.total))

\* The head of the loop: its limit, then the budget check.
Check ==
  /\ pc = "check"
  /\ \/ turn >= TurnLimit /\ pc' = "fail" /\ UNCHANGED ledger
     \/ /\ turn < TurnLimit
        /\ \E limited \in {FALSE, RateLimited} :
             \/ ~Denied(limited) /\ pc' = "route" /\ UNCHANGED ledger
             \/ Denied(limited) /\ order.mode = "enforce" /\ pc' = "fail" /\ UNCHANGED ledger
             \/ Denied(limited) /\ order.mode = "warn" /\ WriteThen("BUDGET_WARNING", "route")
  /\ UNCHANGED <<order, state, turn, left, cost, got, pending, used, budget>>

\* The provider answers within max_tokens and the gateway has debited the scope.
RouteSucceeds ==
  /\ pc = "route"
  /\ order.mode = "enforce" => ~Denies(MaxTokens)
  /\ \E in \in 0..MaxInput, out \in 0..MaxTokens :
       /\ got' = [tokens |-> in + out, ok |-> TRUE]
       /\ charged' = charged + in + out
  /\ debits' = debits + 1
  /\ pc' = "account"
  /\ UNCHANGED <<order, state, turn, left, cost, pending, used, ledger>>

\* The gateway answers with a rejection or an error, and without tokens.
RouteFails ==
  /\ pc = "route"
  /\ got' = [tokens |-> 0, ok |-> FALSE]
  /\ pc' = "account"
  /\ UNCHANGED <<order, state, turn, left, cost, pending, used, budget, ledger>>

\* The gateway raises, because one of its own entries could not be written:
\* before it charges the budget or after.
RouteRaises ==
  /\ pc = "route"
  /\ faults < MaxFaults
  /\ faults' = faults + 1
  /\ \/ UNCHANGED budget
     \/ \E tokens \in 0..(MaxInput + MaxTokens) :
          charged' = charged + tokens /\ debits' = debits + 1
  /\ pc' = "fail"
  /\ UNCHANGED <<order, state, turn, left, cost, got, pending, used, log, last>>

\* Bug: only the last response counts.
Accounted_Last == [cost EXCEPT !.total = got.tokens, !.llmCalls = @ + 1]

Accounted == [cost EXCEPT !.total = @ + got.tokens, !.llmCalls = @ + 1]

\* _extract_tool_uses(): a response may ask for any tools.
ToolUses == SUBSET Tools

\* The tools of a response that the work order allows.
Permitted(uses) == uses \intersect order.tools

\* Cost, LLM_CALL entry, outcome, and the tools the response asks for.
Account ==
  /\ pc = "account"
  /\ cost' = Accounted
  /\ \E uses \in ToolUses :
       LET next == IF ~got.ok THEN "fail"
                   ELSE IF Permitted(uses) = {} THEN "finish" ELSE "tools"
       IN  /\ WriteThen("LLM_CALL", next)
           /\ pending' = IF pc' = "tools" THEN Permitted(uses) ELSE {}
  /\ UNCHANGED <<order, state, turn, left, got, used, budget>>

\* Bug: only failures of tools are logged.
RunTool_Unlogged(tool) ==
  /\ pc = "tools"
  /\ tool \in pending
  /\ used' = used \union {tool}
  /\ pending' = pending \ {tool}
  /\ cost' = [cost EXCEPT !.toolCalls = @ + 1]
  /\ UNCHANGED <<pc, order, state, turn, left, got, budget, ledger>>

\* One tool of the response, and its TOOL_CALL entry.  The dispatcher turns
\* every error of a tool into a result.
RunTool(tool) ==
  /\ pc = "tools"
  /\ tool \in pending
  /\ used' = used \union {tool}
  /\ pending' = pending \ {tool}
  /\ cost' = [cost EXCEPT !.toolCalls = @ + 1]
  /\ WriteThen("TOOL_CALL", "tools")
  /\ UNCHANGED <<order, state, turn, left, got, budget>>

\* All tools have run: on to the follow-up call, or to the end of a tool_call.
ToolsDone ==
  /\ pc = "tools"
  /\ pending = {}
  /\ pc' = IF order.type = "tool_call" THEN "complete" ELSE "followUp"
  /\ UNCHANGED <<order, state, turn, left, cost, got, pending, used, budget, ledger>>

\* Bug: a follow-up call is always made.
TooLittle_Never == FALSE

TooLittle == TokenBudget - cost.total < FollowupMin

\* Bug: the rest of the budget is not cut off at zero.
Reconciled_Negative == TokenBudget - cost.total

Reconciled == AtLeastZero(TokenBudget - cost.total)

NextTurn == turn + 1

\* The rest of the budget decides about a follow-up call and bounds it.
FollowUp ==
  /\ pc = "followUp"
  /\ \/ TooLittle /\ order.mode = "enforce" /\ pc' = "fail" /\ UNCHANGED ledger
     \/ TooLittle /\ order.mode = "warn" /\ WriteThen("BUDGET_WARNING", "check")
     \/ (TooLittle => order.mode = "off") /\ pc' = "check" /\ UNCHANGED ledger
  /\ IF pc' = "check" THEN left' = Reconciled /\ turn' = NextTurn ELSE UNCHANGED <<left, turn>>
  /\ UNCHANGED <<order, state, cost, got, pending, used, budget>>

\* Step 7: the output is validated unless the work order has tools; output that
\* is JSON but no object makes the validation itself raise.
Finish ==
  /\ pc = "finish"
  /\ \/ pc' = "complete"
     \/ order.tools = {} /\ pc' \in {"fail", "failAgain"}
  /\ UNCHANGED <<order, state, turn, left, cost, got, pending, used, budget, ledger>>

\* Bug: the entry is written only after the work order has been handed back.
Complete_Late ==
  /\ pc = "complete"
  /\ state' = "completed"
  /\ pc' = "returned"
  /\ UNCHANGED <<order, turn, left, cost, got, pending, used, budget, ledger>>

\* Step 9
Complete ==
  /\ pc = "complete"
  /\ state' = "completed"
  /\ WriteThen("WO_COMPLETED", "returned")
  /\ UNCHANGED <<order, turn, left, cost, got, pending, used, budget>>

\* _fail_wo() inside the try block, and once more in the except clause, where
\* an entry that cannot be written raises out of execute().
Fail ==
  /\ pc \in {"fail", "failAgain"}
  /\ state' = "failed"
  /\ \/ Wrote("WO_FAILED") /\ pc' = "returned"
     \/ Raised("WO_FAILED") /\ pc' = IF pc = "fail" THEN "failAgain" ELSE "raised"
  /\ UNCHANGED <<order, turn, left, cost, got, pending, used, budget>>

Execute ==
  \/ Dispatch \/ Start \/ Prepare \/ Check
  \/ RouteSucceeds \/ RouteFails \/ RouteRaises \/ Account
  \/ \E tool \in Tools : RunTool(tool)
  \/ ToolsDone \/ FollowUp \/ Finish \/ Complete \/ Fail

Spec == Init /\ [][Execute]_vars

-----------------------------------------------------------------------------
(* Properties                                                               *)

\* Types: the loop stays within the turn limit, the budget that is written back
\* between zero and what was granted.
TypeOK ==
  /\ order \in [type : {"llm", "tool_call"}, tools : SUBSET Tools, mode : Modes]
  /\ state \in {"planned", "dispatched", "executing", "completed", "failed"}
  /\ pc \in {"planned", "start", "prepare", "check", "route", "account", "tools", "followUp",
             "finish", "complete", "fail", "failAgain", "returned", "raised"}
  /\ turn \in 0..TurnLimit
  /\ left \in 0..TokenBudget
  /\ cost \in [total : Nat, llmCalls : Nat, toolCalls : Nat]
  /\ got \in [tokens : Nat, ok : BOOLEAN]
  /\ pending \subseteq Tools
  /\ used \subseteq Tools
  /\ log \in [Kinds -> Nat]
  /\ last \in Kinds \union {"none"}
  /\ charged \in Nat /\ debits \in Nat
  /\ faults \in 0..MaxFaults

\* The state in which others find the work order: until execute() returns, a
\* WO_COMPLETED entry that cannot be written takes the completion back.
Seen == IF pc = "failAgain" /\ state = "completed" THEN "executing" ELSE state

\* The work order lives as WorkOrderStateMachine prescribes, although execute()
\* sets the state without asking it, and whatever entries cannot be written.
Lifecycle == INSTANCE WorkOrder WITH state <- Seen

ImplementsWorkOrder == Lifecycle!Spec

\* "Terminal states (completed, failed) never regress", of the field itself.
TerminalStays == [][(state \in Lifecycle!TerminalStates) => (state' = state)]_state

\* Whenever execute() returns, the last entry of the work order in HO1m tells of
\* the state it returns, however many entries before it were refused.
ResultLogged ==
  pc = "returned" =>
    \/ state = "completed" /\ last = "WO_COMPLETED"
    \/ state = "failed" /\ last = "WO_FAILED"

\* "Every WO_EXECUTING MUST resolve to exactly one WO_COMPLETED or WO_FAILED": as
\* long as no entry is refused.
OneTerminalEntry ==
  pc = "returned" /\ faults = 0 => log["WO_COMPLETED"] + log["WO_FAILED"] = 1

\* "HO1 MUST NOT invoke tools not listed in constraints.tools_allowed": whatever
\* the model asks for.
ToolsAllowed == used \subseteq order.tools

\* The model is never called again before the tools it asked for are in HO1m:
\* the trace a later reader replays has no gap.
ToolsTraced == pc \in {"check", "route", "finish", "complete"} => cost.toolCalls = log["TOOL_CALL"]

\* The two accounts of one work order agree: what HO1 adds up in its cost is what
\* the gateway has debited, unless the gateway raised after the debit.
CostIsCharged ==
  charged = cost.total + (IF pc = "account" THEN got.tokens ELSE 0) \/ faults > 0

\* "HO1 MUST NOT exceed constraints.turn_limit": in calls of the gateway.
TurnsBounded == cost.llmCalls <= TurnLimit

\* When budgets are enforced a work order overspends by at most one prompt.
OverspendBounded == order.mode = "enforce" => charged <= TokenBudget + MaxInput
=============================================================================
