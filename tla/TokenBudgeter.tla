---------------------------- MODULE TokenBudgeter ----------------------------
(***************************************************************************)
(* Token budgets of the scopes session, session/work order and             *)
(* session/work order/agent, as the gateway and HO1 use them: a check      *)
(* before a call to the provider, a debit of what the call has used, and a *)
(* cold start that rebuilds the budgets from the ledger.                   *)
(* PKG-TOKEN-BUDGETER-001/HOT/kernel/token_budgeter.py.                    *)
(*                                                                         *)
(* The budgeter does not enforce anything itself: the gateway decides, by  *)
(* its budget mode, whether a call goes on after a check that did not      *)
(* pass, and it debits every call that has succeeded.                      *)
(*                                                                         *)
(* The ledger client keeps the lines of a write that has raised: they land *)
(* with the next write, of the budgeter or of the gateway, and those that  *)
(* had landed before the raise land again.                                 *)
(*                                                                         *)
(* The host runs one thread: between a check and its debit lies the call   *)
(* to the provider and nothing else of the budgeter, but time passes and   *)
(* the process may be replaced.                                            *)
(***************************************************************************)
EXTENDS Integers, Sequences, FiniteSets

CONSTANTS
  Modes,        \* budget modes of the gateway tried: "enforce", "warn", "off"
  Keys,         \* scope keys, sequences of 1 to 3 names; "a/b" is <<a, b>>
  Limits,       \* token_limit of the allocations tried
  TurnLimits,   \* turn_limit of the allocations tried
  NoTurnLimit,  \* turn_limit = None
  Requests,     \* requested_tokens of the checks tried
  Extra,        \* tokens a call may use beyond those requested (its input)
  Burst,        \* int(requests_per_minute * burst_allowance); 0: no rate limit
  Window,       \* window_seconds
  MaxDebits,    \* bound: debits
  MaxNow,       \* bound: seconds that pass
  MaxErrors     \* bound: ledger writes that raise

ASSUME BudgetAssumption ==
  /\ Modes \subseteq {"enforce", "warn", "off"}
  /\ Keys \subseteq Seq(STRING)
  /\ \A key \in Keys : Len(key) \in 1..3
  /\ Limits \subseteq Nat
  /\ TurnLimits \subseteq Nat \union {NoTurnLimit}
  /\ NoTurnLimit \notin Nat
  /\ Requests \subseteq Nat
  /\ Extra \in Nat
  /\ Burst \in Nat
  /\ Window \in Nat \ {0}
  /\ MaxDebits \in Nat
  /\ MaxNow \in Nat
  /\ MaxErrors \in Nat

VARIABLES
  scopes,   \* _scopes: allocated key -> its budget
  stamps,   \* key -> request_timestamps, each with the number of its debit
  limited,  \* the budgeter has a rate_limit_config
  disk,     \* what from_ledger() would rebuild from the lines that have landed
  kept,     \* the lines of the ledger client's buffer that say something of budgets,
            \* each with what memory held before its call
  flushing, \* the client is writing its buffer
  landed,   \* lines of the buffer that have landed in this flush
  mode,     \* the gateway's budget mode
  pending,  \* the request whose call is under way, and whether its check passed
  debits,   \* debits so far
  now,      \* the clock, in seconds
  errors,   \* ledger writes that have raised
  twice,    \* a flush has raised after a line had landed: that line lands again
  waived    \* scopes charged by a call that no check had let pass

memory == <<scopes, stamps, limited>>
client == <<disk, kept, flushing, landed, errors, twice>>
vars == <<memory, client, mode, pending, debits, now, waived>>

Budget == [limit : Nat, turns : Nat \union {NoTurnLimit}, used : Nat, count : Nat]

NoRequest == [key |-> <<>>, tokens |-> 0, granted |-> FALSE]

\* The keys of the scopes around a scope.
Above(key) == {SubSeq(key, 1, i) : i \in 1..(Len(key) - 1)}

Longest(S) == CHOOSE key \in S : \A other \in S : Len(other) <= Len(key)

\* _resolve_scope(): the scope itself or the nearest allocated one around it.
Candidates(key) == ({key} \union Above(key)) \intersect DOMAIN scopes

Resolved(key) == Longest(Candidates(key))

Remaining(budget) == IF budget.used < budget.limit THEN budget.limit - budget.used ELSE 0

\* A fresh _ScopeState takes the place of whatever the key had.
Allocated(budgets, key, limit, turns) ==
  [k \in DOMAIN budgets \union {key} |->
     IF k = key THEN [limit |-> limit, turns |-> turns, used |-> 0, count |-> 0]
     ELSE budgets[k]]

\* One more request of this usage in each of the scopes charged.
Charge(budgets, charged, usage) ==
  [k \in DOMAIN budgets |->
     IF k \in charged
       THEN [budgets[k] EXCEPT !.used = @ + usage, !.count = @ + 1]
       ELSE budgets[k]]

-----------------------------------------------------------------------------
(* check()                                                                  *)

\* The timestamps _check_rate_limit() keeps.
Recent(key) == {stamp \in stamps[key] : stamp.time > now - Window}

\* The rate is looked at only when the scope itself is allocated.
RateApplies(key) == limited /\ Burst > 0 /\ key \in DOMAIN scopes

\* Bug: one request too many.
RateDenied_OffByOne(key) == RateApplies(key) /\ Cardinality(Recent(key)) > Burst

RateDenied(key) == RateApplies(key) /\ Cardinality(Recent(key)) >= Burst

TurnDenied(key) ==
  LET budget == scopes[Resolved(key)]
  IN  budget.turns # NoTurnLimit /\ budget.count >= budget.turns

Exceeds(tokens, budget) == tokens > 0 /\ tokens > Remaining(budget)

\* Bug: the parents are not looked at.
HierarchyDenied_NoWalk(key, tokens) == FALSE

\* _check_hierarchy(): every allocated scope around the one asked for.
HierarchyDenied(key, tokens) ==
  \E k \in Above(key) \intersect DOMAIN scopes : Exceeds(tokens, scopes[k])

Allowed(key, tokens) ==
  /\ Candidates(key) # {}
  /\ ~RateDenied(key)
  /\ ~TurnDenied(key)
  /\ ~Exceeds(tokens, scopes[Resolved(key)])
  /\ ~HierarchyDenied(key, tokens)

-----------------------------------------------------------------------------
(* debit()                                                                  *)

\* The allocated scopes around the resolved one.
Parents(key) == Above(Resolved(key)) \intersect DOMAIN scopes

\* The scopes charged in memory: the resolved one and all those around it.
Charged(key) == {Resolved(key)} \union Parents(key)

\* Bug: the parent is not written into the entry.
Recorded_NoParent(key) == {Resolved(key)}

\* The scopes named in the BUDGET_DEBIT entry: the resolved one and its nearest
\* parent.
Recorded(key) ==
  {Resolved(key)} \union (IF Parents(key) = {} THEN {} ELSE {Longest(Parents(key))})

-----------------------------------------------------------------------------
(* The client of the ledger.                                                *)

\* What from_ledger() makes of one more line.  It sorts the lines by the time of their
\* calls, which is the order of the file as long as no line is there twice.
Replayed(line, budgets) ==
  IF line.event = "BUDGET_ALLOCATE" THEN Allocated(budgets, line.key, line.limit, line.turns)
  ELSE Charge(budgets, line.charged, line.usage)

\* write(): the line joins the buffer and the flush of it all begins.
Write(line) ==
  /\ kept' = Append(kept, line)
  /\ flushing' = TRUE
  /\ UNCHANGED <<disk, landed, errors, twice>>

\* A write of the gateway, whose own entry says nothing of budgets, flushes too.
OtherWrite ==
  /\ flushing' = (kept # <<>>)
  /\ UNCHANGED <<disk, kept, landed, errors, twice>>

\* The client is done with a flush, well or not.
FlushEnds ==
  /\ flushing' = FALSE
  /\ landed' = 0

\* flush(): the next line of the buffer lands; after the last one the buffer is
\* cleared.
Land ==
  /\ flushing
  /\ disk' = Replayed(kept[landed + 1], disk)
  /\ IF landed + 1 < Len(kept)
       THEN landed' = landed + 1 /\ UNCHANGED <<kept, flushing>>
       ELSE kept' = <<>> /\ FlushEnds
  /\ UNCHANGED <<memory, errors, twice, mode, pending, debits, now, waived>>

\* Opening, writing or closing the file has raised, and one more line has landed or
\* not: the buffer stays as it is, and the call that wrote ends.
Raised(one) ==
  /\ flushing /\ errors < MaxErrors
  /\ errors' = errors + 1
  /\ disk' = IF one THEN Replayed(kept[landed + 1], disk) ELSE disk
  /\ twice' = (twice \/ one \/ landed > 0)
  /\ FlushEnds
  /\ pending' = NoRequest
  /\ UNCHANGED <<memory, kept, mode, debits, now, waived>>

\* A call of the gateway that does not touch the budgets writes to the same ledger.
Flush ==
  /\ ~flushing /\ kept # <<>>
  /\ OtherWrite
  /\ UNCHANGED <<memory, mode, pending, debits, now, waived>>

-----------------------------------------------------------------------------
(* The calls of TokenBudgeter.                                              *)

Empty == [k \in {} |-> NoRequest]

Init ==
  /\ scopes = Empty
  /\ stamps = [k \in Keys |-> {}]
  /\ limited = (Burst > 0)
  /\ disk = Empty
  /\ kept = <<>>
  /\ flushing = FALSE
  /\ landed = 0
  /\ mode \in Modes
  /\ pending = NoRequest
  /\ debits = 0
  /\ now = 0
  /\ errors = 0
  /\ twice = FALSE
  /\ waived = {}

\* allocate(): memory first, then the BUDGET_ALLOCATE entry.
Allocate(key, limit, turns) ==
  /\ ~flushing /\ pending = NoRequest
  /\ scopes' = Allocated(scopes, key, limit, turns)
  /\ stamps' = [stamps EXCEPT ![key] = {}]
  /\ Write([event |-> "BUDGET_ALLOCATE", key |-> key, limit |-> limit, turns |-> turns,
            before |-> scopes])
  /\ UNCHANGED <<limited, mode, pending, debits, now, waived>>

\* A check of the gateway has this outcome, and the call goes on unless the mode is
\* "enforce" and the check did not pass.
Goes(key, tokens, granted) ==
  pending' = IF granted \/ mode # "enforce"
               THEN [key |-> key, tokens |-> tokens, granted |-> granted]
               ELSE NoRequest

\* check(): nothing but the timestamps that have left the window changes.  In mode
\* "warn" the gateway writes a BUDGET_WARNING for a check that did not pass.
Check(key, tokens) ==
  /\ ~flushing /\ pending = NoRequest /\ mode # "off"
  /\ stamps' = IF RateApplies(key) THEN [stamps EXCEPT ![key] = Recent(key)] ELSE stamps
  /\ Goes(key, tokens, Allowed(key, tokens))
  /\ IF mode = "warn" /\ ~Allowed(key, tokens) THEN OtherWrite ELSE UNCHANGED client
  /\ UNCHANGED <<scopes, limited, mode, debits, now, waived>>

\* In mode "off" a call goes on without a check.
Unchecked(key, tokens) ==
  /\ ~flushing /\ pending = NoRequest /\ mode = "off"
  /\ Goes(key, tokens, FALSE)
  /\ UNCHANGED <<memory, client, mode, debits, now, waived>>

\* debit(): memory first, then the BUDGET_DEBIT entry.
Debit(usage) ==
  LET key == pending.key
  IN  /\ ~flushing /\ pending # NoRequest /\ Candidates(key) # {}
      /\ debits < MaxDebits
      /\ debits' = debits + 1
      /\ scopes' = Charge(scopes, Charged(key), usage)
      /\ stamps' = [k \in Keys |-> IF k \in Charged(key)
                                     THEN stamps[k] \union {[number |-> debits, time |-> now]}
                                     ELSE stamps[k]]
      /\ Write([event |-> "BUDGET_DEBIT", charged |-> Recorded(key), usage |-> usage,
                before |-> scopes])
      /\ waived' = IF pending.granted THEN waived ELSE waived \union Charged(key)
      /\ pending' = NoRequest
      /\ UNCHANGED <<limited, mode, now>>

\* The call to the provider has failed and nothing is debited, or debit() finds no
\* scope to charge and says so.
GiveUp ==
  /\ ~flushing /\ pending # NoRequest
  /\ pending' = NoRequest
  /\ UNCHANGED <<memory, client, mode, debits, now, waived>>

\* Bug: a call allowed by the old budgeter is debited by the new one.
ColdStart_PendingKept ==
  /\ scopes' = disk
  /\ stamps' = [k \in Keys |-> {}]
  /\ limited' = FALSE
  /\ kept' = <<>> /\ FlushEnds
  /\ UNCHANGED <<disk, errors, twice, mode, pending, debits, now, waived>>

\* The process is killed, in the middle of a flush or not, and from_ledger() builds
\* a budgeter: without timestamps and without a rate limit.  A process that ends in
\* order has flushed its buffer before (__del__()).
ColdStart ==
  /\ scopes' = disk
  /\ stamps' = [k \in Keys |-> {}]
  /\ limited' = FALSE
  /\ kept' = <<>> /\ FlushEnds
  /\ pending' = NoRequest
  /\ UNCHANGED <<disk, errors, twice, mode, debits, now, waived>>

\* Time passes; that of a flush passes before or after it.
Tick ==
  /\ ~flushing /\ now < MaxNow
  /\ now' = now + 1
  /\ UNCHANGED <<memory, client, mode, pending, debits, waived>>

Next ==
  \/ \E key \in Keys, limit \in Limits, turns \in TurnLimits : Allocate(key, limit, turns)
  \/ \E key \in Keys, tokens \in Requests : Check(key, tokens) \/ Unchecked(key, tokens)
  \/ \E usage \in 0..(pending.tokens + Extra) : Debit(usage)
  \/ GiveUp
  \/ Land \/ Flush
  \/ \E one \in BOOLEAN : Raised(one)
  \/ ColdStart
  \/ Tick

Spec == Init /\ [][Next]_vars

-----------------------------------------------------------------------------
(* Properties.                                                              *)

IsBudgets(budgets) ==
  DOMAIN budgets \subseteq Keys /\ budgets \in [DOMAIN budgets -> Budget]

\* Types; that a request whose check has passed has a budget to be charged to; and
\* that in mode "enforce" no call goes on, and no scope is charged, without one.
TypeOK ==
  /\ IsBudgets(scopes) /\ IsBudgets(disk)
  /\ stamps \in [Keys -> SUBSET [number : 0..MaxDebits - 1, time : 0..MaxNow]]
  /\ limited \in BOOLEAN /\ flushing \in BOOLEAN /\ twice \in BOOLEAN
  /\ \A i \in 1..Len(kept) : IsBudgets(kept[i].before)
  /\ landed \in Nat /\ IF flushing THEN landed < Len(kept) ELSE landed = 0
  /\ mode \in Modes
  /\ pending \in {NoRequest} \union [key : Keys, tokens : Requests, granted : BOOLEAN]
  /\ debits \in 0..MaxDebits
  /\ now \in 0..MaxNow
  /\ errors \in 0..MaxErrors
  /\ waived \subseteq Keys
  /\ pending.granted => Candidates(pending.key) # {}
  /\ mode = "enforce" => waived = {} /\ (pending # NoRequest => pending.granted)

\* No allocated scope lies in two other allocated scopes.
Flat == \A k \in DOMAIN scopes : \A p, q \in Above(k) \intersect DOMAIN scopes : p = q

\* "All state changes are logged to the ledger for auditability and cold-start
\* reconstruction": a budgeter rebuilt from the ledger at this moment would
\* have the budgets of the one that runs, through allocations that replace each
\* other, debits, earlier cold starts and writes that were refused, whose lines have
\* landed since with a later one.  The entry of a debit names one parent only, so
\* this takes a flat tree of scopes; and no refused write may have left a line
\* behind that its repetition writes once more.
ReplayMatches == kept = <<>> /\ ~twice /\ Flat => disk = scopes

\* No scope is charged beyond its limit by more than what one call may use on top
\* of the tokens it asked for, whichever scope the call was checked at: in any mode,
\* for the scopes that were never charged by a call without a passed check, and as
\* long as no line of the ledger is there twice.
WithinBudget ==
  ~twice => \A k \in DOMAIN scopes \ waived : scopes[k].used <= scopes[k].limit + Extra

\* Until a cold start, and since its allocation, a scope with no scope in it
\* makes no more requests than the burst in any window, in any mode, if each call
\* charged to it had passed its check.
RateRespected ==
  limited =>
    \A k \in DOMAIN scopes \ waived :
      (\A l \in Keys : k \notin Above(l)) => Cardinality(Recent(k)) <= Burst

=============================================================================
