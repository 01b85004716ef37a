# Verification of Control Plane v2

TLA+ models of the runtime and of the packaging of Control Plane v2
(`src/Control_Plane_v2/_staging/`), the TLC configurations that check them on
small instances, and TLAPS proofs that hold for every value of the constants.
Paths below are relative to `src/Control_Plane_v2/_staging/` unless they start
with `src/`. `PROJECT.json` has the line numbers: which definition models which
lines, which hazard is covered by which property, which mutant breaks which
property.

## 1. The system

Two halves. At **run time** one process holds one session of the agent:

    Shell -> SessionHostV2 -> HO2Supervisor -> HO1Executor -> LLMGateway -> provider
                                   |                |             |
                              HO3Memory        tool dispatch   TokenBudgeter
                                   |                |             |
               HO2/ledger/ho2m.jsonl     HO1/ledger/ho1m.jsonl    HOT governance ledger
               HO2 context authority
               HOT/memory/{signals,overlays}.jsonl

Calls are synchronous and there are no threads, so inside a session the hard
part is not interleaving but **failure in the middle**: every step writes to some
ledger, every such write may raise, before or after its entry has reached the
disk, and the exception runs through code that has already changed something.
Sessions of other users, the CLI tools that append to ledgers, and the installer
are **other processes on the same files**; nothing locks those files.

The other half is **packaging**: `install.sh` bootstraps a plane from archives
and runs `package_install.py` for each package, operators run it by hand, and
`gate_check.py`, driven by `verify.py` among others, says whether the plane is
sound. Here everything interleaves with everything, and a process may be killed
between any two writes.

### Components

| Component | State | Operations | What is hard | What makes it correct |
|---|---|---|---|---|
| Ledger (`ledger_client.py`) | segment files, indexes; per object: buffer, cached chain head, offsets | open, write, flush, rotate, close, verify, read fast | cached head, lines held back by the file handle, failed flush, rotation names, crash | what was flushed stays; the chain verifies; both verifiers agree; an index never lies |
| Token budgeter | budgets of scopes in memory, their entries | allocate, check, debit, rebuild | memory changes before its entry; calls that go on without a passed check; lines kept by a failed flush; re-allocation; the tree of scopes | replay equals memory; no overspending and no excess rate by calls that passed their check |
| LLM gateway | circuit breaker, entries | `route()` | raises between breaker, provider and debit; retries; half-open tests | marker before call, one debit for an exchange, breaker follows the streak, calls end |
| Work order | `state` of a work order | transitions by tier | nobody asks the state machine at run time | the abstract specification HO1 implements |
| HO1 executor | a work order's state, cost and remaining budget; entries in HO1m | `execute()`, tool loop | three accounts of one budget; entry about the end inside the `try` | lifecycle, complete trace, agreeing accounts, bounded overspend |
| HO2 supervisor | session, work order chain, turn counters, intents; entries in HO2m | `handle_turn()`, consolidation | two-level degradation, retries, recorded twice | every answer recorded, chains closed, no work order twice, summary holds |
| Session host V2, Shell | none of their own | prompt, `process_turn()`, ends of a session | what escapes HO2 | every message answered |
| HO3 memory | signals, overlays (append-only files shared by sessions) | log, gate, overlay life cycle, read biases | two rules for one life cycle; a gate checked earlier | learned once for a window; only what is in force is read |
| Intents, liveness, projection | intents in memory, entries in HO2m | resolve, declare, supersede, close, reduce, project | entry and memory parted by a write that raises | one live intent, the one the supervisor holds |
| Attention, bias selection | none | scan, budget, select | budgets, labels, expiry | what is given is in force and for this turn |
| Installer, install order, bootstrap, `install.sh` | tree, `file_ownership.csv`, receipts, manifests, L-PACKAGE ledger | install, upgrade, transfer, rollback, bootstrap, resolve | no lock, many writes, crash anywhere, partial copy | nothing blocks later runs, plane agrees with its registry, ends are told, ownership is handed over |
| Gates and verification | none (they read) | `gate_check.py`, `verify.py`, `install.sh` step 5 | one gate that raises takes all lines away; the plane changes meanwhile; hanging children | a success is earned, exit code tells the report, verification ends |
| Not modelled | see section 7 | | | |

## 2. Modules and how they are composed

| Module | Models | Proofs |
|---|---|---|
| `Ledger`, `MCLedger` | `PKG-KERNEL-001/HOT/kernel/ledger_client.py` | `LedgerProofs` |
| `TokenBudgeter`, `MCTokenBudgeter` | `PKG-TOKEN-BUDGETER-001/HOT/kernel/token_budgeter.py` | `TokenBudgeterProofs` |
| `LLMGateway`, `MCLLMGateway` | `PKG-LLM-GATEWAY-001/HOT/kernel/llm_gateway.py` | `LLMGatewayProofs` |
| `WorkOrder` | `PKG-WORK-ORDER-001/HOT/kernel/work_order.py`, the abstract specification | |
| `HO1Executor`, `MCHO1Executor` | `PKG-HO1-EXECUTOR-001/HO1/kernel/ho1_executor.py`; implements `WorkOrder` | `HO1ExecutorProofs` |
| `Conversation` | `session_host_v2.py`, `session_manager.py` as a user sees them, the abstract specification | |
| `HO2Supervisor`, `MCHO2Supervisor` | `PKG-HO2-SUPERVISOR-001/HO2/kernel/{ho2_supervisor,session_manager,quality_gate}.py`, session host V2, shell; implements `Conversation` | `HO2SupervisorProofs` |
| `HO3Memory` | `PKG-HO3-MEMORY-001/HOT/kernel/ho3_memory.py` | (through `Context`) |
| `Context`, `MCContext` | intents, liveness, projection, attention, biases and consolidation of HO2, with the memory its sessions share | `ContextProofs` |
| `Installation`, `MCInstallation` | `package_install.py`, `preflight.py`, `genesis_bootstrap.py`, `resolve_install_order.py`, `install.sh` | `InstallationProofs` |
| `Verification`, `MCVerification` | `gate_check.py`, `verify.py`, step 5 of `install.sh` | `VerificationProofs` |

Composition runs along the calls. A caller sees its callee through what the
callee's own module promises, and that promise is checked and proved there:

* `HO1Executor` has the gateway as "answers, answers with an error, or raises,
  before the debit or after it", which is what `LLMGateway` does, and the
  budgeter's `check()` and `debit()` for one scope without budgets above it,
  because `admin/main.py` allocates no others.
* `HO2Supervisor` has HO1 as "returns completed or failed with the entry that
  says so as the last one in HO1m, or raises": theorem `ResultInLedger`.
* `HO1Executor` implements `WorkOrder` under the mapping `state <- Seen`.
* `HO2Supervisor` implements `Conversation` under `phase <- Phase`, `noted <- history`,
  `recorded <- Recorded`, `told <- Told`: of a turn its user sees the message, the
  `add_turn()` calls (two at most) and the answer; the entries of turns land in the
  order of the calls, at once, with a later write, or never, and the summary after all
  of them.
* `Context` EXTENDS `HO3Memory`: several sessions, each with its own
  supervisor, share one memory.
* `Installation` has the gates of `gate_check.py` as predicates on the tree;
  `Verification` has the tree as the set of what is wrong with it and opens up
  how the gates are run.

Several ledgers appear in these modules, each with a client of its own. `Ledger` models
that client in full: an entry whose `flush()` returned is durable; when a flush raises,
some of the lines of the buffer are in the file and **all** of them stay in the buffer, so
that the next write, which may belong to another turn, writes them before its own line,
and those that had landed once more. Who uses it sees this as follows:

* `TokenBudgeter` has the kept lines in order (`kept`, `landed`); `disk` is what a
  budgeter would make of the file at this moment, and `twice` says that a line is, or
  will be, in it twice.
* `HO2Supervisor` has the kept lines of HO2m (`kept`), and the terminal entries that
  the client of HO1m keeps (`owed`); both land with a later write or at the exit of the
  program. `ho2m` is a set, and says nothing twice.
* `LLMGateway` and `HO1Executor` look at the entries of one call. An entry that raises
  is there or not when the call ends. That is enough: in the gateway it ends the call,
  and the properties speak of entries whose write returned. In HO1 it leads to the
  failure entry, whose write takes the kept lines along (what is left after it is `owed`
  in `HO2Supervisor`), and no property of HO1 reads the entries between the two.

### What the modules abstract

* **Ledger.** A line is an entry's number, submission, time and chain prefix;
  the SHA-256 of a line is the sequence of ids up to it, hence free of
  collisions. Segment names are the second of their creation, so two rotations
  in one second collide as they do in the code. `sorted()` puts rotated segments
  before the base file; the model keeps that order. The file handle is itself a
  buffer: a line reaches the disk at the `tell()` before the next one. A line is
  not torn; the code writes whole lines through one handle.
* **TokenBudgeter.** Scopes are sequences of names. The gateway's budget mode is a
  variable that keeps its initial value: in "enforce" only a passed check leads to a debit,
  in "warn", as `admin/main.py` has it, a denied one does too, in "off" there is no
  check. `waived` is a history variable: the scopes charged by a call no check had let
  pass. A flush lands line by line, may raise before or after one, and the process may be
  killed between two. `disk` is what `from_ledger()` would rebuild from the lines so far; a
  cold start takes it. The timestamps of a scope are a set with one record for each debit.
  Costs in dollars are recorded by the code and decide nothing. `main.py` wires no
  rate limit; the model has one, as the class offers it.
* **LLMGateway.** Each ledger write of `route()` is a step, because it may raise
  and because the process may end there; the DISPATCH marker, the call of the provider
  and its answer are three; the failure count is capped at the threshold, beyond
  which it has no effect; a crash starts a new process with a closed circuit. `lost`
  is a history variable: tests of the half-open circuit whose marker raised.
* **HO1Executor.** One work order, because work orders share neither state nor
  scope. Tokens are small numbers; prompts, contracts and schemas are the
  outcome of the step that uses them. `failAgain` is the `except` clause around
  the whole of `execute()`.
* **HO2Supervisor.** One session. A turn in `history` is the number of its message.
  `total` counts one for each work order in place of its cost. `Quit` is the end of the
  process, where the ledger clients try once more to write what they keep. Intents,
  projection and biases are one step `Context` that may raise: the module of that name
  opens it up.
* **Context.** A work order is the lifecycle entries it leaves. The clock does not go
  back. Labels are one tag of a turn or none. The events the attention scan reads are
  the lifecycle entries of the session. A turn logs all its signals and checks the gate
  in one step: the code checks only after the last one is logged, and the events of
  other sessions fall before or after. A flush of `signals.jsonl` that is repeated and
  doubles an event is left out. Values that no later step reads are reset. Deactivation,
  weight updates and re-logged artifacts are called by nothing under `src/`; they are
  modelled as calls by hand (external), one at a time, between turns. All sections of a
  projection have one budget, counted in lines.
* **Installation.** The content of a file is the archive it came from, which stands for
  its hash. One write is one step: the append to the registry, the receipt with its
  manifest. The bootstrap unpacks an archive into the files themselves: when it is cut,
  what it got to is replaced and the last file may hold `Truncated` content. A registry
  that is cut short is taken as one without rows. Signatures and attestations are
  constants of an archive. The registries of specs and of frameworks are one path. An
  asset that a manifest declares and the archive lacks makes the archive not `Sound`.
  `marks` is a history variable: what has happened that a later run may stumble over.
* **Verification.** `plane` is the set of defects at the moment; every gate reads
  it when it runs, and it changes in between. `absent` remembers, as history, what
  was right at some moment since the check began. The modules with which
  G2 to G5 check a work order are not in the repository, so these gates fail
  when given one and pass when not.

## 3. The runs

| Run | Instance | Checks | Shows |
|---|---|---|---|
| `Ledger` | 2 clients, 3 entries, batch 2, interval 1, rotation by size 2 and daily, 1 flush that fails | `TypeOK`, `ChainIntact`, `FastReadSound`, `VerifiersAgree`, `AckedDurable`, `TwiceOnlyAfterError` | Nothing flushed is lost; entries double only after an error; the parallel verifier gives the verdict of the sequential one; an undisturbed ledger verifies and its index leads to the right lines |
| `Budget` | session, work order and agent scope, each budget mode, limit 2 and turn limit 2, 2 debits, 1 flush that raises, burst 1 | `TypeOK`, `ReplayMatches`, `WithinBudget`, `RateRespected` | The rebuilt budgets are the running ones, once the kept lines have landed; no scope overspends by more than one call adds, and the rate holds, in any mode, unless a call without a passed check was charged to it |
| `Gateway` | threshold 3, recovery 2, 2 tests, 2 retries, 5 calls, 2 faults, mode "warn" as shipped | `TypeOK`, `MarkedBeforeSend`, `ChargedOnce`, `TripsOnStreak`, `TestsAccounted`, `RouteReturns` | What the ledger, the budget and the breaker know of a call, wherever it is cut off, and that it ends |
| `HO1` | 2 tools, budget 4, 3 turns, prompts of 2 tokens, all budget modes, 2 faults | `TypeOK`, `ToolsTraced`, `CostIsCharged`, `OverspendBounded`, `ImplementsWorkOrder` | The trace has no gap, the accounts agree, overspending is bounded, and HO1 implements the work order |
| `HO1Regress` | smaller | `TerminalStays`, violated | `state` itself goes from completed to failed when the entry about the completion raises |
| `HO2` | 2 turns, 1 retry, 1 signal over the gate, 2 faults whose lines are kept | `TypeOK`, `ChainsClosed`, `NeverTwice`, `SummaryHolds`, `ImplementsConversation`, `TurnReturns` | What HO2m says of turns and work orders is true, every message is answered |
| `Context` | 2 sessions, 3 turns, 4 calls, 1 signal, 1 artifact, 1 tag, thresholds 2 and 2, 1 fault | `TypeOK`, `OneIntent`, `ConsolidatedOnce`, `InjectedInForce` | Two sessions at once on one memory: intents stay single, learning is grounded and not repeated knowingly, prompts get only what is in force |
| `ContextLearned` | no faults, no calls by hand | `LearnedShown`, violated | What was learned is never shown |
| `Install` | kernel, genesis, a registry package, a layout package, one that takes it over, its upgrade; 3 runs, an operator beside the script, 1 fault, which may cut a run in the middle of a file | `TypeOK`, `NeverBlocked`, `Sealed`, `OneEnd`, `HandedOver` | Runs that were cut short while adding files block nothing; the plane agrees with its registry; the ledger tells each end; files change hands only by dependency |
| `InstallAgain` | 2 runs, no fault | `ReinstallWorks`, violated | `install.sh --force` twice stops in the middle |
| `Verify` | planes with at most one defect, one change during the check, every option, commands by hand | `TypeOK`, `PassIsEarned`, `ExitAgrees`, `VerifyEnds` | A reported success was earned; the exit code follows the report; `verify.py` ends although its children hang |
| `VerifyExit` | no change | `ExitTellsReport`, violated | `verify.py` prints FAIL and exits with 0 |

**Why the bounds are enough.** Each bound was chosen so that the case a property is
about happens: three entries with batches of two give a batch, a remainder and a
retry, and size 2 makes the second flush rotate; three failures in five calls open
the circuit, five ticks pass the recovery twice, and two tests leave one when a marker has
lost the other; one failed flush and two debits give a line that lands later, one that
lands twice and a kill in between, and limit, turn limit and burst are all within
reach of two debits; a budget of 4 with prompts of 2
admits a follow-up that overspends; two faults reach the failure of a failure
handler; one retry reaches both the retry and the escalation; three turns of two
sessions let both cross the gate at once and a third turn be given the result; three
installer runs give install, takeover and upgrade, or bootstrap, operator and a
second bootstrap; one defect and one change give every plane that is wrong at
one read and right at the next. Every property has a mutant, a plausible mistake
in the code, that these same instances refute, and every disjunct of the
next-state relations fires in them. The theorems of section 5 remove the bounds
for every safety property that holds. Deadlock is not checked where
the system may stop: a plane after its last run, a session or a check that ended, clients
that are closed with the bounds used up. It is checked in `Budget`, where a cold start is
always possible.

**Symmetry.** Clients and submissions (`Ledger`) and sessions (`Context`) are
interchangeable: no definition names or orders them. Runs with liveness
properties use none.

## 4. Fairness

Only what one thread is bound to do is assumed:

* `LLMGateway`: `WF_vars(Proceed)`. `route()` is straight code, the retries are
  counted, and the provider's `send()` has a timeout. Nothing makes anybody call
  `route()`, and nothing makes time pass.
* `HO2Supervisor`: `WF_vars(Work)`. A turn is one call in one thread; HO1's loop is
  bounded by its turn limit and a call of the provider by a timeout. Tools are
  **assumed** to return: the shell tool has a timeout, but the `gate_check` tool
  (`PKG-ADMIN-001/HOT/admin/main.py:124`) runs a subprocess without one, so a gate check
  that hangs leaves the message unanswered. The user need never ask.
* `Verification`: `WF_vars(Verify)`. `verify.py` itself is sequential and waits with a
  timeout. No fairness for the children: they may hang for ever, which is the point
  of `VerifyEnds`.

That the calls, loops and retries are bounded is proved: see *Running down* in section 5.

## 5. What is proved

`tlapm` proves the following for every value of the constants that satisfies the
assumptions (`ASSUME` of each module, evaluated by TLC in the runs). The
assumptions the proofs use are types and finiteness; the one exception is `Asking` in
`TokenBudgeterProofs` (every check asks for at least one token, since a check for
none passes whatever is left), an explicit hypothesis of `BudgetsHold`.
`SeedAssumption` of `Installation` (no other package ships a file of genesis) is true of
the shipped packages. `Sealed` needs it, because the bootstrap unpacks genesis over
whatever is there: the proofs of `NeverBlocked` and `Sealed` use it (`SeedOnly`), the
others do not.

| Theorem | Property | Argument |
|---|---|---|
| `LedgerProofs!TypeCorrect` | `TypeOK` | inductive as it stands |
| `LedgerProofs!FilesAreAppendOnly` | `AppendOnly` | from the types: a file changes only to itself and a pending line |
| `LedgerProofs!AckedEntriesAreDurable` | `AckedDurable` | `DurableInv`, with `PassedOnDisk`: what a flush has taken from the buffer is in the file or in the pending line |
| `LedgerProofs!SerialChainIsIntact` | `ChainIntact` | `Plain`: while nothing disturbed it, one client is open, it writes the base file, and its cached head is the hash of the last line, on disk or pending; the history variable `disturbed` marks where that ends |
| `LedgerProofs!FastReadIsSound` | `FastReadSound` | `Indexed`: while the ledger is undisturbed, the offsets of the index on disk lead to lines of their submission, and so do those collected by the open client once its pending line has landed |
| `LedgerProofs!WrittenOnce` | `TwiceOnlyAfterError` | `Once`: as long as no flush has failed, the lines on disk have ids of their own (`Apart`), the part of a buffer that the loop has not passed is not among them (`Awaited`), and all of them are of entries that exist (`Known`) |
| `LedgerProofs!VerifiersAlwaysAgree` | `VerifiersAgree` | `Rooted`: once anything is on disk, one of the lines there has no predecessor, because what a client builds on has its root on disk or in its own handle; without it a single segment could be good for one verifier and cut off for the other |
| `TokenBudgeterProofs!TypeCorrect` | `TypeOK` | `Typed`: with the lines of the buffer |
| `TokenBudgeterProofs!ReplayIsExact` | `ReplayMatches` | `Faithful`: while no line is there twice, what the file rebuilds mirrors what memory held before the first line that is still to land, and so on along the buffer (`Follows`, `Mirrors`); what is recorded of a debit is what is charged when the tree is flat |
| `TokenBudgeterProofs!BudgetsHold` | `WithinBudget` | `Affordable`: a request that passed its check fits every scope it will be charged to, and a rebuilt budget, now or after the lines still to land, has the limit of the running one and has spent no more (`Within`), for scopes that are not waived |
| `TokenBudgeterProofs!RateHolds` | `RateRespected` | `Room`: a scope in which no other lies (`Leaf`) and that is not waived is within its burst, and below it while a request that was admitted there is under way; time only takes stamps out of the window |
| `LLMGatewayProofs` (seven) | `TypeOK`, `ReturnsLogged`, `MarkedBeforeSend`, `ChargedOnce`, `TripsOnStreak`, `FirstSendAdmitted`, `TestsAccounted` | `Typed`; `Told`: the entries each control point has behind it; `Marked`: the marker stays through every attempt; `Owed`: an exchange is ahead of its debit only at `debit`; `Counts`: the breaker's count is the streak; `Admission`: a call that got past the breaker finds it not open; `Tested`: the tests used are the one under way and the lost ones, and a failure leaves no circuit half-open |
| `HO1ExecutorProofs` (nine) | `TypeOK`, `TurnsBounded`, `CostIsCharged`, `OverspendBounded`, `ToolsAllowed`, `ToolsTraced`, `ResultLogged`, `OneTerminalEntry`, `ImplementsWorkOrder` | `TurnLeft`, `Accounts` (calls counted, the two sums agree, spending bounded at each point), `Trace` (pending tools are allowed, tools and entries keep step), `Alive` and `Ends` (which states and entries a control point admits) |
| `HO1ExecutorProofs!Implementation` | refinement of `WorkOrder` | initial states map to `Create`, every step to `Transition` or a stutter, under `Seen`: a completion whose entry raises is not visible before the work order fails |
| `HO2SupervisorProofs` (eight) | `TypeOK`, `DispatchedFirst`, `NeverTwice`, `ChainsClosed`, `AcceptedCompleted`, `NoGap`, `AnswerRecorded`, `SummaryHolds` | every invariant is about HO2m with any part of the kept lines added (`Views`, `Held`). `Numbered`: a work order is dispatched only once it has a number; `Traced`, `Closed`, `Accepted`: what stands behind an entry; `InOrder`: each view is `Proper`, its turns are the first so many and its summaries come after all; `Answered`: a turn on its way to an answer is recorded; `Costed`: cost added and cost to come |
| `HO2SupervisorProofs!Implementation` | refinement of `Conversation` | every step is a step of the conversation or a stutter, under `Fresh` (the message at hand is not among the turns counted before the first `add_turn()` of its turn, and not twice before the second), `InOrder` (whatever lands, lands in order) and `Answered` |
| `InstallationProofs!TypeCorrect`, `EndsTold`, `OwnersHandedOver` | `TypeOK`, `OneEnd`, `HandedOver` | `Told`: what the ledger says at each point of a run; `Looped`, `Alone`: the script is in one place at a time and, without overlap, one run at a time is under way; `Granted`: a run that got past the ownership check would still pass it when it writes its rows |
| `InstallationProofs!GateNeverBlocks` | `NeverBlocked` | `Undisturbed`: content comes from an archive that has the path (`Genuine`), what is still to be copied is part of the archive at hand (`Filling`), and every path is kept (`Kept`): its row, receipt and file agree, or the run that will make them agree is under way, or one that was cut short has left a mark; and no row or receipt vouches for a truncated file (`Whole`) |
| `InstallationProofs!PlaneStaysSealed` | `Sealed` | `Accounted`: without marks a file without a row is one that a run under way is adding |
| `VerificationProofs!TypeCorrect`, `SuccessIsEarned`, `ExitFollowsReport` | `TypeOK`, `PassIsEarned`, `ExitAgrees` | `Earned`: every passing line, level and import of a check in progress rests on a moment when what it vouches for was right (`Watched`, `Looked`, `Judged`, ...), carried through printing, counting and the verdict; `Reported`: report and exit code are computed from the same levels |
| `ContextProofs!TypeCorrect` | `TypeOK` | `Sized`: every log is numbered by its events, counters stay behind the steps that raise them, a snapshot is taken from the log it is compared with; `ProjectionType`: the four cuts of a projection keep it within its budget of lines |
| `ContextProofs!OneLiveIntent` | `OneIntent` | `Certain`: the supervisor holds one intent at most, none while it is about to declare one, and what its entries tell of is that one or, when it holds none, the next number |
| `ContextProofs!LearnedOnce` | `ConsolidatedOnce` | `Remembered`: no overlay is from the future (`Dated`), and a consolidation under way rests on enough events and has seen no overlay of its signal within the window (`Held`) |
| `ContextProofs!GivenInForce` | `InjectedInForce` | `Lived`: an artifact begins with its one overlay and what comes later does not expire, so the two rules by which the code resolves its life agree |
| `LLMGatewayProofs!CallsRunDown`, `HO1ExecutorProofs!OrdersRunDown`, `HO2SupervisorProofs!TurnsRunDown`, `VerificationProofs!VerifyRunsDown` | `RunsDown` and `LeftBounded` of each proof module | see below |

**Running down.** Liveness cannot be proved here, but the arithmetic behind it can.
For each of the four loops the proof module defines how many steps the call in progress
still takes at most (`Left`, `StepsLeft`), from its control point and from the retries,
rounds, tools, candidates or modules before it. The theorem says that the number is
bounded by the constants and that every step of the call lowers it, whatever
the other party answers and whichever write raises: `route()` takes at most
`3 * MaxRetries + 7` steps, `execute()` `TurnLimit * (|Tools| + 5) + 8`, a turn
`6 * MaxCandidates + 4 * MaxRetries + 16`, `verify.py` `|Modules| + 7`. So nothing
in them goes round for ever, and this is what the fairness of section 4 rests on
(`HO2Supervisor` has a whole `execute()` as one step). What remains to TLC is that some
step is always possible until the end.

The invariants are strengthened because none of the properties (bar types) is
inductive: each speaks of the end of a call, and what makes it true is a fact
about every control point on the way. Types are part of every one of them. Where
`ContextProofs` needs the last entry of a kind, the greatest element of a bounded set of
numbers comes from the well-foundedness of `<` on the naturals.

Two proofs changed what they were about. `NeverBlocked` was not provable at first, and
the reason was that the history variable `marks` missed two things runs leave behind: a
run cut short before its receipt when the old receipt of its own package already names
content it has replaced (`Outdated`), and a bootstrap that dies with the registry open
for writing when another package's receipt names a kernel file (`Handed`). Both are
marked now. The timestamps of the budgeter, and the projection of `Context`, were folds
and are now a set of records and four explicit cuts, which say the same of the code and
can be reasoned about.

Only model-checked: the liveness properties `RouteReturns`, `TurnReturns` and
`VerifyEnds`, and the violated properties; every safety property of a passing run is the
subject of a theorem. Out of the prover's reach: liveness under fairness and
`ENABLED`; induction over data, because the induction theorems take an operator as a
parameter; modules with `RECURSIVE` operators, of which the project has none.

## 6. Where code and documents differ

Kept as runs that TLC violates:

* **`HO1Regress`** (`ho1_executor.py:285`): the entry about a completed work order
  is written inside the `try` whose handler fails the work order.
* **`ContextLearned`** (`ho2_supervisor.py:837`): the consolidation stores
  `output.get("bias")` as the line of an overlay; its contract calls the field
  `context_line`, so the overlay has no line and bias selection drops it.
* **`InstallAgain`** (`genesis_bootstrap.py:226`): a second bootstrap opens the
  ownership registry for writing and forgets who took over what; the installer's
  own G0B then refuses the next package.
* **`VerifyExit`** (`verify.py:675`): no gate results at all count as a failure in
  the report and as a success in the exit code.

Met while modelling and reflected in the preconditions of the properties or in the
models, without a run of their own:

* *Ledger.* After a rotation the base file, which sorts last, is taken for the newest
  segment at the next start, so the chain goes on from an old head; two
  clients on one path fork the chain; a flush that failed leaves the cached head ahead
  of the file; the index of a segment is written once, by the first client that
  closes, and misses later lines; the batch interval is only looked at in
  `write()`. Hence `~disturbed` and `errors = 0` in the properties.
* *Budgeter.* The entry of a debit names one parent, so a tree of three levels is
  not rebuilt exactly (`Flat`). The session summary counts usage at every
  level. The gateway debits what it has not checked (mode "off") and what it has denied
  (mode "warn", the shipped one), so limits and rate bind nobody there: `waived`. A line of
  a debit that lands twice is replayed twice (`twice`).
* *Gateway.* A retry goes through a circuit that its own failures have opened (only
  the first attempt asks); a marker that cannot be written uses up a half-open test for
  good (`lost` in `TestsAccounted`); when all tests are lost, nothing closes the
  circuit any more.
* *HO1.* A work order may get two terminal entries when the first raises after it was
  written; spending beyond the budget is possible by one prompt.
* *HO2.* An entry whose write raised is not lost: the next write, perhaps of a later
  turn, puts it into HO2m, and one that had landed into it again. A turn may be recorded
  twice; a turn whose degradation entry raises is answered by the host and not recorded
  by HO2; consolidation runs before the answer returns, although its docstring says
  after.
* *Context.* The `conflict_flag` of an unclear intent is read by nobody. `WO_FAILED` is
  not among the events of the liveness reducer, so a failed work order stays open in
  projections (`docs/HO2_Context_Authority_MVP_Spec_v0_3.md:125` has it close). After a
  superseding entry that lands and raises, the supervisor holds an intent the ledger
  calls superseded until the next "new"; a declaration that lands and raises stays live
  although the user closes it. `OneIntent` states what remains true. Consolidated
  overlays carry no labels, no artifact id and no expiry. Two sessions may consolidate
  one signal in one window, each before it could see the other's overlay, although the
  docstring says the gate is idempotent in it.
* *Installation.* Overlapping installers can take a file over without the dependency
  (`overlap`); an upgrade that fails half way leaves the files copied so far
  (`overwrite`), although the handoffs promise no half measures; a bootstrap that is cut
  while it unpacks over an older plane leaves a truncated file where a receipt tells of
  a whole one (`overwrite`); a dry run leaves an `INSTALL_STARTED` without an end.
* *Verification.* `verify.py` calls itself read-only; its session level (`--e2e`) lets the
  session write its ledgers under the root.

## 7. Not modelled, and why

* **Boot materialisation and layout**: directories, tier manifests and one genesis
  entry per tier, each written when missing, in one process before the session. With it
  go the genesis entry and the parent hash of a ledger.
* **Write boundary and authorisation** (`pristine.py`, `plane.py`, `auth*.py`): pure
  decisions from a path, a mode and a table of roles.
* **Provenance, signing, hashing, Merkle trees, schemas**: functions of data. Their
  verdicts are constants or outcomes where they are used; Merkle roots of segments are
  written and never compared.
* **Registries and identifiers**: the CSV editor and the identifier allocator (highest
  number plus one, without reservation) are libraries no shipped program calls; the
  lookups the gates make are in `Installation`.
* **Admin entry point and forensics**: wiring and formatted output. The wiring gives the
  other modules their constants (budget mode "warn", 2 retries of the gateway,
  projection mode "shadow", HO3 enabled, no session budget).
* **Providers**: an external call; the gateway lets it answer, fail or never matter.
* **Prompt router, session host V1, attention service**: predecessors that nothing wires.
* **Factory** (`src/Control_Plane_v2/_Factory`): parses documents and starts agents one
  after another; its steps share nothing that could get out of step.
* **Interrupts**: `KeyboardInterrupt` and `SystemExit` inside a turn pass every `except
  Exception`; Python delivers them between any two bytecodes, below the steps of the
  models. `LLMGateway`, `Ledger` and `Installation` have crashes, which are the same cut
  seen from the files.
* **Left out of modelled parts**: money in the budgeter, the scoring in the quality gate,
  prompts, contracts and schemas of HO1, torn ledger lines after a power failure, the
  decay of signals.

## 8. Running

    tlc -workers 2 -config Install.cfg MCInstallation
    tlapm InstallationProofs.tla

`Ledger` takes about three minutes, `Install`, `Budget` and `Context` about one, every
other run less.

## 9. Plan

Done in this order: ledger; budgeter; gateway; work order and HO1; HO2; installation;
verification; memory and context; the proofs of their safety properties; the bounds on
the steps of their calls. What would add most next: interrupts in `HO2Supervisor`; the
lineage of tier ledgers.
