----------------------------- MODULE HO2Supervisor -----------------------------
(***************************************************************************)
(* A session of the shell: the host, HO2's handle_turn() with its work     *)
(* order chain, and the session manager.                                   *)
(* PKG-HO2-SUPERVISOR-001/HO2/kernel/ho2_supervisor.py, session_manager.py,*)
(* quality_gate.py; PKG-SESSION-HOST-V2-001/HOT/kernel/session_host_v2.py. *)
(*                                                                         *)
(* HO1 is seen through what HO1Executor promises: execute() returns a work *)
(* order that is completed or failed, its last entry in HO1m says which,   *)
(* or it raises.  A write to HO2m that raises leaves its line in the buffer *)
(* of the ledger client, on disk or not, and the next write takes it along: *)
(* LedgerClient.write(), flush() and __del__() of PKG-KERNEL-001, with the  *)
(* batch size 1 of admin/main.py.  Everything runs in one thread.          *)
(***************************************************************************)
EXTENDS Integers, Sequences, FiniteSets

CONSTANTS
  MaxRetries,     \* HO2Config.max_retries
  HO3Enabled,     \* HO2Config.ho3_enabled
  MaxTurns,       \* bound: messages of the user
  MaxCandidates,  \* bound: signals of a turn that cross the gate
  MaxFaults       \* bound: ledger writes that raise

ASSUME SupervisorAssumption ==
  /\ MaxRetries \in Nat
  /\ HO3Enabled \in BOOLEAN
  /\ MaxTurns \in Nat
  /\ MaxCandidates \in Nat
  /\ MaxFaults \in Nat

VARIABLES
  pc,          \* what the session does next
  asked,       \* messages of the user so far
  answer,      \* TurnResult.outcome of the last of them
  seq,         \* _wo_seq of the session manager
  history,     \* its _history: the message of each turn; its length is _turn_count
  total,       \* HO2's _total_cost, one for each work order
  kind,        \* type of the work order at hand
  back,        \* state in which the last work order came back
  chain,       \* wo_chain: the work orders of the turn that came back
  retries,     \* retry_count
  passed,      \* quality_passed
  candidates,  \* consolidation candidates still to do
  ho2m,        \* what HO2m says: <<event, work order, message or turn>>
  kept,        \* _buffer of its client: lines, each the set of what it says
  ho1m,        \* terminal entries in HO1m: <<event, work order>>
  owed,        \* terminal entries that the client of HO1m still keeps
  faults       \* what has raised: ledger writes, and the gateway in _degrade()

turn == <<kind, back, chain, retries, passed, candidates>>
manager == <<seq, history, total>>
ledgers == <<ho2m, kept, ho1m, owed>>
vars == <<pc, asked, answer, manager, turn, ledgers, faults>>

\* The work order at hand is the last one that next_wo_id() has numbered.
wo == seq

Ends == {"WO_COMPLETED", "WO_FAILED"}
End(s) == IF s = "completed" THEN "WO_COMPLETED" ELSE "WO_FAILED"

-----------------------------------------------------------------------------
(* Ledger writes                                                            *)

\* An exception ends the turn, or the consolidation after it.
Escape == IF kind = "consolidate" THEN "return" ELSE "except"

\* What the first n of some lines say.
Said(lines, n) == UNION {lines[i] : i \in 1..n}

\* Bug: the buffer is cleared although its flush has raised.
WriteOr_Dropped(line, next, escape) ==
  LET buffer == Append(kept, line)
  IN  /\ kept' = << >>
      /\ \/ ho2m' = ho2m \union Said(buffer, Len(buffer)) /\ pc' = next /\ faults' = faults
         \/ /\ faults < MaxFaults
            /\ faults' = faults + 1
            /\ pc' = escape
            /\ \E n \in 0..Len(buffer) : ho2m' = ho2m \union Said(buffer, n)

\* A write of a line to HO2m, and where it goes from there if it raises.  The
\* flush writes all that is kept, in order, and forgets it when it is done; one
\* that raises has written some of it and forgets nothing, so that lines land
\* later, and lines that had landed land again.  (A set says nothing twice.)
WriteOr(line, next, escape) ==
  LET buffer == Append(kept, line)
  IN  \/ /\ ho2m' = ho2m \union Said(buffer, Len(buffer))
         /\ kept' = << >> /\ pc' = next /\ faults' = faults
      \/ /\ faults < MaxFaults
         /\ faults' = faults + 1
         /\ pc' = escape
         /\ kept' = buffer
         /\ \E n \in 0..Len(buffer) : ho2m' = ho2m \union Said(buffer, n)

Write(line, next) == WriteOr(line, next, Escape)

\* SessionManager.add_turn(): the turn is counted before its entry is written.
AddTurn(next, escape) ==
  /\ history' = Append(history, asked)
  /\ WriteOr({<<"TURN_RECORDED", Len(history) + 1>>}, next, escape)

-----------------------------------------------------------------------------
(* The session                                                              *)

Init ==
  /\ pc = "new" /\ asked = 0 /\ answer = "none"
  /\ seq = 0 /\ history = << >> /\ total = 0
  /\ kind = "classify" /\ back = "none" /\ chain = {} /\ retries = 0 /\ passed = FALSE
  /\ candidates = 0
  /\ ho2m = {} /\ kept = << >> /\ ho1m = {} /\ owed = {} /\ faults = 0

\* The shell starts the session; if that raises, the program ends.
StartSession ==
  /\ pc = "new"
  /\ WriteOr({<<"SESSION_START", 0>>}, "ready", "gone")
  /\ UNCHANGED <<asked, answer, manager, turn, ho1m, owed>>

\* SessionManager.end_session() counts the turns; SessionHostV2.end_session()
\* swallows a write that raises.
EndSession ==
  /\ pc = "ready"
  /\ WriteOr({<<"SESSION_END", Len(history)>>}, "gone", "gone")
  /\ UNCHANGED <<asked, answer, manager, turn, ho1m, owed>>

\* The program ends: LedgerClient.__del__() tries once more to write what is kept.
Quit ==
  /\ pc = "gone"
  /\ pc' = "over"
  /\ \E n \in 0..Len(kept) : ho2m' = ho2m \union Said(kept, n)
  /\ \E landed \in SUBSET owed : ho1m' = ho1m \union landed
  /\ kept' = << >> /\ owed' = {}
  /\ UNCHANGED <<asked, answer, manager, turn, faults>>

\* The user asks: process_turn() and handle_turn() begin.
Ask ==
  /\ pc = "ready"
  /\ asked < MaxTurns
  /\ asked' = asked + 1
  /\ answer' = "none"
  /\ pc' = "plan"
  /\ kind' = "classify" /\ back' = "none" /\ chain' = {} /\ retries' = 0 /\ passed' = FALSE
  /\ candidates' = 0
  /\ UNCHANGED <<manager, ledgers, faults>>

-----------------------------------------------------------------------------
(* handle_turn()                                                            *)

\* Bug: a retry keeps the identity of the work order it retries.
NextWo_Kept == IF retries > 0 THEN seq ELSE seq + 1

NextWo == seq + 1

\* _create_wo() and its WO_PLANNED entry
Plan ==
  /\ pc = "plan"
  /\ seq' = NextWo
  /\ Write({<<"WO_PLANNED", seq'>>}, "dispatch")
  /\ UNCHANGED <<asked, answer, history, total, turn, ho1m, owed>>

\* _dispatch_wo() up to the call of HO1
Dispatch ==
  /\ pc = "dispatch"
  /\ Write({<<"WO_DISPATCHED", wo>>}, "execute")
  /\ UNCHANGED <<asked, answer, manager, turn, ho1m, owed>>

\* Where a work order goes when it comes back in state s.
Onward(s) ==
  IF kind = "consolidate"
    THEN IF s = "completed" THEN "overlay" ELSE "consolidate"
    ELSE IF kind = "classify" THEN "context" ELSE "verify"

\* The work order comes back: its last entry in HO1m tells its state.  A
\* completed entry whose write raised is kept and stands before the failed one,
\* and so do the entries that earlier work orders are owed.
ExecuteReturns ==
  /\ pc = "execute"
  /\ \E s \in {"completed", "failed"} :
       /\ back' = s
       /\ pc' = Onward(s)
       /\ \/ ho1m' = ho1m \union owed \union {<<End(s), wo>>} /\ faults' = faults
          \/ /\ s = "failed" /\ faults < MaxFaults
             /\ faults' = faults + 1
             /\ ho1m' = ho1m \union owed \union (Ends \X {wo})
  /\ owed' = {}
  /\ chain' = IF kind = "consolidate" THEN chain ELSE chain \union {wo}
  /\ UNCHANGED <<asked, answer, manager, kind, retries, passed, candidates, ho2m, kept>>

\* What HO1 writes when it fails to write that it failed: the client keeps it,
\* and any of what it keeps may have landed.
Owe ==
  \E events \in {{"WO_FAILED"}, Ends} :
    /\ owed' = owed \union (events \X {wo})
    /\ \E landed \in SUBSET owed' : ho1m' = ho1m \union landed

\* Bug: an exception of HO1 counts as a failed work order.
ExecuteRaises_Swallowed ==
  /\ pc = "execute"
  /\ faults < MaxFaults
  /\ faults' = faults + 1
  /\ Owe
  /\ back' = "failed"
  /\ pc' = Onward("failed")
  /\ chain' = chain \union {wo}
  /\ UNCHANGED <<asked, answer, manager, kind, retries, passed, candidates, ho2m, kept>>

\* execute() raises: it could not even write that the work order failed.
ExecuteRaises ==
  /\ pc = "execute"
  /\ faults < MaxFaults
  /\ faults' = faults + 1
  /\ Owe
  /\ pc' = Escape
  /\ UNCHANGED <<asked, answer, manager, turn, ho2m, kept>>

\* Intents, liveness, projection, attention and biases, between the two work
\* orders of a turn.  A classification of the wrong shape raises, and so may
\* every write.
Context ==
  /\ pc = "context"
  /\ pc' \in {"plan", "except"}
  /\ kind' = "synthesize"
  /\ UNCHANGED <<asked, answer, manager, back, chain, retries, passed, candidates, ledgers, faults>>

\* What the quality gate can make of a work order: a failed one carries an error
\* marker; output that is no object makes verify() raise.
Verdicts == IF back = "failed" THEN {"reject"} ELSE {"accept", "reject", "raise"}

\* Bug: one retry too many.
MayRetry_OneMore == retries <= MaxRetries

MayRetry == retries < MaxRetries

\* Bug: a rejected work order is looked at again.
AfterReject_Again == "verify"

AfterReject == IF MayRetry THEN "plan" ELSE "escalate"

Verify ==
  /\ pc = "verify"
  /\ \E verdict \in Verdicts :
       /\ passed' = (verdict = "accept")
       /\ retries' = IF verdict = "reject" /\ MayRetry THEN retries + 1 ELSE retries
       /\ pc' = CASE verdict = "accept" -> "chain"
                  [] verdict = "raise" -> "except"
                  [] OTHER -> AfterReject
  /\ UNCHANGED <<asked, answer, manager, kind, back, chain, candidates, ledgers, faults>>

\* _log_escalation()
Escalate ==
  /\ pc = "escalate"
  /\ Write({<<"ESCALATION", wo>>}, "chain")
  /\ UNCHANGED <<asked, answer, manager, turn, ho1m, owed>>

\* _log_chain_complete(), one entry that lists every work order of the turn
ChainComplete ==
  /\ pc = "chain"
  /\ Write({"WO_CHAIN_COMPLETE"} \X chain, "gate")
  /\ UNCHANGED <<asked, answer, manager, turn, ho1m, owed>>

\* _log_quality_gate()
LogGate ==
  /\ pc = "gate"
  /\ Write({<<IF passed THEN "ACCEPT" ELSE "REJECT", wo>>}, "record")
  /\ UNCHANGED <<asked, answer, manager, turn, ho1m, owed>>

\* The turn joins the session: its cost, then its entry.
Record ==
  /\ pc = "record"
  /\ total' = total + Cardinality(chain)
  /\ AddTurn("signals", "except")
  /\ UNCHANGED <<asked, answer, seq, turn, ho1m, owed>>

\* Signals of the turn go to HO3; some of them cross the gate.
Signals ==
  /\ pc = "signals"
  /\ \/ pc' = "consolidate" /\ faults' = faults
        /\ candidates' \in 0..(IF HO3Enabled THEN MaxCandidates ELSE 0)
     \/ /\ HO3Enabled /\ faults < MaxFaults
        /\ faults' = faults + 1 /\ pc' = "except" /\ candidates' = candidates
  /\ UNCHANGED <<asked, answer, manager, kind, back, chain, retries, passed, ledgers>>

\* The except clause: its DEGRADATION entry...
LogDegradation ==
  /\ pc = "except"
  /\ WriteOr({<<"DEGRADATION", asked>>}, "recordDegraded", "degrade")
  /\ UNCHANGED <<asked, answer, manager, turn, ho1m, owed>>

\* Bug: a degraded turn is not recorded.
RecordDegraded_Skipped ==
  /\ pc = "recordDegraded"
  /\ pc' = "return"
  /\ UNCHANGED <<asked, answer, manager, turn, ledgers, faults>>

\* ... and its TURN_RECORDED.
RecordDegraded ==
  /\ pc = "recordDegraded"
  /\ AddTurn("return", "degrade")
  /\ UNCHANGED <<asked, answer, seq, total, turn, ho1m, owed>>

-----------------------------------------------------------------------------
(* process_turn() after handle_turn()                                       *)

\* run_consolidation(): the next candidate, if the gate still lets it through.
Consolidate ==
  /\ pc = "consolidate"
  /\ \/ candidates = 0 /\ pc' = "return" /\ UNCHANGED <<kind, candidates>>
     \/ /\ candidates > 0
        /\ candidates' = candidates - 1
        /\ kind' = "consolidate"
        /\ pc' \in {"consolidate", "plan"}
  /\ UNCHANGED <<asked, answer, manager, back, chain, retries, passed, ledgers, faults>>

\* The overlay goes to HO3; what raises here is swallowed by process_turn().
Overlay ==
  /\ pc = "overlay"
  /\ \/ pc' = "consolidate" /\ faults' = faults
     \/ faults < MaxFaults /\ faults' = faults + 1 /\ pc' = "return"
  /\ UNCHANGED <<asked, answer, manager, turn, ledgers>>

\* handle_turn() has returned a result, whatever is in it.
Return ==
  /\ pc = "return"
  /\ pc' = "ready"
  /\ answer' = "success"
  /\ UNCHANGED <<asked, manager, turn, ledgers, faults>>

\* handle_turn() has raised: _degrade() asks the gateway, which may raise too.
Degrade ==
  /\ pc = "degrade"
  /\ pc' = "ready"
  /\ \/ answer' = "degraded" /\ faults' = faults
     \/ faults < MaxFaults /\ faults' = faults + 1 /\ answer' = "error"
  /\ UNCHANGED <<asked, manager, turn, ledgers>>

Work ==
  \/ Plan \/ Dispatch \/ ExecuteReturns \/ ExecuteRaises \/ Context \/ Verify \/ Escalate
  \/ ChainComplete \/ LogGate \/ Record \/ Signals \/ LogDegradation \/ RecordDegraded
  \/ Consolidate \/ Overlay \/ Return \/ Degrade

Next == StartSession \/ Ask \/ Work \/ EndSession \/ Quit

Spec == Init /\ [][Next]_vars

\* A turn runs to its end in one thread: HO1's loop, the provider's timeout and
\* the retries of the gateway are all bounded.  Tools are taken to return: the
\* shell tool has a timeout, gate_check (admin/main.py:124) has none.
FairSpec == Spec /\ WF_vars(Work)

-----------------------------------------------------------------------------
(* Properties                                                               *)

Events == {"SESSION_START", "WO_PLANNED", "WO_DISPATCHED", "ESCALATION", "WO_CHAIN_COMPLETE",
           "ACCEPT", "REJECT", "DEGRADATION", "TURN_RECORDED", "SESSION_END"}

\* Types: retries, candidates and faults within their limits, only work orders
\* that have been numbered in the chain and in HO1m.
TypeOK ==
  /\ pc \in {"new", "ready", "gone", "over", "plan", "dispatch", "execute", "context", "verify", "escalate",
             "chain", "gate", "record", "signals", "except", "recordDegraded", "consolidate",
             "overlay", "return", "degrade"}
  /\ asked \in 0..MaxTurns
  /\ answer \in {"none", "success", "degraded", "error"}
  /\ seq \in Nat /\ history \in Seq(Nat) /\ total \in Nat
  /\ kind \in {"classify", "synthesize", "consolidate"}
  /\ back \in {"none", "completed", "failed"}
  /\ chain \subseteq 1..seq
  /\ retries \in 0..MaxRetries
  /\ passed \in BOOLEAN
  /\ candidates \in 0..MaxCandidates
  /\ ho2m \subseteq Events \X Nat
  /\ kept \in Seq(SUBSET (Events \X Nat))
  /\ ho1m \subseteq Ends \X (1..seq)
  /\ owed \subseteq Ends \X (1..seq)
  /\ faults \in 0..MaxFaults

\* HO1 never works on a work order whose plan and dispatch are not in HO2m: the
\* trace of HO1 always has its order, whatever writes raise.
DispatchedFirst ==
  \A e \in ho1m : <<"WO_PLANNED", e[2]>> \in ho2m /\ <<"WO_DISPATCHED", e[2]>> \in ho2m

\* "All N WOs completed": a WO_CHAIN_COMPLETE entry lists only work orders with
\* a terminal entry in HO1m, so that its trace hash covers their whole trace.
ChainsClosed ==
  \A w \in 1..seq : <<"WO_CHAIN_COMPLETE", w>> \in ho2m => \E end \in Ends : <<end, w>> \in ho1m

\* The quality gate accepts only work orders that HO1m knows as completed.
AcceptedCompleted ==
  \A w \in 1..seq : <<"ACCEPT", w>> \in ho2m => <<"WO_COMPLETED", w>> \in ho1m

\* HO1 is never given a work order it has had before, retries and failed turns
\* included.
NeverTwice == pc = "execute" => \A e \in ho1m : e[2] # wo

\* The turns that HO2m records, and the counts of a summary in it
Recorded == {n \in 1..Len(history) : <<"TURN_RECORDED", n>> \in ho2m}
Told == {n \in 0..Len(history) : <<"SESSION_END", n>> \in ho2m}

\* Turns reach HO2m in the order they were counted in, none before those it
\* follows, although writes raise and lines land later, or twice.
NoGap == \E k \in 0..Len(history) : Recorded = 1..k

\* A turn that HO2 answers is in HO2m before the user sees the answer, through
\* every path of handle_turn().
AnswerRecorded ==
  pc = "ready" /\ answer = "success" => \E n \in Recorded : history[n] = asked

\* The session as its user sees it
Phase ==
  CASE pc = "new" -> "closed" [] pc = "ready" -> "open" [] pc \in {"gone", "over"} -> "over"
    [] OTHER -> "busy"

Promise ==
  INSTANCE Conversation WITH phase <- Phase, noted <- history,
                             recorded <- Recorded, told <- Told

\* Whatever happens inside a turn, the session does what SessionHostV2 and the
\* session manager promise: one message at a time is answered, none is counted
\* more than twice, HO2 answers none that is not recorded, turns are recorded in
\* order, later or never, and the summary is the last word and has them all.
ImplementsConversation == Promise!Spec

\* A summary that is in HO2m counts every turn, misses none there and counts no
\* work order twice: whatever a failed flush kept stands before it.
SummaryHolds ==
  \A e \in ho2m : e[1] = "SESSION_END" =>
    /\ e[2] = Len(history) /\ Recorded = 1..e[2]
    /\ total <= Cardinality({end[2] : end \in ho1m})

\* Every message is answered, through retries, degradation and consolidation, as
\* long as the provider times out and the tools return.
TurnReturns == (pc = "plan") ~> (pc = "ready")
=============================================================================
