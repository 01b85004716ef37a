-------------------------------- MODULE Context --------------------------------
(***************************************************************************)
(* What a turn of HO2 knows: the intents of its session, the work orders   *)
(* still open, and what earlier sessions have left in the memory.          *)
(* PKG-HO2-SUPERVISOR-001/HO2/kernel: intent_resolver.py, liveness.py,     *)
(* overlay_writer.py, context_projector.py, attention.py, bias_selector.py *)
(* and the steps of ho2_supervisor.py that use them.                       *)
(*                                                                         *)
(* The work order chain itself is HO2Supervisor's: here a work order is    *)
(* the entries it leaves.  Each session is a process with its own          *)
(* supervisor; sessions share the memory and nothing else, and the entries *)
(* of one session are told from the others' by their session id.           *)
(***************************************************************************)
EXTENDS HO3Memory

CONSTANTS
  MaxRetries,    \* HO2Config.max_retries
  BiasBudget,    \* ho3_bias_budget, in context lines
  SectionBudget, \* budget of a section of the projection, in lines
  ScanBudget,    \* attention_budget_tokens, in entries
  Enforce,       \* projection_mode is "enforce"
  MaxTurns,      \* bound: turns of all sessions
  MaxCalls,      \* bound: turns and calls by hand together
  MaxFaults      \* bound: writes that raise, work orders that fail or are rejected

ASSUME ContextAssumption ==
  /\ MaxRetries \in Nat /\ BiasBudget \in Nat
  /\ SectionBudget \in Nat \ {0} /\ ScanBudget \in Nat
  /\ Enforce \in BOOLEAN /\ MaxTurns \in Nat /\ MaxCalls \in Nat /\ MaxFaults \in Nat

VARIABLES
  pc,          \* what each session does next
  turns,       \* turns it has begun
  said,        \* the turn: its turn_event_ts, the action of its intent signal, its label
  cache,       \* _active_intents
  sequence,    \* _intent_sequence
  events,      \* its lifecycle entries in HO2m and HO1m: <<event, number>>
  shown,       \* its last PROJECTION_COMPUTED entry
  context,     \* lines of the contexts assembled for the synthesis, by section
  injected,    \* overlays given with it: positions in overlays
  tries,       \* retry_count
  candidates,  \* consolidation_candidates
  job,         \* the consolidation at hand
  faults       \* writes that have raised, work orders that failed or were rejected

turn == <<turns, said, tries>>
intents == <<cache, sequence>>
prompt == <<shown, context, injected>>
learning == <<candidates, job>>
vars == <<memory, pc, turn, intents, events, prompt, learning, faults>>

IntentEvents == {"INTENT_DECLARED", "INTENT_SUPERSEDED", "INTENT_CLOSED"}
WOEvents == {"WO_PLANNED", "WO_DISPATCHED", "WO_COMPLETED", "ESCALATION"}
Ends == {"WO_COMPLETED", "WO_FAILED"}

\* What the classification may ask for.  An unclear or missing intent signal is
\* taken as "continue"; the conflict flag it raises is read by nobody.
Actions == {"new", "continue", "close"}

\* What nothing will read again is forgotten.
NoTurn == [asof |-> 0, action |-> "continue", tag |-> NoTag]
NoJob == [signal |-> NoSignal, cites |-> 0, seen |-> 0]

ContextInit ==
  /\ MemoryInit
  /\ pc = [s \in Sessions |-> "idle"]
  /\ turns = [s \in Sessions |-> 0]
  /\ said = [s \in Sessions |-> NoTurn]
  /\ cache = [s \in Sessions |-> {}]
  /\ sequence = [s \in Sessions |-> 0]
  /\ events = [s \in Sessions |-> << >>]
  /\ shown = [s \in Sessions |-> [intents |-> {}, open |-> {}, failed |-> {}]]
  /\ context = [s \in Sessions |-> << >>]
  /\ injected = [s \in Sessions |-> {}]
  /\ tries = [s \in Sessions |-> 0]
  /\ candidates = [s \in Sessions |-> {}]
  /\ job = [s \in Sessions |-> NoJob]
  /\ faults = 0

Go(s, step) == pc' = [pc EXCEPT ![s] = step]

-----------------------------------------------------------------------------
(* reduce_liveness()                                                        *)

\* The last event of K with that number decides; sorting by time is the order
\* of writing.
Latest(s, n, K) ==
  LET I == {i \in DOMAIN events[s] : events[s][i][2] = n /\ events[s][i][1] \in K}
  IN  IF I = {} THEN "none" ELSE events[s][Max(I)][1]

Numbers(s) == {events[s][i][2] : i \in DOMAIN events[s]}

Live(s) == {n \in Numbers(s) : Latest(s, n, IntentEvents) = "INTENT_DECLARED"}

\* WO_FAILED is not among the events looked at.
Open(s) == {n \in Numbers(s) : Latest(s, n, WOEvents) \in {"WO_PLANNED", "WO_DISPATCHED"}}
Failed(s) == {n \in Numbers(s) : Latest(s, n, WOEvents) = "ESCALATION"}

\* What write_projection() writes
Snapshot(s) == [intents |-> Live(s), open |-> Open(s), failed |-> Failed(s)]

-----------------------------------------------------------------------------
(* The turn: classification and intent                                      *)

\* Number of the next work order of s
NextWO(s) == 1 + Cardinality({i \in DOMAIN events[s] : events[s][i][1] = "WO_PLANNED"})

\* The entries of a work order that HO1 has brought to an end
Ran(s, end) ==
  LET n == NextWO(s) IN <<<<"WO_PLANNED", n>>, <<"WO_DISPATCHED", n>>, <<end, n>>>>

Log(s, entries) == events' = [events EXCEPT ![s] = @ \o entries]

\* How HO1 may end a work order
EndsWith(end) ==
  \/ end = "WO_COMPLETED" /\ faults' = faults
  \/ end = "WO_FAILED" /\ faults < MaxFaults /\ faults' = faults + 1

\* Every turn begun, numbered within its session
AllTurns == Cardinality({begun \in Sessions \X (1..MaxTurns) : begun[2] <= turns[begun[1]]})

\* handle_turn() begins: a classification that fails has no intent signal and
\* no labels.
Classify(s) ==
  /\ pc[s] = "idle"
  /\ AllTurns < MaxTurns /\ AllTurns + edits < MaxCalls
  /\ turns' = [turns EXCEPT ![s] = @ + 1]
  /\ \E end \in Ends, action \in Actions, tag \in Tags \union {NoTag} :
       /\ EndsWith(end)
       /\ end = "WO_FAILED" => action = "continue" /\ tag = NoTag
       /\ said' = [said EXCEPT ![s] = [asof |-> now, action |-> action, tag |-> tag]]
       /\ Log(s, Ran(s, end))
  /\ Go(s, "intent")
  /\ UNCHANGED <<memory, tries, intents, prompt, learning>>

\* resolve_intent_transition()
Decision(s) ==
  LET action == said[s].action
  IN  CASE Cardinality(cache[s]) >= 2 -> "continue"
        [] cache[s] = {} -> IF action = "close" THEN "noop" ELSE "declare"
        [] OTHER -> IF action = "new" THEN "supersede"
                    ELSE IF action = "close" THEN "close" ELSE "continue"

KeepIntent(s) ==
  /\ pc[s] = "intent"
  /\ Decision(s) \in {"noop", "continue"}
  /\ Go(s, "assemble")
  /\ UNCHANGED <<memory, turn, intents, events, prompt, learning, faults>>

\* A write of entries, and what follows it; when it raises the entries may be
\* there, the turn is over and nothing of what follows happens.
WriteThen(s, entries, step, Follows, Stays) ==
  \/ Log(s, entries) /\ Go(s, step) /\ Follows /\ UNCHANGED <<said, faults>>
  \/ /\ faults < MaxFaults
     /\ faults' = faults + 1
     /\ Log(s, entries) \/ Log(s, << >>)
     /\ Go(s, "idle")
     /\ said' = [said EXCEPT ![s] = NoTurn]
     /\ Stays

\* The first half of _apply_intent_decision(): the active intent ends.
EndIntent(s) ==
  /\ pc[s] = "intent"
  /\ Decision(s) \in {"supersede", "close"}
  /\ \E n \in cache[s] :
       LET event == IF Decision(s) = "close" THEN "INTENT_CLOSED" ELSE "INTENT_SUPERSEDED"
       IN  WriteThen(s, <<<<event, n>>>>,
                     IF Decision(s) = "close" THEN "assemble" ELSE "declare",
                     cache' = [cache EXCEPT ![s] = @ \ {n}], cache' = cache)
  /\ UNCHANGED <<memory, turns, tries, sequence, prompt, learning>>

\* Bug: the number is taken before the intent is in the ledger.
DeclareIntent_NumberFirst(s) ==
  LET n == sequence[s] + 1
  IN  /\ pc[s] = "declare" \/ (pc[s] = "intent" /\ Decision(s) = "declare")
      /\ sequence' = [sequence EXCEPT ![s] = n]
      /\ WriteThen(s, <<<<"INTENT_DECLARED", n>>>>, "assemble",
                   cache' = [cache EXCEPT ![s] = @ \union {n}], cache' = cache)
      /\ UNCHANGED <<memory, turns, tries, prompt, learning>>

\* Bug: the number of the new intent is not used up.
DeclareIntent_SameNumber(s) ==
  LET n == sequence[s] + 1
  IN  /\ pc[s] = "declare" \/ (pc[s] = "intent" /\ Decision(s) = "declare")
      /\ WriteThen(s, <<<<"INTENT_DECLARED", n>>>>, "assemble",
                   cache' = [cache EXCEPT ![s] = @ \union {n}], cache' = cache)
      /\ UNCHANGED <<memory, turns, tries, sequence, prompt, learning>>

\* The second half: the new intent is known, and its number used up, only once
\* its entry is written.
DeclareIntent(s) ==
  LET n == sequence[s] + 1
  IN  /\ pc[s] = "declare" \/ (pc[s] = "intent" /\ Decision(s) = "declare")
      /\ WriteThen(s, <<<<"INTENT_DECLARED", n>>>>, "assemble",
                   /\ cache' = [cache EXCEPT ![s] = @ \union {n}]
                   /\ sequence' = [sequence EXCEPT ![s] = n],
                   UNCHANGED intents)
      /\ UNCHANGED <<memory, turns, tries, prompt, learning>>

-----------------------------------------------------------------------------
(* The turn: its context                                                    *)

Least(a, b) == IF a < b THEN a ELSE b

\* ContextProjector.project(): sections in this order, each a heading and its
\* lines, each cut at the budget of its section and all at the whole budget.
\* A line is a token here; the first intent alone is shown, on three lines.
Projection(live, biases) ==
  LET whole == 2 * SectionBudget
      Cut(lines, room) == Least(lines, Least(SectionBudget, room))
      first == Cut(IF live.intents = {} THEN 2 ELSE 4, whole)
      second == Cut(1 + Max({1, Cardinality(live.failed)}), whole - first)
      third == Cut(1 + Max({1, Cardinality(live.open)}), whole - first - second)
      fourth == Cut(1 + Max({1, Cardinality(biases)}), whole - first - second - third)
  IN  <<first, second, third, fourth>>

\* AttentionRetriever, an entry being a token: the last entries of the session,
\* 20 of HO2m and 10 of HO1m, ...
Recent(s) ==
  LET inHO1 == Cardinality({i \in DOMAIN events[s] : events[s][i][1] \in Ends})
  IN  Least(20, Len(events[s]) - inHO1) + Least(10, inHO1)

\* ... taken by horizontal_scan() until it finds that it has gone over the
\* budget, and cut back to the budget by assemble_wo_context().
WithinScan(n) == Least(n, ScanBudget + 1)
Scanned(s) == WithinScan(Recent(s))

Attention(s) == <<Least(Scanned(s), ScanBudget)>>

\* Is the overlay at i for a turn with this label?  One without labels is for
\* turns without labels.
InScope(i, tag) == overlays[i].tag \in {Global, tag}

HasLine(i) == overlays[i].line

\* select_biases(): going down a ranking, what still fits is taken.  Over all
\* the rankings there are, this takes the selections to which nothing more fits.
Selections(eligible) ==
  {chosen \in SUBSET eligible :
     /\ Cardinality(chosen) <= BiasBudget
     /\ chosen # eligible => Cardinality(chosen) = BiasBudget}

Eligible(s) ==
  {i \in ActiveBiases(said[s].asof) : InScope(i, said[s].tag) /\ HasLine(i)}

\* Liveness, write_projection() and the context of the synthesis.  When the
\* projection is only shadowed, attention's context is the one that is given and
\* the projected one is compared with it.
Assemble(s) ==
  /\ pc[s] = "assemble"
  /\ \/ /\ shown' = [shown EXCEPT ![s] = Snapshot(s)]
        /\ \E chosen \in Selections(Eligible(s)) :
             /\ injected' = [injected EXCEPT ![s] = chosen]
             /\ context' = [context EXCEPT ![s] =
                  (IF Enforce THEN << >> ELSE Attention(s)) \o Projection(Snapshot(s), chosen)]
        /\ Go(s, "synthesize")
        /\ faults' = faults
     \/ /\ faults < MaxFaults
        /\ faults' = faults + 1
        /\ shown' \in {shown, [shown EXCEPT ![s] = Snapshot(s)]}
        /\ Go(s, "idle")
        /\ UNCHANGED <<context, injected>>
  /\ said' = [said EXCEPT ![s] = NoTurn]
  /\ UNCHANGED <<memory, turns, tries, intents, events, learning>>

-----------------------------------------------------------------------------
(* The turn: synthesis, signals and consolidation                           *)

Leave(s) ==
  /\ Go(s, "signals")
  /\ tries' = [tries EXCEPT ![s] = 0]
  /\ context' = [context EXCEPT ![s] = << >>]
  /\ injected' = [injected EXCEPT ![s] = {}]

\* One synthesis.  Only a completed work order is accepted.
Accept(s) ==
  /\ Log(s, Ran(s, "WO_COMPLETED"))
  /\ Leave(s)
  /\ faults' = faults

\* One that fails or is rejected is asked for again.
Retry(s) ==
  /\ tries[s] < MaxRetries
  /\ tries' = [tries EXCEPT ![s] = @ + 1]
  /\ faults < MaxFaults
  /\ faults' = faults + 1
  /\ \E end \in Ends : Log(s, Ran(s, end))
  /\ UNCHANGED <<pc, context, injected>>

\* After the last retry the rejected work order is escalated.
Escalate(s) ==
  /\ tries[s] = MaxRetries
  /\ \E end \in Ends :
       EndsWith(end) /\ Log(s, Append(Ran(s, end), <<"ESCALATION", NextWO(s)>>))
  /\ Leave(s)

Synthesize(s) ==
  /\ pc[s] = "synthesize"
  /\ Accept(s) \/ Retry(s) \/ Escalate(s)
  /\ UNCHANGED <<memory, turns, said, intents, shown, learning>>

\* The signals of a turn, one at least for its outcome, and the gate of each.
GiveSignals(s) ==
  /\ pc[s] = "signals"
  /\ UNCHANGED <<now, overlays, edits, turn, intents, events, prompt, job>>
  /\ \E S \in SUBSET Signals \ {{}} :
       /\ LogSignals(s, S)
       /\ \/ /\ candidates' = [candidates EXCEPT ![s] = {g \in S : Crossed(g)'}]
             /\ faults' = faults
          \/ /\ faults < MaxFaults
             /\ faults' = faults + 1
             /\ candidates' = candidates
  /\ Go(s, IF candidates'[s] = {} THEN "idle" ELSE "consolidate")

Rest(s, g) == candidates' = [candidates EXCEPT ![s] = @ \ {g}]

\* Bug: the gate that was open after the turn is taken to be open still.
Consolidate_Trusting(s, g) ==
  /\ pc[s] = "consolidate"
  /\ g \in candidates[s]
  /\ Rest(s, g)
  /\ job' = [job EXCEPT ![s] = [signal |-> g, cites |-> Count(g), seen |-> Len(overlays)]]
  /\ Log(s, <<<<"WO_PLANNED", NextWO(s)>>, <<"WO_DISPATCHED", NextWO(s)>>>>)
  /\ Go(s, "overlay")
  /\ UNCHANGED <<memory, turn, intents, prompt, faults>>

\* run_consolidation(): one candidate.  The gate is checked again before the
\* work order goes to HO1 with the events of the signal.
Consolidate(s, g) ==
  /\ pc[s] = "consolidate"
  /\ g \in candidates[s]
  /\ Rest(s, g)
  /\ IF Crossed(g)
     THEN /\ job' = [job EXCEPT ![s] =
                       [signal |-> g, cites |-> Count(g), seen |-> Len(overlays)]]
          /\ Log(s, <<<<"WO_PLANNED", NextWO(s)>>, <<"WO_DISPATCHED", NextWO(s)>>>>)
          /\ Go(s, "overlay")
     ELSE /\ Go(s, IF candidates'[s] = {} THEN "idle" ELSE "consolidate")
          /\ UNCHANGED <<job, events>>
  /\ UNCHANGED <<memory, turn, intents, prompt, faults>>

\* The answer of HO1.  It has what the contract requires; the field "bias" that
\* becomes the line of the overlay is not among that, but may come as well.
WriteOverlay(s) ==
  /\ pc[s] = "overlay"
  /\ job' = [job EXCEPT ![s] = NoJob]
  /\ \E end \in Ends, bias \in BOOLEAN :
       /\ EndsWith(end)
       /\ Log(s, <<<<end, NextWO(s) - 1>>>>)
       /\ IF end = "WO_COMPLETED"
          THEN LogOverlay([Blank EXCEPT !.signal = job[s].signal, !.weight = 1, !.line = bias,
                                        !.cites = job[s].cites, !.seen = job[s].seen])
          ELSE ~bias /\ UNCHANGED overlays
  /\ Go(s, IF candidates[s] = {} THEN "idle" ELSE "consolidate")
  /\ UNCHANGED <<now, heard, edits, turn, intents, prompt, candidates>>

Step(s) ==
  \/ Classify(s)
  \/ KeepIntent(s)
  \/ EndIntent(s)
  \/ DeclareIntent(s)
  \/ Assemble(s)
  \/ Synthesize(s)
  \/ GiveSignals(s)
  \/ \E g \in Signals : Consolidate(s, g)
  \/ WriteOverlay(s)

\* Calls by hand change what only Assemble reads: it is enough to let them in
\* between turns and before one reads the memory.
Outside ==
  /\ \/ Tick
     \/ /\ AllTurns + edits < MaxCalls
        /\ \A s \in Sessions : pc[s] \in {"idle", "assemble"}
        /\ Curate
  /\ UNCHANGED <<pc, turn, intents, events, prompt, learning, faults>>

ContextNext == Outside \/ \E s \in Sessions : Step(s)

Spec == ContextInit /\ [][ContextNext]_vars

-----------------------------------------------------------------------------
(* Properties                                                               *)

\* Types: a session numbers at most one intent a turn, its snapshot shows numbers of
\* its own entries, and the overlays it is given are in the memory.
TypeOK ==
  /\ now \in Times /\ edits \in 0..MaxEdits /\ faults \in 0..MaxFaults
  /\ heard \in [Signals -> Seq(Sessions)]
  /\ overlays \in Seq(Entries)
  /\ \A s \in Sessions :
       /\ pc[s] \in {"idle", "intent", "declare", "assemble", "synthesize", "signals",
                     "consolidate", "overlay"}
       /\ turns[s] \in 0..MaxTurns /\ tries[s] \in 0..MaxRetries
       /\ said[s] \in [asof : 0..now, action : Actions, tag : Tags \union {NoTag}]
       /\ sequence[s] \in 0..turns[s] /\ cache[s] \subseteq 1..sequence[s]
       /\ events[s] \in Seq((IntentEvents \union WOEvents \union Ends) \X (Nat \ {0}))
       /\ \A k \in DOMAIN shown[s] : shown[s][k] \subseteq Numbers(s)
       /\ context[s] \in Seq(Nat)
       /\ injected[s] \subseteq DOMAIN overlays
       /\ candidates[s] \subseteq Signals
       /\ job[s] \in [signal : Signals \union {NoSignal}, cites : Nat, seen : Nat]

\* Whatever the writes of a session do, its entries never tell of two live
\* intents, and the one they tell of is the one the supervisor holds or, when
\* it holds none, the one whose number it will use again (a declaration that
\* was written and raised).
OneIntent ==
  \A s \in Sessions :
    LET live == Live(s)
    IN  /\ Cardinality(live) <= 1
        /\ live \subseteq cache[s] \union {sequence[s] + 1}
        /\ sequence[s] + 1 \in live => cache[s] = {}

\* Entries that consolidations have written
Learned == {i \in DOMAIN overlays : overlays[i].signal # NoSignal}

\* The events an overlay cites are there, enough of them and from enough sessions.
Grounded(e) ==
  /\ e.cites \in CountThreshold..Count(e.signal)
  /\ Cardinality(ToSet(SubSeq(heard[e.signal], 1, e.cites))) >= SessionThreshold

\* Every overlay learned from a signal rests on events of that signal, enough
\* of them and from enough sessions, and a consolidation that could see the
\* overlay of an earlier one does not repeat it within the window.
ConsolidatedOnce ==
  \A j \in Learned :
    /\ Grounded(overlays[j])
    /\ \A i \in Learned :
         /\ i < j
         /\ overlays[i].signal = overlays[j].signal
         /\ overlays[j].end - overlays[i].end <= Window
         => i > overlays[j].seen

\* Session s is given its prompt in this step.
Assembled(s) == pc[s] = "assemble" /\ pc'[s] = "synthesize"

\* The last entry of the artifact of overlay i is no deactivation and has weight,
\* and none of its entries has expired at time t.
InForce(i, t) ==
  LET own == {j \in DOMAIN overlays :
                overlays[j].artifact = overlays[i].artifact /\ overlays[j].artifact # NoArtifact}
  IN  own # {} =>
        /\ overlays[Max(own)].event # "HO3_OVERLAY_DEACTIVATED"
        /\ overlays[Max(own)].weight > 0
        /\ \A j \in own : overlays[j].expires = Never \/ t < overlays[j].expires

\* What a turn is given of the memory is within the budget, meant for turns
\* like it, and in force at the time of the turn: nothing whose last word is
\* that it has been withdrawn, has no weight left, or has expired.
InjectedInForce ==
  [][\A s \in Sessions :
       Assembled(s) =>
         /\ Cardinality(injected'[s]) <= BiasBudget
         /\ \A i \in injected'[s] :
              InForce(i, said[s].asof) /\ overlays[i].tag \in {said[s].tag, Global}]_vars

\* What the agent has learned is given to a later turn that has room for it
\* and no labels that would single it out.
LearnedShown ==
  [][\A s \in Sessions :
       Assembled(s) /\ said[s].tag = NoTag /\ Learned # {} /\ BiasBudget > 0
         => injected'[s] # {}]_vars

=============================================================================
