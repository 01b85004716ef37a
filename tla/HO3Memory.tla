------------------------------- MODULE HO3Memory -------------------------------
(***************************************************************************)
(* The memory of the agent across sessions:                                *)
(* PKG-HO3-MEMORY-001/HOT/kernel/ho3_memory.py.  Two append-only files,    *)
(* signals.jsonl and overlays.jsonl, shared by every session of a plane;   *)
(* nothing is stored but their entries and every answer is computed from   *)
(* them when it is asked for.                                              *)
(*                                                                         *)
(* Timestamps come from one clock that does not go back: entries sorted by *)
(* time are entries in the order of the file.  The decay of a signal is    *)
(* computed and read by nobody, and is left out.                           *)
(***************************************************************************)
EXTENDS Integers, Sequences, SequencesExt, FiniteSets, FiniteSetsExt

CONSTANTS
  Sessions,          \* sessions over the life of the plane
  Signals,           \* signal ids that a turn may give
  Artifacts,         \* artifact ids of overlays written by hand
  Tags,              \* labels of turns and artifacts
  NoArtifact, NoSignal, NoTag, Global, Never,
  CountThreshold,    \* gate_count_threshold
  SessionThreshold,  \* gate_session_threshold
  Window,            \* gate_window_hours
  MaxTime,           \* bound: ticks of the clock
  MaxEdits           \* bound: calls made by hand

ASSUME MemoryAssumption ==
  /\ IsFiniteSet(Sessions) /\ IsFiniteSet(Signals)
  /\ CountThreshold \in Nat \ {0} /\ SessionThreshold \in Nat
  /\ Window \in Nat /\ MaxTime \in Nat /\ MaxEdits \in Nat
  /\ NoArtifact \notin Artifacts /\ NoSignal \notin Signals /\ {NoTag, Global} \cap Tags = {}

VARIABLES
  now,       \* the clock
  heard,     \* signals.jsonl: for each signal the sessions of its events
  overlays,  \* overlays.jsonl
  edits      \* calls made by hand so far

memory == <<now, heard, overlays, edits>>

Kinds == {"HO3_OVERLAY", "HO3_OVERLAY_DEACTIVATED", "HO3_OVERLAY_WEIGHT_UPDATED"}
Weights == 0..1
Times == 0..MaxTime

\* "cites" is source_event_ids: that many events of the signal.  "seen" is not
\* in the file: the entries there were when the gate of the overlay was checked.
Entries ==
  [event : Kinds, artifact : Artifacts \union {NoArtifact}, signal : Signals \union {NoSignal},
   weight : Weights, tag : Tags \union {NoTag, Global}, expires : Times \union {Never},
   line : BOOLEAN, end : Times, cites : Nat, seen : Nat]

Blank ==
  [event |-> "HO3_OVERLAY", artifact |-> NoArtifact, signal |-> NoSignal, weight |-> 0,
   tag |-> NoTag, expires |-> Never, line |-> FALSE, end |-> now, cites |-> 1, seen |-> 0]

MemoryInit ==
  /\ now = 0
  /\ heard = [g \in Signals |-> << >>]
  /\ overlays = << >>
  /\ edits = 0

-----------------------------------------------------------------------------
(* Signals and the gate                                                     *)

\* log_signal(), for each signal of S
LogSignals(s, S) ==
  heard' = [g \in Signals |-> IF g \in S THEN Append(heard[g], s) ELSE heard[g]]

\* read_signals(): the count of a signal and the sessions it came from
Count(g) == Len(heard[g])
From(g) == ToSet(heard[g])

\* read_overlays(), with those that have no weight
OverlaysOf(g) == {i \in DOMAIN overlays : overlays[i].signal = g}

\* _is_consolidated(): an overlay whose window ended in the last Window hours
IsConsolidated(g) == \E i \in OverlaysOf(g) : overlays[i].end \in (now - Window)..now

\* check_gate()
Crossed(g) ==
  /\ Count(g) >= CountThreshold
  /\ Cardinality(From(g)) >= SessionThreshold
  /\ ~IsConsolidated(g)

-----------------------------------------------------------------------------
(* The life of an overlay                                                   *)

\* Position of the last entry of a with an event of K, 0 if there is none
LastOf(a, K) ==
  Max({0} \union {i \in DOMAIN overlays : overlays[i].artifact = a /\ overlays[i].event \in K})

Base(a) == LastOf(a, {"HO3_OVERLAY"})
Found(a) == Base(a) > 0

\* _find_overlay_by_artifact_id(): the last entry of any kind decides
FoundDeactivated(a) ==
  LastOf(a, {"HO3_OVERLAY_DEACTIVATED"}) > LastOf(a, Kinds \ {"HO3_OVERLAY_DEACTIVATED"})

\* log_overlay(): an artifact that is there already is at most reactivated
LogOverlay(entry) ==
  LET a == entry.artifact
  IN  /\ entry.cites > 0
      /\ IF a # NoArtifact /\ Found(a)
         THEN overlays' =
                IF FoundDeactivated(a)
                THEN Append(overlays, [Blank EXCEPT !.event = "HO3_OVERLAY_WEIGHT_UPDATED",
                                                    !.artifact = a, !.weight = entry.weight])
                ELSE overlays
         ELSE overlays' = Append(overlays, entry)

\* update_overlay_weight()
Reweigh(a, w) ==
  /\ Found(a)
  /\ overlays' = Append(overlays, [Blank EXCEPT !.event = "HO3_OVERLAY_WEIGHT_UPDATED",
                                                !.artifact = a, !.weight = w])

\* deactivate_overlay()
Deactivate(a) ==
  /\ Found(a)
  /\ overlays' = Append(overlays, [Blank EXCEPT !.event = "HO3_OVERLAY_DEACTIVATED",
                                                !.artifact = a])

-----------------------------------------------------------------------------
(* read_active_biases()                                                     *)

\* Bug: a weight is an update for good: a later deactivation is not looked at.
Withdrawn_OnceWeighed(a) ==
  /\ LastOf(a, {"HO3_OVERLAY_DEACTIVATED"}) > 0
  /\ LastOf(a, {"HO3_OVERLAY_WEIGHT_UPDATED"}) = 0

\* A weight update brings a deactivated overlay back, a second overlay does not.
Withdrawn(a) ==
  LastOf(a, {"HO3_OVERLAY_DEACTIVATED"}) > LastOf(a, {"HO3_OVERLAY_WEIGHT_UPDATED"})

\* The last weight update counts, else the weight the overlay came with.
WeightOf(i) ==
  LET w == LastOf(overlays[i].artifact, {"HO3_OVERLAY_WEIGHT_UPDATED"})
  IN  IF w > 0 THEN overlays[w].weight ELSE overlays[i].weight

ExpiredAt(i, t) == overlays[i].expires # Never /\ t >= overlays[i].expires

\* Positions of the overlays that a turn of time t may use.  An overlay without
\* an artifact id has no life of its own: it neither expires nor goes away.
ActiveBiases(t) ==
  {i \in DOMAIN overlays :
     LET a == overlays[i].artifact
     IN  /\ overlays[i].event = "HO3_OVERLAY"
         /\ IF a = NoArtifact
            THEN overlays[i].weight > 0
            ELSE i = Base(a) /\ ~Withdrawn(a) /\ ~ExpiredAt(i, t) /\ WeightOf(i) > 0}

-----------------------------------------------------------------------------
(* What happens to the memory from outside a session                        *)

Tick ==
  /\ now < MaxTime
  /\ now' = now + 1
  /\ UNCHANGED <<heard, overlays, edits>>

\* The calls that nothing in the shipped code makes: a tool or an operator
\* makes them, one at a time.
ByHand(a) ==
  \/ \E w \in Weights : Reweigh(a, w)
  \/ Deactivate(a)
  \/ \E tag \in Tags \union {Global}, t \in {MaxTime, Never} :
       LogOverlay([Blank EXCEPT !.artifact = a, !.weight = 1, !.tag = tag,
                                !.expires = t, !.line = TRUE])

Curate ==
  /\ edits < MaxEdits
  /\ edits' = edits + 1
  /\ \E a \in Artifacts : ByHand(a)
  /\ UNCHANGED <<now, heard>>
=============================================================================
