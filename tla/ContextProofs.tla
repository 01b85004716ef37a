---------------------------- MODULE ContextProofs ----------------------------
(***************************************************************************)
(* Proofs about Context, for every number of sessions, signals, artifacts, *)
(* turns, calls by hand and writes that raise: the ledger of a session     *)
(* tells of one live intent at most, a signal is consolidated once in a    *)
(* window, what a turn is given of the memory is in force, and every       *)
(* reachable state is well typed.                                          *)
(***************************************************************************)
EXTENDS Context, SequenceTheorems, FiniteSetTheorems, WellFoundedInduction, TLAPS

Steps == {"idle", "intent", "declare", "assemble", "synthesize", "signals", "consolidate", "overlay"}
EntryNames == IntentEvents \union WOEvents \union Ends
LogType == Seq(EntryNames \X Nat)
SaidType == [asof : Nat, action : Actions, tag : Tags \union {NoTag}]
JobType == [signal : Signals \union {NoSignal}, cites : Nat, seen : Nat]

\* The types the other invariants need.
Typed ==
  /\ now \in Times
  /\ heard \in [Signals -> Seq(Sessions)]
  /\ overlays \in Seq(Entries)
  /\ pc \in [Sessions -> Steps]
  /\ said \in [Sessions -> SaidType]
  /\ cache \in [Sessions -> SUBSET Nat]
  /\ sequence \in [Sessions -> Nat]
  /\ events \in [Sessions -> LogType]
  /\ DOMAIN injected = Sessions
  /\ candidates \in [Sessions -> SUBSET Signals]
  /\ job \in [Sessions -> JobType]

-----------------------------------------------------------------------------
(* Helpers                                                                  *)

\* A set of bounded naturals has its greatest element.
LEMMA Greatest ==
  ASSUME NEW n \in Nat, NEW S \in SUBSET (0..n), S # {}
  PROVE  Max(S) \in S /\ \A y \in S : y <= Max(S)
<1> DEFINE R == OpToRel(<, Nat)
           T == {k \in Nat : n - k \in S}
<1>1. IsWellFoundedOn(R, Nat)
  BY NatLessThanWellFounded
<1>2. T # {}
  <2>1. PICK x \in S : TRUE
    OBVIOUS
  <2>2. n - x \in T
    BY <2>1
  <2>. QED BY <2>2
<1>3. PICK m \in T : \A y \in T : ~ (<<y, m>> \in R)
  <2> HIDE DEF R
  <2>. QED BY <1>1, <1>2, WFMin
<1>4. \A y \in T : ~ (y < m)
  BY <1>3 DEF OpToRel
<1>5. n - m \in S /\ \A y \in S : y <= n - m
  <2>1. ASSUME NEW y \in S PROVE n - y \in T
    OBVIOUS
  <2>. QED BY <1>4, <2>1
<1>. QED BY <1>5 DEF Max

\* Latest() of a log that is not a variable.
Hits(q, n, K) == {i \in DOMAIN q : q[i][2] = n /\ q[i][1] \in K}
LatestIn(q, n, K) == IF Hits(q, n, K) = {} THEN "none" ELSE q[Max(Hits(q, n, K))][1]

LEMMA LatestIsIn == \A s, n, K : Latest(s, n, K) = LatestIn(events[s], n, K)
BY DEF Latest, LatestIn, Hits

\* Entries about something else do not change what the log says last.
LEMMA LatestKept ==
  ASSUME NEW q \in LogType, NEW es \in LogType, NEW n, NEW K,
         \A i \in DOMAIN es : es[i][2] # n \/ es[i][1] \notin K
  PROVE  LatestIn(q \o es, n, K) = LatestIn(q, n, K)
<1>1. /\ DOMAIN (q \o es) = 1..(Len(q) + Len(es)) /\ DOMAIN q = 1..Len(q) /\ DOMAIN es = 1..Len(es)
      /\ Len(q) \in Nat /\ Len(es) \in Nat
      /\ \A i \in 1..Len(q) : (q \o es)[i] = q[i]
      /\ \A i \in (Len(q) + 1)..(Len(q) + Len(es)) : (q \o es)[i] = es[i - Len(q)]
  BY DEF LogType
<1> DEFINE both == q \o es
<1> HIDE DEF both
<1>2. /\ DOMAIN both = 1..(Len(q) + Len(es))
      /\ \A i \in 1..Len(q) : both[i] = q[i]
      /\ \A i \in (Len(q) + 1)..(Len(q) + Len(es)) : both[i] = es[i - Len(q)]
  BY <1>1 DEF both
<1>3. Hits(both, n, K) = Hits(q, n, K)
  <2>1. ASSUME NEW i \in DOMAIN both, i \notin DOMAIN q
        PROVE  i - Len(q) \in DOMAIN es /\ both[i] = es[i - Len(q)]
    BY <1>1, <1>2, <2>1
  <2>2. \A i \in DOMAIN q : i \in DOMAIN both /\ both[i] = q[i]
    BY <1>1, <1>2
  <2>. QED BY <2>1, <2>2 DEF Hits
<1>4. Hits(q, n, K) # {} => both[Max(Hits(q, n, K))] = q[Max(Hits(q, n, K))]
  <2> SUFFICES ASSUME Hits(q, n, K) # {} PROVE both[Max(Hits(q, n, K))] = q[Max(Hits(q, n, K))]
    OBVIOUS
  <2>1. Hits(q, n, K) \in SUBSET (0..Len(q))
    BY <1>1 DEF Hits
  <2>2. Max(Hits(q, n, K)) \in Hits(q, n, K)
    BY <1>1, <2>1, Greatest
  <2>. QED BY <1>1, <1>2, <2>2 DEF Hits
<1>5. LatestIn(both, n, K) = LatestIn(q, n, K)
  BY <1>3, <1>4 DEF LatestIn
<1>. QED BY <1>5 DEF both

\* An entry about it is what the log says last.
LEMMA LatestSet ==
  ASSUME NEW q \in LogType, NEW e \in EntryNames, NEW n \in Nat, NEW K, e \in K
  PROVE  LatestIn(q \o <<<<e, n>>>>, n, K) = e
<1> DEFINE both == q \o <<<<e, n>>>>
<1>1. /\ DOMAIN both = 1..(Len(q) + 1) /\ Len(q) \in Nat /\ both[Len(q) + 1] = <<e, n>>
  BY DEF LogType
<1> HIDE DEF both
<1>2. Len(q) + 1 \in Hits(both, n, K) /\ Hits(both, n, K) \in SUBSET (0..(Len(q) + 1))
  BY <1>1 DEF Hits
<1>3. Max(Hits(both, n, K)) \in 0..(Len(q) + 1) /\ Len(q) + 1 <= Max(Hits(both, n, K))
  BY SMTT(30), <1>1, <1>2, Greatest
<1>4. Max(Hits(both, n, K)) = Len(q) + 1
  BY <1>1, <1>3
<1>5. LatestIn(both, n, K) = e
  BY <1>1, <1>2, <1>4 DEF LatestIn
<1>. QED BY <1>5 DEF both

-----------------------------------------------------------------------------
(* Types                                                                    *)

LEMMA NextIsNumber ==
  ASSUME Typed, NEW s \in Sessions
  PROVE  NextWO(s) \in Nat \ {0}
<1> DEFINE I == {i \in DOMAIN events[s] : events[s][i][1] = "WO_PLANNED"}
<1>1. events[s] \in LogType
  BY DEF Typed
<1>2. I \subseteq 1..Len(events[s]) /\ Len(events[s]) \in Nat
  BY <1>1 DEF LogType
<1>3. IsFiniteSet(1..Len(events[s]))
  BY <1>2, FS_Interval
<1>4. IsFiniteSet(I)
  BY <1>2, <1>3, FS_Subset
<1>5. Cardinality(I) \in Nat
  BY <1>4, FS_CardinalityType
<1>. QED BY <1>5 DEF NextWO

\* The entries of work orders, none of them about an intent.
WOLog == {q \in LogType : \A i \in DOMAIN q : q[i][1] \notin IntentEvents}

LEMMA Entry1 ==
  ASSUME NEW e \in EntryNames, NEW n \in Nat
  PROVE  /\ <<<<e, n>>>> \in LogType
         /\ e \notin IntentEvents => <<<<e, n>>>> \in WOLog
BY DEF LogType, WOLog

LEMMA Join ==
  ASSUME NEW q \in LogType, NEW r \in LogType
  PROVE  /\ q \o r \in LogType
         /\ q \in WOLog /\ r \in WOLog => q \o r \in WOLog
<1>1. q \o r \in LogType
  BY DEF LogType
<1>2. ASSUME q \in WOLog, r \in WOLog, NEW i \in DOMAIN (q \o r)
      PROVE  (q \o r)[i][1] \notin IntentEvents
  <2>1. /\ DOMAIN (q \o r) = 1..(Len(q) + Len(r)) /\ DOMAIN q = 1..Len(q) /\ DOMAIN r = 1..Len(r)
        /\ Len(q) \in Nat /\ Len(r) \in Nat
        /\ i \in 1..Len(q) => (q \o r)[i] = q[i]
        /\ i \in (Len(q) + 1)..(Len(q) + Len(r)) => (q \o r)[i] = r[i - Len(q)]
    BY DEF LogType
  <2>2. CASE i \in 1..Len(q)
    BY <1>2, <2>1, <2>2 DEF WOLog
  <2>3. CASE i \in (Len(q) + 1)..(Len(q) + Len(r))
    <3>1. i - Len(q) \in DOMAIN r
      BY <2>1, <2>3
    <3>. QED BY <1>2, <2>1, <2>3, <3>1 DEF WOLog
  <2>. QED BY <1>2, <2>1, <2>2, <2>3
<1>. QED BY <1>1, <1>2 DEF WOLog

LEMMA Names ==
  /\ {"WO_PLANNED", "WO_DISPATCHED", "WO_COMPLETED", "WO_FAILED", "ESCALATION"} \subseteq EntryNames
  /\ {"WO_PLANNED", "WO_DISPATCHED", "WO_COMPLETED", "WO_FAILED", "ESCALATION"} \cap IntentEvents = {}
  /\ IntentEvents \subseteq EntryNames
  /\ Ends = {"WO_COMPLETED", "WO_FAILED"}
BY DEF EntryNames, IntentEvents, WOEvents, Ends

LEMMA RanType ==
  ASSUME Typed, NEW s \in Sessions, NEW end \in Ends
  PROVE  /\ Ran(s, end) \in WOLog
         /\ Append(Ran(s, end), <<"ESCALATION", NextWO(s)>>) \in WOLog
         /\ <<<<"WO_PLANNED", NextWO(s)>>, <<"WO_DISPATCHED", NextWO(s)>>>> \in WOLog
         /\ <<<<end, NextWO(s) - 1>>>> \in WOLog
<1> DEFINE n == NextWO(s)
           a == <<"WO_PLANNED", n>>
           b == <<"WO_DISPATCHED", n>>
           c == <<end, n>>
           d == <<"ESCALATION", n>>
<1>1. n \in Nat \ {0}
  BY NextIsNumber
<1> HIDE DEF n
<1>2. /\ a \in EntryNames \X Nat /\ b \in EntryNames \X Nat /\ c \in EntryNames \X Nat
      /\ d \in EntryNames \X Nat
      /\ a[1] \notin IntentEvents /\ b[1] \notin IntentEvents /\ c[1] \notin IntentEvents
      /\ d[1] \notin IntentEvents
  BY <1>1, Names
<1>3. <<end, n - 1>> \in EntryNames \X Nat /\ end \notin IntentEvents
  BY <1>1, Names
<1> HIDE DEF a, b, c, d
<1>4. <<a, b, c>> \in WOLog
  BY <1>2 DEF WOLog, LogType
<1>5. Append(<<a, b, c>>, d) \in WOLog
  <2>1. ASSUME NEW q \in WOLog
        PROVE  Append(q, d) \in WOLog
    <3>1. q \in LogType /\ \A i \in DOMAIN q : q[i][1] \notin IntentEvents
      BY <2>1 DEF WOLog
    <3>2. Append(q, d) \in LogType
      BY <1>2, <3>1 DEF LogType
    <3>3. \A i \in DOMAIN Append(q, d) :
            (i \in DOMAIN q /\ Append(q, d)[i] = q[i]) \/ Append(q, d)[i] = d
      BY <1>2, <3>1 DEF LogType
    <3>. QED BY <1>2, <3>1, <3>2, <3>3 DEF WOLog
  <2>. QED BY <1>4, <2>1
<1>6. <<a, b>> \in WOLog
  BY <1>2 DEF WOLog, LogType
<1>7. <<<<end, n - 1>>>> \in WOLog
  BY <1>1, <1>3, Entry1, Names
<1>. QED BY <1>4, <1>5, <1>6, <1>7 DEF a, b, c, d, n, Ran

\* What a step of session s may write: one entry about an intent, or some about
\* work orders, or none.
Wrote(s) ==
  \/ events' = events
  \/ \E q \in WOLog : Log(s, q)
  \/ \E e \in IntentEvents, n \in Nat : Log(s, <<<<e, n>>>>)

LEMMA WroteType ==
  ASSUME Typed, NEW s \in Sessions, Wrote(s)
  PROVE  events' \in [Sessions -> LogType]
<1>1. ASSUME NEW q \in LogType, Log(s, q)
      PROVE  events' \in [Sessions -> LogType]
  BY <1>1, Join DEF Log, Typed
<1>2. \A q \in WOLog : q \in LogType
  BY DEF WOLog
<1>3. \A e \in IntentEvents, n \in Nat : <<<<e, n>>>> \in LogType
  BY Entry1, Names
<1>. QED BY <1>1, <1>2, <1>3 DEF Wrote, Typed

LEMMA EmptyLog == <<>> \in WOLog
BY DEF WOLog, LogType

LEMMA NoTurnType == NoTurn \in SaidType
BY DEF NoTurn, SaidType, Actions

LEMMA InitTyped == ContextInit => Typed
BY MemoryAssumption, ContextAssumption, NoTurnType DEF ContextInit, MemoryInit, Typed, Times, Steps, LogType,
   JobType, NoJob

LEMMA BlankType ==
  ASSUME Typed
  PROVE  Blank \in Entries
BY MemoryAssumption DEF Typed, Blank, Entries, Kinds, Weights

LEMMA LoggedType ==
  ASSUME Typed, NEW entry \in Entries, LogOverlay(entry)
  PROVE  overlays' \in Seq(Entries)
<1>1. ASSUME entry.artifact # NoArtifact
      PROVE  [Blank EXCEPT !.event = "HO3_OVERLAY_WEIGHT_UPDATED",
                           !.artifact = entry.artifact, !.weight = entry.weight] \in Entries
  BY BlankType DEF Entries, Kinds
<1>2. \A e \in Entries : Append(overlays, e) \in Seq(Entries)
  BY DEF Typed
<1>. QED BY <1>1, <1>2 DEF LogOverlay, Typed

LEMMA OutsideTyped ==
  ASSUME Typed, Outside
  PROVE  Typed'
<1>1. CASE Tick /\ UNCHANGED <<pc, turn, intents, events, prompt, learning, faults>>
  BY <1>1, MemoryAssumption DEF Tick, turn, intents, prompt, learning, Typed, Times
<1>2. CASE Curate /\ UNCHANGED <<pc, turn, intents, events, prompt, learning, faults>>
  <2>1. PICK a \in Artifacts : ByHand(a)
    BY <1>2 DEF Curate
  <2>2. \A e \in Entries : Append(overlays, e) \in Seq(Entries)
    BY DEF Typed
  <2>3. ASSUME NEW w \in Weights, Reweigh(a, w)
        PROVE  overlays' \in Seq(Entries)
    <3>1. [Blank EXCEPT !.event = "HO3_OVERLAY_WEIGHT_UPDATED", !.artifact = a, !.weight = w] \in Entries
      BY BlankType DEF Entries, Kinds
    <3>. QED BY <2>2, <2>3, <3>1 DEF Reweigh
  <2>4. ASSUME Deactivate(a)
        PROVE  overlays' \in Seq(Entries)
    <3>1. [Blank EXCEPT !.event = "HO3_OVERLAY_DEACTIVATED", !.artifact = a] \in Entries
      BY BlankType DEF Entries, Kinds
    <3> DEFINE e == [Blank EXCEPT !.event = "HO3_OVERLAY_DEACTIVATED", !.artifact = a]
    <3>2. overlays' = Append(overlays, e)
      BY <2>4 DEF Deactivate
    <3>3. e \in Entries
      BY <3>1
    <3> HIDE DEF e
    <3>. QED BY <2>2, <3>2, <3>3
  <2>5. ASSUME NEW tag \in Tags \union {Global}, NEW t \in {MaxTime, Never},
               LogOverlay([Blank EXCEPT !.artifact = a, !.weight = 1, !.tag = tag,
                                        !.expires = t, !.line = TRUE])
        PROVE  overlays' \in Seq(Entries)
    <3>1. [Blank EXCEPT !.artifact = a, !.weight = 1, !.tag = tag, !.expires = t, !.line = TRUE] \in Entries
      <4>1. t \in Times \union {Never} /\ 1 \in Weights /\ tag \in Tags \union {NoTag, Global}
        BY MemoryAssumption DEF Times, Weights
      <4>2. Blank \in Entries
        BY BlankType
      <4>. QED BY <4>1, <4>2 DEF Entries
    <3>. QED BY <2>5, <3>1, LoggedType
  <2>6. overlays' \in Seq(Entries)
    <3>1. CASE \E w \in Weights : Reweigh(a, w)
      BY <2>3, <3>1, Zenon
    <3>2. CASE \E tag \in Tags \union {Global}, t \in {MaxTime, Never} :
                 LogOverlay([Blank EXCEPT !.artifact = a, !.weight = 1, !.tag = tag,
                                          !.expires = t, !.line = TRUE])
      BY <2>5, <3>2, Zenon
    <3>. QED BY <2>1, <2>4, <3>1, <3>2, Zenon DEF ByHand
  <2>. QED BY <1>2, <2>6 DEF Curate, turn, intents, prompt, learning, Typed
<1>. QED BY <1>1, <1>2 DEF Outside

LEMMA WriteThenWrites ==
  ASSUME NEW s \in Sessions, NEW es \in LogType, NEW step \in Steps, NEW P, NEW Q,
         WriteThen(s, es, step, P, Q), Typed
  PROVE  /\ Log(s, es) \/ Log(s, <<>>)
         /\ pc' \in [Sessions -> Steps] /\ \A r \in Sessions \ {s} : pc'[r] = pc[r]
         /\ pc'[s] \in {step, "idle"}
         /\ said' \in [Sessions -> SaidType]
         /\ \/ Log(s, es) /\ P /\ pc'[s] = step
            \/ Q /\ pc'[s] = "idle"
BY ZenonT(30), NoTurnType DEF WriteThen, Go, Typed, Steps

\* What each step of a session changes.
LEMMA StepTyped ==
  ASSUME Typed, NEW s \in Sessions, Step(s)
  PROVE  /\ Typed' /\ Wrote(s)
         /\ \A r \in Sessions \ {s} : pc'[r] = pc[r]
<1>0. \A e \in IntentEvents, n \in Nat : <<<<e, n>>>> \in LogType
  BY Entry1, Names
<1>a. Log(s, <<>>) => Wrote(s)
  BY EmptyLog DEF Wrote
<1>b. Wrote(s) => events' \in [Sessions -> LogType]
  BY WroteType
<1>1. CASE Classify(s)
  <2>1. PICK end \in Ends : Log(s, Ran(s, end))
    BY <1>1 DEF Classify
  <2>2. Wrote(s)
    BY <2>1, RanType DEF Wrote
  <2>3. said' \in [Sessions -> SaidType]
    <3>1. now \in Nat
      BY MemoryAssumption DEF Typed, Times
    <3>2. PICK action \in Actions, tag \in Tags \union {NoTag} :
            said' = [said EXCEPT ![s] = [asof |-> now, action |-> action, tag |-> tag]]
      BY <1>1 DEF Classify
    <3>3. [asof |-> now, action |-> action, tag |-> tag] \in SaidType
      BY <3>1 DEF SaidType
    <3>. QED BY <3>2, <3>3 DEF Typed
  <2>. QED BY <1>1, <1>b, <2>2, <2>3 DEF Classify, Go, memory, intents, prompt, learning, Typed, Steps
<1>2. CASE KeepIntent(s)
  <2>1. Wrote(s)
    BY <1>2 DEF KeepIntent, Wrote
  <2>. QED BY <1>2, <2>1 DEF KeepIntent, Go, memory, turn, intents, prompt, learning, Typed, Steps
<1>3. CASE EndIntent(s)
  <2>1. PICK n \in cache[s] :
          LET event == IF Decision(s) = "close" THEN "INTENT_CLOSED" ELSE "INTENT_SUPERSEDED"
          IN  WriteThen(s, <<<<event, n>>>>,
                        IF Decision(s) = "close" THEN "assemble" ELSE "declare",
                        cache' = [cache EXCEPT ![s] = @ \ {n}], cache' = cache)
    BY <1>3 DEF EndIntent
  <2> DEFINE event == IF Decision(s) = "close" THEN "INTENT_CLOSED" ELSE "INTENT_SUPERSEDED"
             step == IF Decision(s) = "close" THEN "assemble" ELSE "declare"
             P == cache' = [cache EXCEPT ![s] = @ \ {n}]
             Q == cache' = cache
  <2>2. WriteThen(s, <<<<event, n>>>>, step, P, Q)
    BY <2>1
  <2>3. event \in IntentEvents /\ step \in Steps /\ n \in Nat
    BY DEF IntentEvents, Steps, Typed
  <2>a. P \/ Q => cache' \in [Sessions -> SUBSET Nat]
    BY ZenonT(30) DEF Typed
  <2> HIDE DEF event, step, P, Q
  <2>4. /\ Log(s, <<<<event, n>>>>) \/ Log(s, <<>>)
        /\ pc' \in [Sessions -> Steps] /\ \A r \in Sessions \ {s} : pc'[r] = pc[r]
        /\ said' \in [Sessions -> SaidType] /\ (P \/ Q)
    BY <1>0, <2>2, <2>3, WriteThenWrites
  <2>5. Wrote(s)
    BY <1>a, <2>3, <2>4 DEF Wrote
  <2>6. cache' \in [Sessions -> SUBSET Nat]
    BY <2>4, <2>a
  <2>. QED BY <1>3, <1>b, <2>4, <2>5, <2>6 DEF EndIntent, memory, prompt, learning, Typed
<1>4. CASE DeclareIntent(s)
  <2> DEFINE n == sequence[s] + 1
             P == /\ cache' = [cache EXCEPT ![s] = @ \union {n}]
                  /\ sequence' = [sequence EXCEPT ![s] = n]
             Q == UNCHANGED intents
  <2>1. WriteThen(s, <<<<"INTENT_DECLARED", n>>>>, "assemble", P, Q)
    BY <1>4 DEF DeclareIntent
  <2>2. n \in Nat /\ "INTENT_DECLARED" \in IntentEvents /\ "assemble" \in Steps
    BY DEF Typed, IntentEvents, Steps
  <2>3. ASSUME P \/ Q
        PROVE  cache' \in [Sessions -> SUBSET Nat] /\ sequence' \in [Sessions -> Nat]
    <3> HIDE DEF n
    <3>1. CASE P
      <4>1. cache[s] \union {n} \in SUBSET Nat
        BY <2>2 DEF Typed
      <4>. QED BY <2>2, <3>1, <4>1 DEF Typed
    <3>2. CASE Q
      BY <3>2 DEF Typed, intents
    <3>. QED BY <2>3, <3>1, <3>2
  <2> HIDE DEF n, P, Q
  <2>4. /\ Log(s, <<<<"INTENT_DECLARED", n>>>>) \/ Log(s, <<>>)
        /\ pc' \in [Sessions -> Steps] /\ \A r \in Sessions \ {s} : pc'[r] = pc[r]
        /\ said' \in [Sessions -> SaidType] /\ (P \/ Q)
    BY <1>0, <2>1, <2>2, WriteThenWrites
  <2>5. Wrote(s)
    BY <1>a, <2>2, <2>4 DEF Wrote
  <2>. QED BY <1>4, <1>b, <2>3, <2>4, <2>5 DEF DeclareIntent, memory, prompt, learning, Typed
<1>5. CASE Assemble(s)
  <2>1. Wrote(s)
    BY <1>5 DEF Assemble, Wrote
  <2>2. pc' \in [Sessions -> Steps] /\ \A r \in Sessions \ {s} : pc'[r] = pc[r]
    BY <1>5 DEF Assemble, Go, Typed, Steps
  <2>3. DOMAIN injected' = Sessions /\ said' \in [Sessions -> SaidType]
    BY <1>5, NoTurnType DEF Assemble, Typed
  <2>. QED BY <1>5, <2>1, <2>2, <2>3 DEF Assemble, memory, intents, learning, Typed
<1>6. CASE Synthesize(s)
  <2>1. Wrote(s)
    <3>1. "WO_COMPLETED" \in Ends
      BY Names
    <3>. QED BY <1>6, <3>1, RanType DEF Synthesize, Accept, Retry, Escalate, Wrote
  <2>2. /\ pc' \in [Sessions -> Steps] /\ \A r \in Sessions \ {s} : pc'[r] = pc[r]
        /\ DOMAIN injected' = Sessions
    BY <1>6 DEF Synthesize, Accept, Retry, Escalate, Leave, Go, Typed, Steps
  <2>. QED BY <1>6, <1>b, <2>1, <2>2 DEF Synthesize, memory, intents, learning, Typed
<1>7. CASE GiveSignals(s)
  <2>1. /\ UNCHANGED <<now, overlays, turn, intents, events, prompt, job>>
        /\ pc' \in [Sessions -> Steps] /\ \A r \in Sessions \ {s} : pc'[r] = pc[r]
    BY <1>7 DEF GiveSignals, Go, Typed, Steps
  <2>2. PICK S \in SUBSET Signals :
          /\ LogSignals(s, S)
          /\ \/ candidates' = [candidates EXCEPT ![s] = {g \in S : Crossed(g)'}]
             \/ candidates' = candidates
    BY <1>7 DEF GiveSignals
  <2>3. heard' \in [Signals -> Seq(Sessions)]
    BY <2>2 DEF LogSignals, Typed
  <2>4. candidates' \in [Sessions -> SUBSET Signals]
    BY <2>2 DEF Typed
  <2>. QED BY <2>1, <2>3, <2>4 DEF turn, intents, prompt, Typed, Wrote
<1>8. ASSUME NEW g \in Signals, Consolidate(s, g)
      PROVE  /\ Typed' /\ Wrote(s)
             /\ \A r \in Sessions \ {s} : pc'[r] = pc[r]
  <2>1. Wrote(s)
    <3>1. "WO_COMPLETED" \in Ends
      BY Names
    <3>. QED BY <1>8, <3>1, RanType DEF Consolidate, Wrote
  <2>2. /\ UNCHANGED <<memory, turn, intents, prompt>>
        /\ pc' \in [Sessions -> Steps] /\ \A r \in Sessions \ {s} : pc'[r] = pc[r]
    BY <1>8 DEF Consolidate, Go, Typed, Steps
  <2>3. candidates' \in [Sessions -> SUBSET Signals]
    BY <1>8 DEF Consolidate, Rest, Typed
  <2>4. job' \in [Sessions -> JobType]
    <3>1. Count(g) \in Nat /\ Len(overlays) \in Nat
      BY DEF Count, Typed
    <3>2. [signal |-> g, cites |-> Count(g), seen |-> Len(overlays)] \in JobType
      BY <3>1 DEF JobType
    <3>3. job \in [Sessions -> JobType]
      BY DEF Typed
    <3>4. \/ job' = job
          \/ job' = [job EXCEPT ![s] = [signal |-> g, cites |-> Count(g), seen |-> Len(overlays)]]
      BY <1>8 DEF Consolidate
    <3>. QED BY <3>2, <3>3, <3>4
  <2>. QED BY <1>b, <2>1, <2>2, <2>3, <2>4 DEF memory, turn, intents, prompt, Typed
<1>9. CASE WriteOverlay(s)
  <2>1. PICK end \in Ends, bias \in BOOLEAN :
          /\ Log(s, <<<<end, NextWO(s) - 1>>>>)
          /\ IF end = "WO_COMPLETED"
             THEN LogOverlay([Blank EXCEPT !.signal = job[s].signal, !.weight = 1, !.line = bias,
                                           !.cites = job[s].cites, !.seen = job[s].seen])
             ELSE UNCHANGED overlays
    BY <1>9 DEF WriteOverlay
  <2>2. Wrote(s)
    BY <2>1, RanType DEF Wrote
  <2>3. [Blank EXCEPT !.signal = job[s].signal, !.weight = 1, !.line = bias,
                      !.cites = job[s].cites, !.seen = job[s].seen] \in Entries
    <3>1. job[s] \in JobType /\ 1 \in Weights /\ Blank \in Entries
      BY BlankType DEF Typed, Weights
    <3>. QED BY <3>1 DEF JobType, Entries
  <2>4. overlays' \in Seq(Entries)
    <3>1. CASE end = "WO_COMPLETED"
      BY <2>1, <2>3, <3>1, LoggedType
    <3>2. CASE end # "WO_COMPLETED"
      BY <2>1, <3>2 DEF Typed
    <3>. QED BY <3>1, <3>2
  <2>5. /\ UNCHANGED <<now, heard, edits, turn, intents, prompt, candidates>>
        /\ pc' \in [Sessions -> Steps] /\ \A r \in Sessions \ {s} : pc'[r] = pc[r]
        /\ job' \in [Sessions -> JobType]
    BY <1>9 DEF WriteOverlay, Go, Typed, Steps, JobType, NoJob
  <2>. QED BY <1>b, <2>2, <2>4, <2>5 DEF turn, intents, prompt, Typed
<1>. QED BY <1>1, <1>2, <1>3, <1>4, <1>5, <1>6, <1>7, <1>8, <1>9 DEF Step

LEMMA TypedStep ==
  ASSUME Typed, [ContextNext]_vars
  PROVE  Typed'
<1>1. CASE UNCHANGED vars
  BY <1>1 DEF vars, memory, turn, intents, prompt, learning, Typed
<1>. QED BY <1>1, OutsideTyped, StepTyped DEF ContextNext

-----------------------------------------------------------------------------
(* One live intent                                                          *)

\* The supervisor holds one intent at most; what the ledger tells of is that one
\* or, when it holds none, one whose declaration was written and raised.
Certain(s) ==
  /\ cache[s] = {} \/ \E n \in 1..sequence[s] : cache[s] = {n}
  /\ Live(s) \subseteq (IF cache[s] = {} THEN {sequence[s] + 1} ELSE cache[s])
  /\ pc[s] = "declare" => cache[s] = {}
AllCertain == \A s \in Sessions : Certain(s)

\* Live() of a log
LiveOf(q) == {n \in {q[i][2] : i \in DOMAIN q} : LatestIn(q, n, IntentEvents) = "INTENT_DECLARED"}

LEMMA LiveIsOf ==
  /\ \A s : Live(s) = LiveOf(events[s])
  /\ \A s : Live(s)' = LiveOf(events'[s])
BY DEF Live, Numbers, Latest, LiveOf, LatestIn, Hits

LEMMA InLive ==
  ASSUME NEW q \in LogType, NEW n
  PROVE  n \in LiveOf(q) <=> LatestIn(q, n, IntentEvents) = "INTENT_DECLARED"
<1>1. ASSUME LatestIn(q, n, IntentEvents) = "INTENT_DECLARED"
      PROVE  \E i \in DOMAIN q : q[i][2] = n
  <2>1. Hits(q, n, IntentEvents) # {}
    BY <1>1 DEF LatestIn
  <2>. QED BY <2>1 DEF Hits
<1>. QED BY <1>1 DEF LiveOf

LEMMA LiveWork ==
  ASSUME NEW q \in LogType, NEW es \in WOLog
  PROVE  LiveOf(q \o es) = LiveOf(q)
<1>1. es \in LogType /\ q \o es \in LogType
  BY Join DEF WOLog
<1>2. \A n : LatestIn(q \o es, n, IntentEvents) = LatestIn(q, n, IntentEvents)
  BY <1>1, LatestKept DEF WOLog
<1>3. \A n : n \in LiveOf(q \o es) <=> n \in LiveOf(q)
  BY <1>1, <1>2, InLive
<1>. QED BY <1>3

LEMMA LiveIntent ==
  ASSUME NEW q \in LogType, NEW e \in IntentEvents, NEW n \in Nat
  PROVE  LiveOf(q \o <<<<e, n>>>>) =
           IF e = "INTENT_DECLARED" THEN LiveOf(q) \cup {n} ELSE LiveOf(q) \ {n}
<1>1. <<<<e, n>>>> \in LogType /\ q \o <<<<e, n>>>> \in LogType
  BY Entry1, Join, Names
<1>2. LatestIn(q \o <<<<e, n>>>>, n, IntentEvents) = e
  BY LatestSet, Names
<1>3. ASSUME NEW m, m # n
      PROVE  LatestIn(q \o <<<<e, n>>>>, m, IntentEvents) = LatestIn(q, m, IntentEvents)
  <2> DEFINE es == <<<<e, n>>>>
  <2>1. \A i \in DOMAIN es : es[i][2] # m \/ es[i][1] \notin IntentEvents
    BY <1>3
  <2> HIDE DEF es
  <2>2. LatestIn(q \o es, m, IntentEvents) = LatestIn(q, m, IntentEvents)
    BY <1>1, <2>1, LatestKept DEF es
  <2>. QED BY <2>2 DEF es
<1> DEFINE both == q \o <<<<e, n>>>>
<1>4. \A m : /\ m \in LiveOf(both) <=> LatestIn(both, m, IntentEvents) = "INTENT_DECLARED"
             /\ m \in LiveOf(q) <=> LatestIn(q, m, IntentEvents) = "INTENT_DECLARED"
  BY <1>1, InLive
<1>5. LatestIn(both, n, IntentEvents) = e /\ \A m : m # n => LatestIn(both, m, IntentEvents) = LatestIn(q, m, IntentEvents)
  BY <1>2, <1>3
<1> HIDE DEF both
<1>6. LiveOf(both) = IF e = "INTENT_DECLARED" THEN LiveOf(q) \cup {n} ELSE LiveOf(q) \ {n}
  BY <1>4, <1>5
<1>. QED BY <1>6 DEF both

LEMMA InitCertain ==
  ASSUME ContextInit
  PROVE  AllCertain
<1>1. \A s \in Sessions : events[s] = <<>> /\ cache[s] = {} /\ pc[s] = "idle"
  BY DEF ContextInit
<1>2. \A s \in Sessions : Live(s) = {}
  BY <1>1 DEF Live, Numbers
<1>. QED BY <1>1, <1>2 DEF AllCertain, Certain

\* A step of s that writes about work orders only and keeps the intents.
LEMMA WorkKeeps ==
  ASSUME Typed, Typed', NEW s \in Sessions, Certain(s), UNCHANGED <<cache, sequence>>,
         events'[s] = events[s] \/ (\E q \in WOLog : events'[s] = events[s] \o q),
         pc'[s] # "declare"
  PROVE  Certain(s)'
<1>1. events[s] \in LogType
  BY DEF Typed
<1>2. Live(s)' = Live(s)
  BY <1>1, LiveIsOf, LiveWork
<1>. QED BY <1>2 DEF Certain

LEMMA CertainStep ==
  ASSUME Typed, Typed', NEW s \in Sessions, Certain(s), Step(s)
  PROVE  Certain(s)'
<1>0. /\ events \in [Sessions -> LogType] /\ events[s] \in LogType
      /\ cache \in [Sessions -> SUBSET Nat] /\ sequence \in [Sessions -> Nat] /\ pc \in [Sessions -> Steps]
  BY DEF Typed
<1>1. \A q \in WOLog : Log(s, q) => events'[s] = events[s] \o q
  BY <1>0 DEF Log
<1>2. CASE Classify(s)
  <2>1. PICK end \in Ends : Log(s, Ran(s, end))
    BY <1>2 DEF Classify
  <2>2. \E q \in WOLog : events'[s] = events[s] \o q
    BY <1>1, <2>1, RanType
  <2>3. UNCHANGED <<cache, sequence>> /\ pc'[s] = "intent"
    BY <1>0, <1>2 DEF Classify, Go, intents
  <2>. QED BY <2>2, <2>3, WorkKeeps
<1>3. CASE KeepIntent(s) \/ GiveSignals(s)
  <2>1. UNCHANGED <<cache, sequence, events>> /\ pc'[s] \in {"assemble", "idle", "consolidate"}
    BY <1>0, <1>3 DEF KeepIntent, GiveSignals, Go, intents
  <2>. QED BY <2>1, WorkKeeps
<1>4. CASE Assemble(s)
  <2>1. UNCHANGED <<cache, sequence, events>> /\ pc'[s] \in {"synthesize", "idle"}
    BY <1>0, <1>4 DEF Assemble, Go, intents
  <2>. QED BY <2>1, WorkKeeps
<1>5. CASE Synthesize(s)
  <2>1. \E q \in WOLog : Log(s, q)
    <3>1. "WO_COMPLETED" \in Ends
      BY Names
    <3>. QED BY <1>5, <3>1, RanType DEF Synthesize, Accept, Retry, Escalate
  <2>2. UNCHANGED <<cache, sequence>> /\ pc'[s] \in {"synthesize", "signals"}
    BY <1>0, <1>5 DEF Synthesize, Accept, Retry, Escalate, Leave, Go, intents
  <2>. QED BY <1>1, <2>1, <2>2, WorkKeeps
<1>6. ASSUME NEW g \in Signals, Consolidate(s, g)
      PROVE  Certain(s)'
  <2>1. events'[s] = events[s] \/ \E q \in WOLog : Log(s, q)
    <3>1. "WO_COMPLETED" \in Ends
      BY Names
    <3>. QED BY <1>6, <3>1, RanType DEF Consolidate
  <2>2. UNCHANGED <<cache, sequence>> /\ pc'[s] \in {"overlay", "idle", "consolidate"}
    BY <1>0, <1>6 DEF Consolidate, Go, intents
  <2>. QED BY <1>1, <2>1, <2>2, WorkKeeps
<1>7. CASE WriteOverlay(s)
  <2>1. \E q \in WOLog : Log(s, q)
    BY <1>7, RanType DEF WriteOverlay
  <2>2. UNCHANGED <<cache, sequence>> /\ pc'[s] \in {"idle", "consolidate"}
    BY <1>0, <1>7 DEF WriteOverlay, Go, intents
  <2>. QED BY <1>1, <2>1, <2>2, WorkKeeps
<1>a. Live(s) = LiveOf(events[s]) /\ Live(s)' = LiveOf(events'[s])
  BY LiveIsOf
<1>b. ASSUME NEW e \in IntentEvents, NEW n \in Nat, Log(s, <<<<e, n>>>>)
      PROVE  Live(s)' = IF e = "INTENT_DECLARED" THEN Live(s) \cup {n} ELSE Live(s) \ {n}
  <2>1. events'[s] = events[s] \o <<<<e, n>>>>
    BY <1>0, <1>b DEF Log
  <2>2. LiveOf(events[s] \o <<<<e, n>>>>) =
          IF e = "INTENT_DECLARED" THEN LiveOf(events[s]) \cup {n} ELSE LiveOf(events[s]) \ {n}
    BY <1>0, LiveIntent
  <2>3. Live(s)' = LiveOf(events[s] \o <<<<e, n>>>>)
    BY <1>a, <2>1
  <2>. QED BY <1>a, <2>2, <2>3
<1>c. Log(s, <<>>) => Live(s)' = Live(s)
  BY <1>0, <1>1, <1>a, EmptyLog, LiveWork
<1>8. CASE EndIntent(s)
  <2>1. PICK n \in cache[s] :
          LET event == IF Decision(s) = "close" THEN "INTENT_CLOSED" ELSE "INTENT_SUPERSEDED"
          IN  WriteThen(s, <<<<event, n>>>>,
                        IF Decision(s) = "close" THEN "assemble" ELSE "declare",
                        cache' = [cache EXCEPT ![s] = @ \ {n}], cache' = cache)
    BY <1>8 DEF EndIntent
  <2> DEFINE event == IF Decision(s) = "close" THEN "INTENT_CLOSED" ELSE "INTENT_SUPERSEDED"
             step == IF Decision(s) = "close" THEN "assemble" ELSE "declare"
             P == cache' = [cache EXCEPT ![s] = @ \ {n}]
             Q == cache' = cache
  <2>2. WriteThen(s, <<<<event, n>>>>, step, P, Q)
    BY <2>1
  <2>3. /\ event \in IntentEvents /\ event # "INTENT_DECLARED" /\ step \in Steps /\ n \in Nat
        /\ sequence' = sequence
    BY <1>0, <1>8 DEF IntentEvents, Steps, EndIntent
  <2>4. cache[s] = {n} /\ Live(s) \subseteq {n}
    BY DEF Certain
  <2>5. /\ P => cache'[s] = {}
        /\ Q => cache'[s] = {n}
    BY <1>0, <2>4
  <2> HIDE DEF event, step, P, Q
  <2>6. /\ Log(s, <<<<event, n>>>>) \/ Log(s, <<>>)
        /\ (Log(s, <<<<event, n>>>>) /\ P /\ pc'[s] = step) \/ (Q /\ pc'[s] = "idle")
    BY <2>2, <2>3, Entry1, Names, WriteThenWrites
  <2>7. /\ Log(s, <<<<event, n>>>>) => Live(s)' = {}
        /\ Live(s)' \subseteq {n}
    BY <1>b, <1>c, <2>3, <2>4, <2>6
  <2>8. \E k \in 1..sequence[s] : cache[s] = {k}
    BY <2>4 DEF Certain
  <2>. QED BY <2>3, <2>4, <2>5, <2>6, <2>7, <2>8 DEF Certain
<1>9. CASE DeclareIntent(s)
  <2> DEFINE n == sequence[s] + 1
             P == /\ cache' = [cache EXCEPT ![s] = @ \union {n}]
                  /\ sequence' = [sequence EXCEPT ![s] = n]
             Q == UNCHANGED intents
  <2>1. WriteThen(s, <<<<"INTENT_DECLARED", n>>>>, "assemble", P, Q)
    BY <1>9 DEF DeclareIntent
  <2>2. n \in Nat /\ n >= 1 /\ "INTENT_DECLARED" \in IntentEvents /\ "assemble" \in Steps
    BY <1>0 DEF IntentEvents, Steps
  <2>3. cache[s] = {}
    <3>1. pc[s] = "declare" \/ Decision(s) = "declare"
      BY <1>9 DEF DeclareIntent
    <3>2. CASE pc[s] = "declare"
      BY <3>2 DEF Certain
    <3>3. CASE Decision(s) = "declare"
      BY <3>3 DEF Decision
    <3>. QED BY <3>1, <3>2, <3>3
  <2>4. Live(s) \subseteq {n}
    BY <2>3 DEF Certain
  <2>5. /\ P => cache'[s] = {n} /\ sequence'[s] = n
        /\ Q => cache'[s] = {} /\ sequence'[s] + 1 = n
    BY <1>0, <2>3 DEF intents
  <2> HIDE DEF n, P, Q
  <2>6. /\ Log(s, <<<<"INTENT_DECLARED", n>>>>) \/ Log(s, <<>>)
        /\ (P /\ pc'[s] = "assemble") \/ (Q /\ pc'[s] = "idle")
    BY <2>1, <2>2, Entry1, Names, WriteThenWrites
  <2>7. Live(s)' \subseteq {n}
    BY <1>b, <1>c, <2>2, <2>4, <2>6
  <2>8. CASE P /\ pc'[s] = "assemble"
    <3>1. n \in 1..n
      BY <2>2
    <3>. QED BY <2>5, <2>7, <2>8, <3>1 DEF Certain
  <2>9. CASE Q /\ pc'[s] = "idle"
    BY <2>5, <2>7, <2>9 DEF Certain
  <2>. QED BY <2>6, <2>8, <2>9
<1>. QED BY <1>2, <1>3, <1>4, <1>5, <1>6, <1>7, <1>8, <1>9 DEF Step

\* The steps of one session leave the intents and the log of the others alone.
LEMMA OthersApart ==
  ASSUME Typed, Typed', NEW s \in Sessions, NEW r \in Sessions \ {s}, Step(s), Certain(r)
  PROVE  Certain(r)'
<1>1. pc'[r] = pc[r] /\ Wrote(s)
  BY StepTyped
<1>2. events'[r] = events[r]
  BY <1>1 DEF Wrote, Log, Typed
<1>3. cache'[r] = cache[r] /\ sequence'[r] = sequence[r]
  <2>1. CASE EndIntent(s)
    BY <2>1 DEF EndIntent, WriteThen, Typed
  <2>2. CASE DeclareIntent(s)
    BY <2>2 DEF DeclareIntent, WriteThen, intents, Typed
  <2>3. CASE Classify(s) \/ KeepIntent(s) \/ Assemble(s) \/ Synthesize(s) \/ GiveSignals(s)
             \/ (\E g \in Signals : Consolidate(s, g)) \/ WriteOverlay(s)
    <3>1. UNCHANGED intents
      BY <2>3 DEF Classify, KeepIntent, Assemble, Synthesize, GiveSignals, Consolidate, WriteOverlay
    <3>. QED BY <3>1 DEF intents
  <2>. QED BY <2>1, <2>2, <2>3 DEF Step
<1>4. Live(r)' = Live(r)
  BY <1>2, LiveIsOf
<1>. QED BY <1>1, <1>3, <1>4 DEF Certain

LEMMA CertainHolds == Spec => [](Typed /\ AllCertain)
<1>1. ContextInit => Typed /\ AllCertain
  BY InitTyped, InitCertain
<1>2. ASSUME Typed, AllCertain, [ContextNext]_vars
      PROVE  Typed' /\ AllCertain'
  <2>1. Typed'
    BY <1>2, TypedStep
  <2>2. ASSUME NEW s \in Sessions, Step(s)
        PROVE  AllCertain'
    BY <1>2, <2>1, <2>2, CertainStep, OthersApart DEF AllCertain
  <2>3. CASE Outside \/ UNCHANGED vars
    <3>1. UNCHANGED <<events, cache, sequence, pc>>
      BY <2>3 DEF Outside, vars, intents
    <3>2. \A s \in Sessions : Live(s)' = Live(s)
      BY <3>1, LiveIsOf
    <3>3. ASSUME NEW s \in Sessions
          PROVE  Certain(s)'
      <4>1. Certain(s)
        BY <1>2 DEF AllCertain
      <4>2. Live(s)' = Live(s)
        BY <3>2
      <4>. QED BY <3>1, <4>1, <4>2 DEF Certain
    <3>. QED BY <2>1, <3>3 DEF AllCertain
  <2>. QED BY <1>2, <2>1, <2>2, <2>3 DEF ContextNext
<1>. QED BY <1>1, <1>2, PTL DEF Spec

\* Whatever the writes of a session do, its ledger never tells of two live intents,
\* nor of one that the supervisor has replaced by another.
THEOREM OneLiveIntent == Spec => []OneIntent
<1>1. ASSUME Typed, AllCertain
      PROVE  OneIntent
  <2> SUFFICES ASSUME NEW s \in Sessions
               PROVE  /\ Cardinality(Live(s)) <= 1
                      /\ Live(s) \subseteq cache[s] \union {sequence[s] + 1}
                      /\ sequence[s] + 1 \in Live(s) => cache[s] = {}
    BY DEF OneIntent
  <2>1. Certain(s) /\ sequence[s] \in Nat
    BY <1>1 DEF AllCertain, Typed
  <2>2. PICK n \in Nat : Live(s) \subseteq {n}
    BY <2>1 DEF Certain
  <2>3. Cardinality(Live(s)) <= 1
    <3>1. Live(s) = {} \/ Live(s) = {n}
      BY <2>2
    <3>2. CASE Live(s) = {}
      BY <3>2, FS_EmptySet
    <3>3. CASE Live(s) = {n}
      <4>1. Cardinality({n}) = 1
        BY FS_Singleton
      <4>. QED BY <3>3, <4>1
    <3>. QED BY <3>1, <3>2, <3>3
  <2>. QED BY <2>1, <2>3 DEF Certain
<1>. QED BY <1>1, CertainHolds, PTL

-----------------------------------------------------------------------------
(* What is appended to the overlays                                         *)

LEMMA LastOfIs ==
  ASSUME Typed, NEW a, NEW K
  PROVE  /\ LastOf(a, K) \in Nat
         /\ LastOf(a, K) # 0 => /\ LastOf(a, K) \in DOMAIN overlays
                                /\ overlays[LastOf(a, K)].artifact = a
                                /\ overlays[LastOf(a, K)].event \in K
         /\ \A i \in DOMAIN overlays :
              overlays[i].artifact = a /\ overlays[i].event \in K => i <= LastOf(a, K)
<1> DEFINE S == {0} \union {i \in DOMAIN overlays : overlays[i].artifact = a /\ overlays[i].event \in K}
<1>1. DOMAIN overlays = 1..Len(overlays) /\ Len(overlays) \in Nat
  BY DEF Typed
<1>2. S \in SUBSET (0..Len(overlays)) /\ S # {}
  BY <1>1
<1>3. Max(S) \in S /\ \A y \in S : y <= Max(S)
  <2> HIDE DEF S
  <2>. QED BY <1>1, <1>2, Greatest
<1>4. LastOf(a, K) = Max(S)
  BY DEF LastOf
<1> DEFINE m == LastOf(a, K)
<1>5. m \in S /\ \A y \in S : y <= m
  BY <1>3, <1>4
<1> HIDE DEF m
<1>6. /\ m \in Nat
      /\ m # 0 => m \in DOMAIN overlays /\ overlays[m].artifact = a /\ overlays[m].event \in K
      /\ \A i \in DOMAIN overlays : overlays[i].artifact = a /\ overlays[i].event \in K => i <= m
  BY <1>1, <1>5
<1>. QED BY <1>6 DEF m

\* The first entry of an artifact
First(i, a) == overlays[i].artifact = a /\ overlays[i].event = "HO3_OVERLAY"

LEMMA FoundIs ==
  ASSUME Typed, NEW a
  PROVE  Found(a) <=> \E i \in DOMAIN overlays : First(i, a)
<1> DEFINE m == LastOf(a, {"HO3_OVERLAY"})
<1>1. /\ m \in Nat
      /\ m # 0 => m \in DOMAIN overlays /\ overlays[m].artifact = a /\ overlays[m].event \in {"HO3_OVERLAY"}
      /\ \A i \in DOMAIN overlays : overlays[i].artifact = a /\ overlays[i].event \in {"HO3_OVERLAY"} => i <= m
  BY LastOfIs
<1>2. Found(a) <=> m > 0
  BY DEF Found, Base
<1>3. DOMAIN overlays = 1..Len(overlays) /\ Len(overlays) \in Nat
  BY DEF Typed
<1> HIDE DEF m
<1>. QED BY <1>1, <1>2, <1>3 DEF First

\* The three kinds of entries a step may append: one that a consolidation has
\* learned, the first one of an artifact, and a later one of an artifact.
ByJob(e, s) ==
  /\ pc[s] = "overlay" /\ e.artifact = NoArtifact /\ e.event = "HO3_OVERLAY"
  /\ e.signal = job[s].signal /\ e.cites = job[s].cites /\ e.seen = job[s].seen
FirstOf(e) ==
  /\ e.artifact \in Artifacts /\ ~Found(e.artifact) /\ e.event = "HO3_OVERLAY" /\ e.signal = NoSignal
Later(e) ==
  /\ e.artifact \in Artifacts /\ Found(e.artifact) /\ e.event # "HO3_OVERLAY"
  /\ e.signal = NoSignal /\ e.expires = Never
Appended(e) ==
  /\ overlays' = Append(overlays, e)
  /\ e \in Entries /\ e.end = now
  /\ (\E s \in Sessions : ByJob(e, s)) \/ FirstOf(e) \/ Later(e)

LEMMA BlankIs ==
  ASSUME Typed
  PROVE  /\ Blank \in Entries /\ Blank.event = "HO3_OVERLAY" /\ Blank.artifact = NoArtifact
         /\ Blank.signal = NoSignal /\ Blank.expires = Never /\ Blank.end = now
         /\ DOMAIN Blank = {"event", "artifact", "signal", "weight", "tag", "expires", "line", "end",
                            "cites", "seen"}
BY BlankType DEF Blank

LEMMA CurateAppends ==
  ASSUME Typed, NEW a \in Artifacts, ByHand(a)
  PROVE  overlays' = overlays \/ \E e \in Entries : Appended(e)
<1>0. a # NoArtifact
  BY MemoryAssumption
<1>1. ASSUME NEW w \in Weights, Found(a),
             overlays' = Append(overlays, [Blank EXCEPT !.event = "HO3_OVERLAY_WEIGHT_UPDATED",
                                                        !.artifact = a, !.weight = w])
      PROVE  \E e \in Entries : Appended(e)
  <2> DEFINE e == [Blank EXCEPT !.event = "HO3_OVERLAY_WEIGHT_UPDATED", !.artifact = a, !.weight = w]
  <2>1. /\ e \in Entries /\ e.artifact = a /\ e.event = "HO3_OVERLAY_WEIGHT_UPDATED"
        /\ e.signal = NoSignal /\ e.expires = Never /\ e.end = now
    BY BlankIs DEF Entries, Kinds
  <2>2. overlays' = Append(overlays, e)
    BY <1>1
  <2> HIDE DEF e
  <2>. QED BY <1>1, <2>1, <2>2 DEF Appended, Later
<1>2. ASSUME Deactivate(a)
      PROVE  \E e \in Entries : Appended(e)
  <2> DEFINE e == [Blank EXCEPT !.event = "HO3_OVERLAY_DEACTIVATED", !.artifact = a]
  <2>1. /\ e \in Entries /\ e.artifact = a /\ e.event = "HO3_OVERLAY_DEACTIVATED"
        /\ e.signal = NoSignal /\ e.expires = Never /\ e.end = now
    BY BlankIs DEF Entries, Kinds
  <2>2. overlays' = Append(overlays, e) /\ Found(a)
    BY <1>2 DEF Deactivate
  <2> HIDE DEF e
  <2>. QED BY <2>1, <2>2 DEF Appended, Later
<1>3. ASSUME NEW tag \in Tags \union {Global}, NEW t \in {MaxTime, Never},
             LogOverlay([Blank EXCEPT !.artifact = a, !.weight = 1, !.tag = tag,
                                      !.expires = t, !.line = TRUE])
      PROVE  overlays' = overlays \/ \E e \in Entries : Appended(e)
  <2> DEFINE e == [Blank EXCEPT !.artifact = a, !.weight = 1, !.tag = tag, !.expires = t, !.line = TRUE]
  <2>1. /\ e \in Entries /\ e.artifact = a /\ e.event = "HO3_OVERLAY" /\ e.signal = NoSignal
        /\ e.end = now /\ e.weight = 1 /\ 1 \in Weights
    <3>1. t \in Times \union {Never} /\ 1 \in Weights /\ tag \in Tags \union {NoTag, Global}
      BY MemoryAssumption DEF Times, Weights
    <3>. QED BY <3>1, BlankIs DEF Entries
  <2>2. LogOverlay(e)
    BY <1>3
  <2> HIDE DEF e
  <2>3. CASE ~Found(a)
    <3>1. overlays' = Append(overlays, e)
      BY <2>1, <2>2, <2>3 DEF LogOverlay
    <3>. QED BY <2>1, <2>3, <3>1 DEF Appended, FirstOf
  <2>4. CASE Found(a)
    <3>1. \/ overlays' = overlays
          \/ overlays' = Append(overlays, [Blank EXCEPT !.event = "HO3_OVERLAY_WEIGHT_UPDATED",
                                                        !.artifact = a, !.weight = 1])
      BY <1>0, <2>1, <2>2, <2>4 DEF LogOverlay
    <3>. QED BY <1>1, <2>1, <2>4, <3>1
  <2>. QED BY <2>3, <2>4
<1>4. CASE \E w \in Weights : Reweigh(a, w)
  BY <1>1, <1>4 DEF Reweigh
<1>5. CASE \E tag \in Tags \union {Global}, t \in {MaxTime, Never} :
             LogOverlay([Blank EXCEPT !.artifact = a, !.weight = 1, !.tag = tag,
                                      !.expires = t, !.line = TRUE])
  BY <1>3, <1>5, Zenon
<1>. QED BY <1>2, <1>4, <1>5, Zenon DEF ByHand

LEMMA LearnedAppends ==
  ASSUME Typed, NEW s \in Sessions, WriteOverlay(s)
  PROVE  overlays' = overlays \/ \E e \in Entries : Appended(e)
<1>1. PICK end \in Ends, bias \in BOOLEAN :
        IF end = "WO_COMPLETED"
        THEN LogOverlay([Blank EXCEPT !.signal = job[s].signal, !.weight = 1, !.line = bias,
                                      !.cites = job[s].cites, !.seen = job[s].seen])
        ELSE UNCHANGED overlays
  BY DEF WriteOverlay
<1>2. CASE end # "WO_COMPLETED"
  BY <1>1, <1>2
<1>3. CASE end = "WO_COMPLETED"
  <2> DEFINE e == [Blank EXCEPT !.signal = job[s].signal, !.weight = 1, !.line = bias,
                                !.cites = job[s].cites, !.seen = job[s].seen]
  <2>1. /\ e \in Entries /\ e.artifact = NoArtifact /\ e.event = "HO3_OVERLAY" /\ e.end = now
        /\ e.signal = job[s].signal /\ e.cites = job[s].cites /\ e.seen = job[s].seen
    <3>1. job[s] \in JobType /\ 1 \in Weights
      BY DEF Typed, Weights
    <3>. QED BY <3>1, BlankIs DEF JobType, Entries
  <2>2. LogOverlay(e) /\ pc[s] = "overlay"
    BY <1>1, <1>3 DEF WriteOverlay
  <2> HIDE DEF e
  <2>3. overlays' = Append(overlays, e)
    BY <2>1, <2>2 DEF LogOverlay
  <2>. QED BY <2>1, <2>2, <2>3 DEF Appended, ByJob
<1>. QED BY <1>2, <1>3

\* What any step does to the memory.
LEMMA MemoryStep ==
  ASSUME Typed, [ContextNext]_vars
  PROVE  /\ overlays' = overlays \/ \E e \in Entries : Appended(e)
         /\ now' \in Nat /\ now' >= now
         /\ \A g \in Signals : \/ heard'[g] = heard[g]
                               \/ \E s \in Sessions : heard'[g] = Append(heard[g], s)
<1>0. now \in Nat
  BY MemoryAssumption DEF Typed, Times
<1>1. CASE Tick
  BY <1>0, <1>1 DEF Tick
<1>2. CASE Curate
  <2>1. PICK a \in Artifacts : ByHand(a)
    BY <1>2 DEF Curate
  <2>2. UNCHANGED <<now, heard>>
    BY <1>2 DEF Curate
  <2>. QED BY <1>0, <2>1, <2>2, CurateAppends
<1>3. ASSUME NEW s \in Sessions, Step(s)
      PROVE  /\ overlays' = overlays \/ \E e \in Entries : Appended(e)
             /\ now' = now
             /\ \A g \in Signals : heard'[g] = heard[g] \/ heard'[g] = Append(heard[g], s)
  <2>1. CASE Classify(s) \/ KeepIntent(s) \/ EndIntent(s) \/ DeclareIntent(s) \/ Assemble(s)
             \/ Synthesize(s) \/ (\E g \in Signals : Consolidate(s, g))
    <3>1. UNCHANGED memory
      BY <2>1 DEF Classify, KeepIntent, EndIntent, DeclareIntent, Assemble, Synthesize, Consolidate
    <3>. QED BY <3>1 DEF memory
  <2>2. CASE GiveSignals(s)
    <3>1. PICK S \in SUBSET Signals : LogSignals(s, S)
      BY <2>2 DEF GiveSignals
    <3>2. UNCHANGED <<now, overlays>>
      BY <2>2 DEF GiveSignals
    <3>. QED BY <3>1, <3>2 DEF LogSignals
  <2>3. CASE WriteOverlay(s)
    <3>1. UNCHANGED <<now, heard>>
      BY <2>3 DEF WriteOverlay
    <3>. QED BY <2>3, <3>1, LearnedAppends
  <2>. QED BY <1>3, <2>1, <2>2, <2>3 DEF Step
<1>4. CASE UNCHANGED vars
  BY <1>0, <1>4 DEF vars, memory
<1>. QED BY <1>0, <1>1, <1>2, <1>3, <1>4 DEF ContextNext, Outside

\* The overlays after an entry e.
LEMMA AppendIs ==
  ASSUME Typed, NEW e, Appended(e)
  PROVE  /\ Len(overlays) \in Nat /\ DOMAIN overlays = 1..Len(overlays)
         /\ DOMAIN overlays' = 1..(Len(overlays) + 1)
         /\ overlays'[Len(overlays) + 1] = e
         /\ \A i \in DOMAIN overlays : i \in DOMAIN overlays' /\ overlays'[i] = overlays[i]
         /\ \A i \in DOMAIN overlays' : i \in DOMAIN overlays \/ i = Len(overlays) + 1
BY DEF Typed, Appended

-----------------------------------------------------------------------------
(* Consolidated once                                                        *)

\* Grounded() of what a consolidation holds or has written
BasedIn(q, cites) ==
  /\ cites \in CountThreshold..Len(q)
  /\ Cardinality(ToSet(SubSeq(q, 1, cites))) >= SessionThreshold

LEMMA BasedIs ==
  /\ \A e : Grounded(e) = BasedIn(heard[e.signal], e.cites)
  /\ \A e : Grounded(e)' = BasedIn(heard'[e'.signal], e'.cites)
BY DEF Grounded, BasedIn, Count

LEMMA Prefix ==
  ASSUME NEW h \in Seq(Sessions), NEW s \in Sessions, NEW c \in 1..Len(h)
  PROVE  SubSeq(Append(h, s), 1, c) = SubSeq(h, 1, c)
<1> DEFINE k == Append(h, s)
<1>1. /\ Len(h) \in Nat /\ \A i \in 1..c : h[i] \in Sessions /\ k[i] = h[i]
  OBVIOUS
<1> HIDE DEF k
<1>2. /\ SubSeq(h, 1, c) \in Seq(Sessions) /\ SubSeq(k, 1, c) \in Seq(Sessions)
      /\ Len(SubSeq(h, 1, c)) = c /\ Len(SubSeq(k, 1, c)) = c
      /\ \A i \in 1..c : SubSeq(h, 1, c)[i] = h[i] /\ SubSeq(k, 1, c)[i] = k[i]
  <2>1. c \in Int /\ 1 \in Int /\ c >= 1 /\ c - 1 + 1 = c /\ \A i \in 1..c : i \in Int /\ 1 + i - 1 = i
    OBVIOUS
  <2>2. /\ SubSeq(h, 1, c) \in Seq(Sessions)
        /\ Len(SubSeq(h, 1, c)) = c - 1 + 1
        /\ \A i \in 1..(c - 1 + 1) : SubSeq(h, 1, c)[i] = h[1 + i - 1]
    BY <1>1, <2>1, SubSeqProperties
  <2>3. /\ SubSeq(k, 1, c) \in Seq(Sessions)
        /\ Len(SubSeq(k, 1, c)) = c - 1 + 1
        /\ \A i \in 1..(c - 1 + 1) : SubSeq(k, 1, c)[i] = k[1 + i - 1]
    BY <1>1, <2>1, SubSeqProperties
  <2>. QED BY <2>1, <2>2, <2>3
<1>3. SubSeq(k, 1, c) = SubSeq(h, 1, c)
  BY <1>1, <1>2, SeqEqual
<1>. QED BY <1>3 DEF k

LEMMA BasedKept ==
  ASSUME Typed, [ContextNext]_vars, NEW g \in Signals, NEW c, BasedIn(heard[g], c)
  PROVE  BasedIn(heard'[g], c)
<1>1. /\ heard[g] \in Seq(Sessions) /\ CountThreshold \in Nat \ {0}
      /\ c \in CountThreshold..Len(heard[g])
  BY MemoryAssumption DEF Typed, BasedIn
<1>2. CASE heard'[g] = heard[g]
  BY <1>2
<1>3. ASSUME NEW s \in Sessions, heard'[g] = Append(heard[g], s)
      PROVE  BasedIn(heard'[g], c)
  <2>1. c \in 1..Len(heard[g])
    BY <1>1
  <2>2. SubSeq(heard'[g], 1, c) = SubSeq(heard[g], 1, c)
    BY <1>1, <1>3, <2>1, Prefix
  <2>3. Len(heard'[g]) = Len(heard[g]) + 1
    BY <1>1, <1>3
  <2>4. c \in CountThreshold..Len(heard'[g])
    BY <1>1, <2>3
  <2>. QED BY <2>2, <2>4 DEF BasedIn
<1>. QED BY <1>2, <1>3, MemoryStep

\* No overlay is from the future.
Dated == \A i \in DOMAIN overlays : overlays[i].end <= now

\* A consolidation under way rests on enough events of its signal, and none of the
\* overlays it could see when its gate was checked is within the window.
Held(s) ==
  pc[s] = "overlay" =>
    /\ job[s].signal \in Signals /\ BasedIn(heard[job[s].signal], job[s].cites)
    /\ job[s].seen <= Len(overlays)
    /\ \A i \in 1..job[s].seen :
         overlays[i].signal = job[s].signal => overlays[i].end + Window < now
AllHeld == \A s \in Sessions : Held(s)

Remembered == Dated /\ AllHeld /\ ConsolidatedOnce

LEMMA OverlayTypes ==
  ASSUME Typed
  PROVE  /\ now \in Nat /\ Window \in Nat
         /\ \A i \in DOMAIN overlays : overlays[i].end \in Nat /\ overlays[i].cites \in Nat
                                       /\ overlays[i].seen \in Nat /\ overlays[i] \in Entries
         /\ \A e \in Entries : e.end \in Nat
<1>1. \A i \in DOMAIN overlays : overlays[i] \in Entries
  BY DEF Typed
<1>2. \A e \in Entries : e.end \in Nat /\ e.cites \in Nat /\ e.seen \in Nat
  BY MemoryAssumption DEF Entries, Times
<1>. QED BY <1>1, <1>2, MemoryAssumption DEF Typed, Times

LEMMA DatedStep ==
  ASSUME Typed, Dated, [ContextNext]_vars
  PROVE  Dated'
<1>0. now' >= now /\ now' \in Nat /\ now \in Nat
  BY MemoryStep, OverlayTypes
<1>1. ASSUME NEW e \in Entries, Appended(e)
      PROVE  Dated'
  <2>1. e.end = now
    BY <1>1 DEF Appended
  <2>2. ASSUME NEW i \in DOMAIN overlays'
        PROVE  overlays'[i].end <= now'
    <3>1. CASE i \in DOMAIN overlays
      <4>1. overlays'[i] = overlays[i]
        BY <1>1, <3>1, AppendIs
      <4>2. overlays[i].end <= now /\ overlays[i].end \in Nat
        BY <3>1, OverlayTypes DEF Dated
      <4>. QED BY <1>0, <4>1, <4>2
    <3>2. CASE i = Len(overlays) + 1
      <4>1. overlays'[i] = e
        BY <1>1, <3>2, AppendIs
      <4>. QED BY <1>0, <2>1, <4>1
    <3>. QED BY <1>1, <3>1, <3>2, AppendIs
  <2>. QED BY <2>2 DEF Dated
<1>2. CASE overlays' = overlays
  BY <1>0, <1>2, OverlayTypes DEF Dated
<1>. QED BY <1>1, <1>2, MemoryStep

\* When the gate is open, what it is open for may be consolidated.
LEMMA GateOpens ==
  ASSUME Typed, Dated, NEW g \in Signals, Crossed(g)
  PROVE  /\ BasedIn(heard[g], Count(g))
         /\ \A i \in DOMAIN overlays : overlays[i].signal = g => overlays[i].end + Window < now
<1>1. /\ heard[g] \in Seq(Sessions) /\ Count(g) = Len(heard[g]) /\ Count(g) >= CountThreshold
      /\ CountThreshold \in Nat
  BY MemoryAssumption DEF Typed, Crossed, Count
<1>2. SubSeq(heard[g], 1, Len(heard[g])) = heard[g]
  BY <1>1, SubSeqFull
<1>3. BasedIn(heard[g], Count(g))
  <2>1. Count(g) \in CountThreshold..Len(heard[g])
    BY <1>1
  <2>2. Cardinality(ToSet(heard[g])) >= SessionThreshold
    BY DEF Crossed, From
  <2>. QED BY <1>1, <1>2, <2>1, <2>2 DEF BasedIn
<1>4. ASSUME NEW i \in DOMAIN overlays, overlays[i].signal = g
      PROVE  overlays[i].end + Window < now
  <2>1. overlays[i].end \notin (now - Window)..now
    BY <1>4 DEF Crossed, IsConsolidated, OverlaysOf
  <2>2. overlays[i].end <= now
    BY <1>4 DEF Dated
  <2>. QED BY <2>1, <2>2, OverlayTypes
<1>. QED BY <1>3, <1>4

\* Who is writing an overlay, and what for, changes by its own steps only.
LEMMA JobStep ==
  ASSUME Typed, [ContextNext]_vars, NEW s \in Sessions, pc'[s] = "overlay"
  PROVE  \/ pc[s] = "overlay" /\ job'[s] = job[s]
         \/ \E g \in Signals :
              /\ Crossed(g) /\ UNCHANGED memory
              /\ job'[s] = [signal |-> g, cites |-> Count(g), seen |-> Len(overlays)]
<1>0. pc \in [Sessions -> Steps] /\ job \in [Sessions -> JobType]
  BY DEF Typed
<1>1. CASE Outside \/ UNCHANGED vars
  BY <1>1 DEF Outside, vars, learning
<1>2. ASSUME NEW r \in Sessions, Step(r), r # s
      PROVE  pc[s] = "overlay" /\ job'[s] = job[s]
  <2>1. pc'[s] = pc[s]
    BY <1>2, StepTyped
  <2>2. CASE (\E g \in Signals : Consolidate(r, g)) \/ WriteOverlay(r)
    BY <1>0, <1>2, <2>1, <2>2 DEF Consolidate, WriteOverlay
  <2>3. CASE Classify(r) \/ KeepIntent(r) \/ EndIntent(r) \/ DeclareIntent(r) \/ Assemble(r)
             \/ Synthesize(r) \/ GiveSignals(r)
    BY <2>1, <2>3 DEF Classify, KeepIntent, EndIntent, DeclareIntent, Assemble, Synthesize, GiveSignals,
       learning
  <2>. QED BY <1>2, <2>2, <2>3 DEF Step
<1>3. CASE Step(s)
  <2>1. ~ (Classify(s) \/ KeepIntent(s) \/ Assemble(s) \/ GiveSignals(s) \/ WriteOverlay(s))
    BY <1>0 DEF Classify, KeepIntent, Assemble, GiveSignals, WriteOverlay, Go
  <2>2. ~ (EndIntent(s) \/ DeclareIntent(s))
    BY <1>0 DEF EndIntent, DeclareIntent, WriteThen, Go
  <2>3. CASE Synthesize(s)
    BY <1>0, <2>3 DEF Synthesize, Accept, Retry, Escalate, Leave, Go
  <2>4. ASSUME NEW g \in Signals, Consolidate(s, g)
        PROVE  /\ Crossed(g) /\ UNCHANGED memory
               /\ job'[s] = [signal |-> g, cites |-> Count(g), seen |-> Len(overlays)]
    BY <1>0, <2>4 DEF Consolidate, Go
  <2>. QED BY <1>3, <2>1, <2>2, <2>3, <2>4 DEF Step
<1>. QED BY <1>1, <1>2, <1>3 DEF ContextNext

LEMMA HeldStep ==
  ASSUME Typed, Typed', Dated, AllHeld, [ContextNext]_vars
  PROVE  AllHeld'
<1> SUFFICES ASSUME NEW s \in Sessions, pc'[s] = "overlay"
             PROVE  /\ job'[s].signal \in Signals /\ BasedIn(heard'[job'[s].signal], job'[s].cites)
                    /\ job'[s].seen <= Len(overlays')
                    /\ \A i \in 1..job'[s].seen :
                         overlays'[i].signal = job'[s].signal => overlays'[i].end + Window < now'
  BY DEF AllHeld, Held
<1>0. now' >= now /\ now' \in Nat /\ now \in Nat /\ Window \in Nat /\ Len(overlays) \in Nat
  BY MemoryStep, OverlayTypes DEF Typed
<1>1. CASE pc[s] = "overlay" /\ job'[s] = job[s]
  <2> DEFINE j == job[s]
  <2>1. /\ j.signal \in Signals /\ BasedIn(heard[j.signal], j.cites) /\ j.seen <= Len(overlays) /\ j.seen \in Nat
        /\ \A i \in 1..j.seen : overlays[i].signal = j.signal => overlays[i].end + Window < now
    BY <1>1 DEF AllHeld, Held, Typed, JobType
  <2> HIDE DEF j
  <2>2. BasedIn(heard'[j.signal], j.cites)
    BY <2>1, BasedKept
  <2>3. /\ j.seen <= Len(overlays')
        /\ \A i \in 1..j.seen : i \in DOMAIN overlays /\ overlays'[i] = overlays[i]
    <3>1. \A i \in 1..j.seen : i \in DOMAIN overlays
      BY <1>0, <2>1 DEF Typed
    <3>2. ASSUME NEW e \in Entries, Appended(e)
          PROVE  Len(overlays') = Len(overlays) + 1 /\ \A i \in DOMAIN overlays : overlays'[i] = overlays[i]
      BY <3>2 DEF Appended, Typed
    <3>. QED BY <1>0, <2>1, <3>1, <3>2, MemoryStep
  <2>4. \A i \in 1..j.seen : overlays'[i].signal = j.signal => overlays'[i].end + Window < now'
    BY <1>0, <2>1, <2>3, OverlayTypes
  <2>. QED BY <1>1, <2>1, <2>2, <2>3, <2>4 DEF j
<1>2. ASSUME NEW g \in Signals, Crossed(g), UNCHANGED memory,
             job'[s] = [signal |-> g, cites |-> Count(g), seen |-> Len(overlays)]
      PROVE  /\ job'[s].signal \in Signals /\ BasedIn(heard'[job'[s].signal], job'[s].cites)
             /\ job'[s].seen <= Len(overlays')
             /\ \A i \in 1..job'[s].seen :
                  overlays'[i].signal = job'[s].signal => overlays'[i].end + Window < now'
  <2>1. UNCHANGED <<now, heard, overlays>>
    BY <1>2 DEF memory
  <2>2. BasedIn(heard[g], Count(g)) /\ \A i \in DOMAIN overlays : overlays[i].signal = g => overlays[i].end + Window < now
    BY <1>2, GateOpens
  <2>3. BasedIn(heard'[job'[s].signal], job'[s].cites)
    BY <1>2, <2>1, <2>2 DEF Count
  <2>4. DOMAIN overlays = 1..Len(overlays)
    BY DEF Typed
  <2>. QED BY <1>0, <1>2, <2>1, <2>2, <2>3, <2>4
<1>. QED BY <1>1, <1>2, JobStep

\* ConsolidatedOnce of given files
OnceIn(file, log) ==
  \A j \in {k \in DOMAIN file : file[k].signal # NoSignal} :
    /\ BasedIn(log[file[j].signal], file[j].cites)
    /\ \A i \in {k \in DOMAIN file : file[k].signal # NoSignal} :
         /\ i < j
         /\ file[i].signal = file[j].signal
         /\ file[j].end - file[i].end <= Window
         => i > file[j].seen

LEMMA OnceIsIn ==
  /\ ConsolidatedOnce <=> OnceIn(overlays, heard)
  /\ ConsolidatedOnce' <=> OnceIn(overlays', heard')
BY DEF ConsolidatedOnce, Learned, Grounded, Count, OnceIn, BasedIn

LEMMA OnceStep ==
  ASSUME Typed, Typed', Remembered, [ContextNext]_vars
  PROVE  ConsolidatedOnce'
<1>0. /\ OnceIn(overlays, heard) /\ Dated /\ AllHeld
      /\ now \in Nat /\ Window \in Nat /\ NoSignal \notin Signals
      /\ \A i \in DOMAIN overlays : overlays[i].end \in Nat /\ overlays[i].signal \in Signals \union {NoSignal}
  <2>1. \A i \in DOMAIN overlays : overlays[i] \in Entries
    BY OverlayTypes
  <2>2. \A e \in Entries : e.signal \in Signals \union {NoSignal}
    BY DEF Entries
  <2>. QED BY <2>1, <2>2, OnceIsIn, OverlayTypes, MemoryAssumption DEF Remembered
<1>1. \A j \in DOMAIN overlays :
        overlays[j].signal # NoSignal => BasedIn(heard'[overlays[j].signal], overlays[j].cites)
  BY <1>0, BasedKept DEF OnceIn
<1>2. CASE overlays' = overlays
  <2>1. OnceIn(overlays, heard')
    BY <1>0, <1>1 DEF OnceIn
  <2>. QED BY <1>2, <2>1, OnceIsIn
<1>3. ASSUME NEW e \in Entries, Appended(e)
      PROVE  ConsolidatedOnce'
  <2> DEFINE n == Len(overlays) + 1
  <2>0. /\ DOMAIN overlays = 1..Len(overlays) /\ Len(overlays) \in Nat /\ overlays'[n] = e
        /\ \A i \in DOMAIN overlays : i \in DOMAIN overlays' /\ overlays'[i] = overlays[i]
        /\ \A i \in DOMAIN overlays' : i \in DOMAIN overlays \/ i = n
        /\ e.end = now
    BY <1>3, AppendIs DEF Appended
  <2>1. ASSUME NEW j \in DOMAIN overlays', overlays'[j].signal # NoSignal, j \in DOMAIN overlays
        PROVE  /\ BasedIn(heard'[overlays'[j].signal], overlays'[j].cites)
               /\ \A i \in DOMAIN overlays' :
                    /\ overlays'[i].signal # NoSignal /\ i < j
                    /\ overlays'[i].signal = overlays'[j].signal
                    /\ overlays'[j].end - overlays'[i].end <= Window
                    => i > overlays'[j].seen
    <3>1. overlays'[j] = overlays[j]
      BY <2>0, <2>1
    <3>2. \A i \in DOMAIN overlays' : i < j => i \in DOMAIN overlays /\ overlays'[i] = overlays[i]
      BY <2>0, <2>1
    <3>. QED BY <1>0, <1>1, <2>1, <3>1, <3>2 DEF OnceIn
  <2>2. ASSUME e.signal # NoSignal
        PROVE  /\ BasedIn(heard'[e.signal], e.cites)
               /\ \A i \in DOMAIN overlays' :
                    /\ overlays'[i].signal # NoSignal /\ i < n
                    /\ overlays'[i].signal = e.signal
                    /\ e.end - overlays'[i].end <= Window
                    => i > e.seen
    <3>1. PICK s \in Sessions : ByJob(e, s)
      BY <1>3, <2>2 DEF Appended, FirstOf, Later
    <3>2. /\ e.signal \in Signals /\ BasedIn(heard[e.signal], e.cites) /\ e.seen \in Nat
          /\ \A i \in 1..e.seen : overlays[i].signal = e.signal => overlays[i].end + Window < now
      BY <1>0, <3>1 DEF AllHeld, Held, ByJob, Typed, JobType
    <3>3. BasedIn(heard'[e.signal], e.cites)
      BY <3>2, BasedKept
    <3>4. ASSUME NEW i \in DOMAIN overlays', i < n, overlays'[i].signal = e.signal,
                 e.end - overlays'[i].end <= Window
          PROVE  i > e.seen
      <4>1. i \in DOMAIN overlays /\ overlays'[i] = overlays[i] /\ overlays[i].end \in Nat
        BY <1>0, <2>0, <3>4
      <4>2. i \in 1..e.seen => overlays[i].end + Window < now
        BY <3>2, <3>4, <4>1
      <4>. QED BY <1>0, <2>0, <3>2, <3>4, <4>1, <4>2
    <3>. QED BY <3>3, <3>4
  <2> HIDE DEF n
  <2>3. OnceIn(overlays', heard')
    BY <2>0, <2>1, <2>2 DEF OnceIn
  <2>. QED BY <2>3, OnceIsIn
<1>. QED BY <1>2, <1>3, MemoryStep

LEMMA InitRemembered ==
  ASSUME ContextInit
  PROVE  Remembered
<1>1. overlays = <<>> /\ \A s \in Sessions : pc[s] = "idle"
  BY DEF ContextInit, MemoryInit
<1>2. Dated /\ AllHeld
  BY <1>1 DEF Dated, AllHeld, Held
<1>3. ConsolidatedOnce
  BY <1>1 DEF ConsolidatedOnce, Learned
<1>. QED BY <1>2, <1>3 DEF Remembered

\* Every overlay that was learned rests on events of its signal, enough of them and
\* from enough sessions, and no consolidation repeats within the window one whose
\* overlay it could see: for any number of sessions that consolidate at once.
THEOREM LearnedOnce == Spec => []ConsolidatedOnce
<1>1. ContextInit => Typed /\ Remembered
  BY InitTyped, InitRemembered
<1>2. ASSUME Typed, Remembered, [ContextNext]_vars
      PROVE  Typed' /\ Remembered'
  BY <1>2, TypedStep, DatedStep, HeldStep, OnceStep DEF Remembered
<1>3. Typed /\ Remembered => ConsolidatedOnce
  BY DEF Remembered
<1>. QED BY <1>1, <1>2, <1>3, PTL DEF Spec

-----------------------------------------------------------------------------
(* What a turn is given                                                     *)

\* An artifact begins with its one overlay; what comes later does not expire.
Lived ==
  /\ \A j \in DOMAIN overlays :
       overlays[j].artifact # NoArtifact =>
         \E i \in DOMAIN overlays : i <= j /\ First(i, overlays[j].artifact)
  /\ \A i, j \in DOMAIN overlays :
       overlays[i].artifact # NoArtifact /\ First(i, overlays[i].artifact) /\ First(j, overlays[i].artifact)
         => i = j
  /\ \A j \in DOMAIN overlays : overlays[j].event # "HO3_OVERLAY" => overlays[j].expires = Never

LEMMA LivedStep ==
  ASSUME Typed, Typed', Lived, [ContextNext]_vars
  PROVE  Lived'
<1>1. CASE overlays' = overlays
  BY <1>1 DEF Lived, First
<1>2. ASSUME NEW e \in Entries, Appended(e)
      PROVE  Lived'
  <2> DEFINE n == Len(overlays) + 1
  <2>0. /\ DOMAIN overlays = 1..Len(overlays) /\ Len(overlays) \in Nat /\ overlays'[n] = e
        /\ n \in DOMAIN overlays' /\ n \notin DOMAIN overlays /\ \A i \in DOMAIN overlays : i <= n
        /\ \A i \in DOMAIN overlays : i \in DOMAIN overlays' /\ overlays'[i] = overlays[i]
        /\ \A i \in DOMAIN overlays' : i \in DOMAIN overlays \/ i = n
        /\ n <= n
    BY <1>2, AppendIs
  <2> HIDE DEF n
  <2>1. /\ e.artifact # NoArtifact => FirstOf(e) \/ Later(e)
        /\ e.event # "HO3_OVERLAY" => e.expires = Never
    BY <1>2 DEF Appended, ByJob, FirstOf, Later
  <2>2. ASSUME NEW j \in DOMAIN overlays', overlays'[j].artifact # NoArtifact
        PROVE  \E i \in DOMAIN overlays' :
                  i <= j /\ overlays'[i].artifact = overlays'[j].artifact /\ overlays'[i].event = "HO3_OVERLAY"
    <3>1. CASE j \in DOMAIN overlays
      BY <2>0, <2>2, <3>1 DEF Lived, First
    <3>2. CASE j = n /\ FirstOf(e)
      BY <2>0, <3>2 DEF FirstOf
    <3>3. CASE j = n /\ Later(e)
      <4>1. PICK i \in DOMAIN overlays : First(i, e.artifact)
        BY <3>3, FoundIs DEF Later
      <4>. QED BY <2>0, <3>3, <4>1 DEF First
    <3>. QED BY <2>0, <2>1, <2>2, <3>1, <3>2, <3>3
  <2>3. ASSUME NEW i \in DOMAIN overlays', NEW j \in DOMAIN overlays', overlays'[i].artifact # NoArtifact,
               overlays'[i].event = "HO3_OVERLAY", overlays'[j].event = "HO3_OVERLAY",
               overlays'[i].artifact = overlays'[j].artifact
        PROVE  i = j
    <3>1. CASE i \in DOMAIN overlays /\ j \in DOMAIN overlays
      BY <2>0, <2>3, <3>1 DEF Lived, First
    <3>2. CASE (i = n \/ j = n) /\ FirstOf(e)
      <4>1. \A k \in DOMAIN overlays : ~First(k, e.artifact)
        BY <3>2, FoundIs DEF FirstOf
      <4>. QED BY <2>0, <2>3, <3>2, <4>1 DEF First
    <3>3. CASE (i = n \/ j = n) /\ Later(e)
      BY <2>0, <2>3, <3>3 DEF Later
    <3>. QED BY <2>0, <2>1, <2>3, <3>1, <3>2, <3>3
  <2>4. \A j \in DOMAIN overlays' : overlays'[j].event # "HO3_OVERLAY" => overlays'[j].expires = Never
    BY <2>0, <2>1 DEF Lived
  <2>. QED BY <2>2, <2>3, <2>4 DEF Lived, First
<1>. QED BY <1>1, <1>2, MemoryStep

\* An overlay that a turn of time t may use is in force then.
LEMMA ActiveInForce ==
  ASSUME Typed, Lived, NEW t \in Nat, NEW i \in ActiveBiases(t)
  PROVE  InForce(i, t)
<1> DEFINE a == overlays[i].artifact
           own == {j \in DOMAIN overlays : overlays[j].artifact = a /\ a # NoArtifact}
           w == LastOf(a, {"HO3_OVERLAY_WEIGHT_UPDATED"})
           d == LastOf(a, {"HO3_OVERLAY_DEACTIVATED"})
           m == Max(own)
<1>0. /\ i \in DOMAIN overlays /\ overlays[i].event = "HO3_OVERLAY"
      /\ DOMAIN overlays = 1..Len(overlays) /\ Len(overlays) \in Nat
      /\ \A j \in DOMAIN overlays : overlays[j] \in Entries
  BY OverlayTypes DEF ActiveBiases, Typed
<1>a. \A e \in Entries : e.event \in Kinds /\ (e.expires # Never => e.expires \in Nat)
  BY MemoryAssumption DEF Entries, Times
<1>1. CASE a = NoArtifact
  BY <1>1 DEF InForce
<1>2. CASE a # NoArtifact
  <2>0. /\ d <= w /\ ~ExpiredAt(i, t)
        /\ IF w > 0 THEN overlays[w].weight > 0 ELSE overlays[i].weight > 0
    <3>1. /\ i = Base(a) /\ ~Withdrawn(a) /\ ~ExpiredAt(i, t) /\ WeightOf(i) > 0
      BY <1>2 DEF ActiveBiases
    <3>2. d \in Nat /\ w \in Nat
      BY LastOfIs
    <3>. QED BY <3>1, <3>2 DEF Withdrawn, WeightOf
  <2>1. /\ w \in Nat
        /\ w # 0 => w \in DOMAIN overlays /\ overlays[w].artifact = a /\ overlays[w].event \in {"HO3_OVERLAY_WEIGHT_UPDATED"}
        /\ \A j \in DOMAIN overlays :
             overlays[j].artifact = a /\ overlays[j].event \in {"HO3_OVERLAY_WEIGHT_UPDATED"} => j <= w
    BY LastOfIs
  <2>2. /\ d \in Nat
        /\ \A j \in DOMAIN overlays :
             overlays[j].artifact = a /\ overlays[j].event \in {"HO3_OVERLAY_DEACTIVATED"} => j <= d
    BY LastOfIs
  <2>3. own \in SUBSET (0..Len(overlays)) /\ i \in own
    BY <1>0, <1>2
  <2>4. m \in own /\ \A y \in own : y <= m
    <3> HIDE DEF own
    <3>. QED BY <1>0, <2>3, Greatest
  <2>5. \A j \in own : overlays[j].event = "HO3_OVERLAY" => j = i
    BY <1>0, <1>2 DEF Lived, First
  <2>6. \A j \in own : i <= j
    <3> SUFFICES ASSUME NEW j \in own PROVE i <= j
      OBVIOUS
    <3>1. PICK k \in DOMAIN overlays : k <= j /\ First(k, a)
      BY <1>2 DEF Lived
    <3>2. k = i
      BY <1>2, <2>5, <3>1 DEF First
    <3>. QED BY <3>1, <3>2
  <2>7. own = {j \in DOMAIN overlays : overlays[j].artifact = overlays[i].artifact
                                       /\ overlays[j].artifact # NoArtifact}
    OBVIOUS
  <2>8. m \in Nat \ {0} /\ m \in DOMAIN overlays /\ overlays[m].artifact = a
    BY <1>0, <2>4
  <2>9. w # 0 => w \in own /\ w <= m
    BY <1>2, <2>1, <2>4
  <2> HIDE DEF own, w, d, m
  <2>10. overlays[m].event # "HO3_OVERLAY_DEACTIVATED"
    <3> SUFFICES ASSUME overlays[m].event = "HO3_OVERLAY_DEACTIVATED" PROVE FALSE
      OBVIOUS
    <3>1. m <= d
      BY <2>2, <2>8
    <3>2. w = m
      BY <2>0, <2>1, <2>2, <2>8, <2>9, <3>1
    <3>. QED BY <2>1, <2>8, <3>2
  <2>11. overlays[m].weight > 0
    <3>1. CASE overlays[m].event = "HO3_OVERLAY"
      <4>1. m = i
        BY <2>4, <2>5, <3>1
      <4>2. w = 0
        <5> SUFFICES ASSUME w # 0 PROVE FALSE
          OBVIOUS
        <5>1. w = m
          BY <2>1, <2>6, <2>8, <2>9, <4>1
        <5>. QED BY <2>1, <3>1, <5>1
      <4>. QED BY <2>0, <4>1, <4>2
    <3>2. CASE overlays[m].event = "HO3_OVERLAY_WEIGHT_UPDATED"
      <4>1. m <= w
        BY <2>1, <2>8, <3>2
      <4>2. w = m
        BY <2>1, <2>8, <2>9, <4>1
      <4>. QED BY <2>0, <2>8, <4>2
    <3>. QED BY <1>0, <1>a, <2>8, <2>10, <3>1, <3>2 DEF Kinds
  <2>12. ASSUME NEW j \in own
         PROVE  overlays[j].expires = Never \/ t < overlays[j].expires
    <3>1. CASE overlays[j].event = "HO3_OVERLAY"
      <4>1. j = i
        BY <2>5, <3>1
      <4>. QED BY <1>0, <1>a, <2>0, <4>1 DEF ExpiredAt
    <3>2. CASE overlays[j].event # "HO3_OVERLAY"
      <4>1. j \in DOMAIN overlays
        BY <2>12 DEF own
      <4>. QED BY <3>2, <4>1 DEF Lived
    <3>. QED BY <3>1, <3>2
  <2>. QED BY <2>7, <2>10, <2>11, <2>12 DEF InForce, m
<1>. QED BY <1>1, <1>2

LEMMA GivenStep ==
  ASSUME Typed, Lived, [ContextNext]_vars, NEW s \in Sessions, Assembled(s)
  PROVE  /\ Cardinality(injected'[s]) <= BiasBudget
         /\ \A i \in injected'[s] :
              InForce(i, said[s].asof) /\ overlays[i].tag \in {said[s].tag, Global}
<1>0. /\ pc \in [Sessions -> Steps] /\ pc[s] = "assemble" /\ pc'[s] = "synthesize"
      /\ DOMAIN injected = Sessions /\ said[s].asof \in Nat
  BY DEF Typed, Assembled, SaidType
<1>1. Assemble(s)
  <2>1. CASE Outside \/ UNCHANGED vars
    BY <1>0, <2>1 DEF Outside, vars
  <2>2. ASSUME NEW r \in Sessions, Step(r), r # s
        PROVE  FALSE
    BY <1>0, <2>2, StepTyped
  <2>3. CASE Step(s)
    BY <1>0, <2>3 DEF Step, Classify, KeepIntent, EndIntent, DeclareIntent, Synthesize, GiveSignals,
       Consolidate, WriteOverlay, WriteThen, Go
  <2>. QED BY <2>1, <2>2, <2>3 DEF ContextNext
<1>2. PICK chosen \in Selections(Eligible(s)) : injected' = [injected EXCEPT ![s] = chosen]
  BY <1>0, <1>1 DEF Assemble, Go
<1>3. injected'[s] = chosen /\ chosen \subseteq Eligible(s) /\ Cardinality(chosen) <= BiasBudget
  BY <1>0, <1>2 DEF Selections
<1>4. ASSUME NEW i \in chosen
      PROVE  InForce(i, said[s].asof) /\ overlays[i].tag \in {said[s].tag, Global}
  <2>1. i \in ActiveBiases(said[s].asof) /\ InScope(i, said[s].tag)
    BY <1>3, <1>4 DEF Eligible
  <2>2. InForce(i, said[s].asof)
    BY <1>0, <2>1, ActiveInForce
  <2>. QED BY <2>1, <2>2 DEF InScope
<1>. QED BY <1>3, <1>4

\* Nothing a turn is given of the memory has been withdrawn, has lost its weight, has
\* expired or is meant for others, whatever other sessions and calls by hand append.
THEOREM GivenInForce == Spec => InjectedInForce
<1>1. ContextInit => Typed /\ Lived
  <2>1. ContextInit => Lived
    BY DEF ContextInit, MemoryInit, Lived
  <2>. QED BY <2>1, InitTyped
<1>2. ASSUME Typed, Lived, [ContextNext]_vars
      PROVE  Typed' /\ Lived'
  BY <1>2, TypedStep, LivedStep
<1>3. ASSUME Typed, Lived, [ContextNext]_vars
      PROVE  [\A s \in Sessions :
                Assembled(s) =>
                  /\ Cardinality(injected'[s]) <= BiasBudget
                  /\ \A i \in injected'[s] :
                       InForce(i, said[s].asof) /\ overlays[i].tag \in {said[s].tag, Global}]_vars
  BY <1>3, GivenStep
<1>. QED BY <1>1, <1>2, <1>3, PTL DEF Spec, InjectedInForce

-----------------------------------------------------------------------------
(* The types of every variable                                              *)

\* No session has begun more turns than all of them together.
LEMMA TurnsFit ==
  ASSUME turns \in [Sessions -> 0..MaxTurns], AllTurns < MaxTurns, NEW s \in Sessions
  PROVE  turns[s] + 1 \in 0..MaxTurns
<1> DEFINE all == Sessions \X (1..MaxTurns)
           begun == {b \in all : b[2] <= turns[b[1]]}
           own == {s} \X (1..turns[s])
<1>0. turns[s] \in Nat /\ turns[s] <= MaxTurns /\ MaxTurns \in Nat
  BY ContextAssumption
<1>1. IsFiniteSet(all)
  <2>1. IsFiniteSet(1..MaxTurns)
    BY <1>0, FS_Interval
  <2>2. IsFiniteSet(Sessions)
    BY MemoryAssumption
  <2>. QED BY <2>1, <2>2, FS_Product
<1>2. IsFiniteSet(begun) /\ Cardinality(begun) \in Nat
  BY <1>1, FS_Subset, FS_CardinalityType
<1>3. own \subseteq begun
  BY <1>0
<1>4. Cardinality(own) = turns[s]
  <2>1. IsFiniteSet({s}) /\ Cardinality({s}) = 1
    BY FS_Singleton
  <2>2. IsFiniteSet(1..turns[s]) /\ Cardinality(1..turns[s]) = turns[s]
    BY <1>0, FS_Interval
  <2>3. Cardinality(own) = 1 * turns[s]
    BY <2>1, <2>2, FS_Product
  <2>. QED BY <1>0, <2>3
<1>5. Cardinality(own) <= Cardinality(begun)
  BY <1>2, <1>3, FS_Subset
<1>6. Cardinality(begun) < MaxTurns
  BY DEF AllTurns
<1> HIDE DEF own, begun, all
<1>. QED BY <1>0, <1>2, <1>4, <1>5, <1>6

\* The context of a synthesis is a list of numbers of lines.
LEMMA MaxOfOne ==
  ASSUME NEW n \in Nat
  PROVE  Max({1, n}) \in Nat
<1>1. {1, n} \in SUBSET (0..(n + 1)) /\ {1, n} # {}
  OBVIOUS
<1>2. Max({1, n}) \in {1, n}
  BY <1>1, Greatest
<1>. QED BY <1>2

LEMMA NumbersFinite ==
  ASSUME Typed, NEW s \in Sessions, NEW S \in SUBSET Numbers(s)
  PROVE  Cardinality(S) \in Nat
<1> DEFINE f == [i \in DOMAIN events[s] |-> events[s][i][2]]
<1>1. DOMAIN events[s] = 1..Len(events[s]) /\ Len(events[s]) \in Nat
  BY DEF Typed, LogType
<1>2. IsFiniteSet(DOMAIN events[s])
  BY <1>1, FS_Interval
<1>3. f \in Surjection(DOMAIN events[s], Numbers(s))
  BY DEF Numbers, Surjection
<1>4. IsFiniteSet(Numbers(s))
  <2> HIDE DEF f
  <2>. QED BY <1>2, <1>3, FS_Surjection
<1>. QED BY <1>4, FS_Subset, FS_CardinalityType

LEMMA ProjectionType ==
  ASSUME NEW live, NEW biases, Cardinality(live.failed) \in Nat, Cardinality(live.open) \in Nat,
         Cardinality(biases) \in Nat
  PROVE  Projection(live, biases) \in Seq(Nat)
<1> DEFINE Cut(lines, room) == Least(lines, Least(SectionBudget, room))
           whole == 2 * SectionBudget
           lines1 == IF live.intents = {} THEN 2 ELSE 4
           lines2 == 1 + Max({1, Cardinality(live.failed)})
           lines3 == 1 + Max({1, Cardinality(live.open)})
           lines4 == 1 + Max({1, Cardinality(biases)})
           first == Cut(lines1, whole)
           room2 == whole - first
           second == Cut(lines2, room2)
           room3 == room2 - second
           third == Cut(lines3, room3)
           room4 == room3 - third
           fourth == Cut(lines4, room4)
<1>1. whole \in Nat /\ SectionBudget \in Nat
  BY ContextAssumption
<1>2. ASSUME NEW lines \in Nat, NEW room \in Nat
      PROVE  Cut(lines, room) \in Nat /\ room - Cut(lines, room) \in Nat
  BY <1>1 DEF Least
<1>3. lines1 \in Nat /\ lines2 \in Nat /\ lines3 \in Nat /\ lines4 \in Nat
  BY MaxOfOne
<1>4. Projection(live, biases) = <<first, second, third, fourth>>
  BY DEF Projection
<1> HIDE DEF whole, Cut, lines1, lines2, lines3, lines4
<1>5. first \in Nat /\ room2 \in Nat
  BY <1>1, <1>2, <1>3
<1> HIDE DEF first, room2
<1>6. second \in Nat /\ room3 \in Nat
  BY <1>2, <1>3, <1>5
<1> HIDE DEF second, room3
<1>7. third \in Nat /\ room4 \in Nat
  BY <1>2, <1>3, <1>6
<1> HIDE DEF third, room4
<1>8. fourth \in Nat
  BY <1>2, <1>3, <1>7
<1> HIDE DEF fourth
<1>. QED BY <1>4, <1>5, <1>6, <1>7, <1>8

LEMMA AttentionType ==
  ASSUME Typed, NEW s \in Sessions
  PROVE  Attention(s) \in Seq(Nat)
<1> DEFINE ends == {i \in DOMAIN events[s] : events[s][i][1] \in Ends}
<1>1. DOMAIN events[s] = 1..Len(events[s]) /\ Len(events[s]) \in Nat
  BY DEF Typed, LogType
<1>2. IsFiniteSet(1..Len(events[s])) /\ Cardinality(1..Len(events[s])) = Len(events[s])
  BY <1>1, FS_Interval
<1>3. Cardinality(ends) \in Nat /\ Cardinality(ends) <= Len(events[s])
  BY <1>1, <1>2, FS_Subset, FS_CardinalityType
<1> HIDE DEF ends
<1>4. Recent(s) \in Nat
  <2>1. Recent(s) = Least(20, Len(events[s]) - Cardinality(ends)) + Least(10, Cardinality(ends))
    BY DEF Recent, ends
  <2>. QED BY <1>1, <1>3, <2>1 DEF Least
<1>5. Least(Scanned(s), ScanBudget) \in Nat
  BY <1>4, ContextAssumption DEF Scanned, WithinScan, Least
<1>. QED BY <1>5 DEF Attention

\* Bounds of the types: a session that has still to declare an intent this turn has
\* numbered fewer intents than it has begun turns.
Positive(q) == \A i \in DOMAIN q : q[i][2] > 0
Planned(q) == \E i \in DOMAIN q : q[i][1] = "WO_PLANNED"
NumbersIn(q) == {q[i][2] : i \in DOMAIN q}
SnapType == [intents : SUBSET Nat, open : SUBSET Nat, failed : SUBSET Nat]
InLog(snap, q) ==
  /\ snap.intents \subseteq NumbersIn(q) /\ snap.open \subseteq NumbersIn(q)
  /\ snap.failed \subseteq NumbersIn(q)

Numbered(s) ==
  /\ sequence[s] <= turns[s]
  /\ pc[s] \in {"intent", "declare"} => sequence[s] < turns[s]
  /\ cache[s] \subseteq 1..sequence[s]
Logged(s) ==
  /\ Positive(events[s])
  /\ pc[s] = "overlay" => Planned(events[s])
  /\ InLog(shown[s], events[s])
Sized ==
  /\ edits \in 0..MaxEdits /\ faults \in 0..MaxFaults
  /\ turns \in [Sessions -> 0..MaxTurns] /\ tries \in [Sessions -> 0..MaxRetries]
  /\ shown \in [Sessions -> SnapType]
  /\ context \in [Sessions -> Seq(Nat)]
  /\ \A s \in Sessions :
       /\ said[s].asof <= now
       /\ injected[s] \subseteq DOMAIN overlays
       /\ Numbered(s) /\ Logged(s)

LEMMA Narrower ==
  ASSUME NEW S, NEW T, NEW q \in Seq(S), \A i \in DOMAIN q : q[i] \in T
  PROVE  q \in Seq(T)
<1>1. q \in [1..Len(q) -> T] /\ Len(q) \in Nat
  OBVIOUS
<1>2. q \in UNION {[1..n -> T] : n \in Nat}
  BY <1>1
<1>. QED BY <1>2, SeqDef, Zenon

LEMMA SizedTypes == Typed /\ Sized => TypeOK
<1> SUFFICES ASSUME Typed, Sized PROVE TypeOK
  OBVIOUS
<1>1. ASSUME NEW s \in Sessions
      PROVE  /\ turns[s] \in 0..MaxTurns /\ tries[s] \in 0..MaxRetries
             /\ sequence[s] \in 0..turns[s] /\ cache[s] \subseteq 1..sequence[s]
  BY ContextAssumption DEF Typed, Sized, Numbered
<1>2. ASSUME NEW s \in Sessions
      PROVE  said[s] \in [asof : 0..now, action : Actions, tag : Tags \union {NoTag}]
  <2>1. said[s] \in SaidType /\ said[s].asof <= now /\ now \in Nat
    BY MemoryAssumption DEF Typed, Sized, Times
  <2>. QED BY <2>1 DEF SaidType
<1>3. ASSUME NEW s \in Sessions
      PROVE  events[s] \in Seq((IntentEvents \union WOEvents \union Ends) \X (Nat \ {0}))
  <2>1. events[s] \in LogType /\ Positive(events[s])
    BY DEF Typed, Sized, Logged
  <2>2. \A i \in DOMAIN events[s] : events[s][i] \in EntryNames \X Nat /\ events[s][i][2] > 0
    BY <2>1 DEF LogType, Positive
  <2>3. \A i \in DOMAIN events[s] : events[s][i] \in EntryNames \X (Nat \ {0})
    BY <2>2
  <2>4. events[s] \in Seq(EntryNames \X (Nat \ {0}))
    BY <2>1, <2>3, Narrower DEF LogType
  <2>. QED BY <2>4 DEF EntryNames
<1>4. ASSUME NEW s \in Sessions
      PROVE  \A k \in DOMAIN shown[s] : shown[s][k] \subseteq Numbers(s)
  <2>1. shown[s] \in SnapType /\ InLog(shown[s], events[s])
    BY DEF Sized, Logged
  <2>2. NumbersIn(events[s]) = Numbers(s)
    BY DEF NumbersIn, Numbers
  <2>3. DOMAIN shown[s] = {"intents", "open", "failed"}
    BY <2>1 DEF SnapType
  <2>. QED BY <2>1, <2>2, <2>3 DEF InLog
<1>5. ASSUME NEW s \in Sessions
      PROVE  /\ pc[s] \in Steps /\ context[s] \in Seq(Nat) /\ injected[s] \subseteq DOMAIN overlays
             /\ candidates[s] \subseteq Signals /\ job[s] \in JobType
  BY DEF Typed, Sized
<1>. QED BY <1>1, <1>2, <1>3, <1>4, <1>5 DEF TypeOK, Typed, Sized, Steps, JobType

LEMMA InitSized == ContextInit => Sized
<1> SUFFICES ASSUME ContextInit PROVE Sized
  OBVIOUS
<1>1. /\ edits \in 0..MaxEdits /\ faults \in 0..MaxFaults
      /\ turns \in [Sessions -> 0..MaxTurns] /\ tries \in [Sessions -> 0..MaxRetries]
      /\ shown \in [Sessions -> SnapType]
      /\ context \in [Sessions -> Seq(Nat)]
  BY MemoryAssumption, ContextAssumption DEF ContextInit, MemoryInit, SnapType
<1>2. ASSUME NEW s \in Sessions
      PROVE  /\ said[s].asof <= now /\ injected[s] \subseteq DOMAIN overlays
             /\ Numbered(s) /\ Logged(s)
  BY DEF ContextInit, MemoryInit, NoTurn, Numbered, Logged, Positive, InLog, NumbersIn
<1>. QED BY <1>1, <1>2 DEF Sized

\* What is appended to a log leaves what was true of it true.
LEMMA LogGrows ==
  ASSUME NEW q \in LogType, NEW r \in LogType, Positive(q), Positive(r)
  PROVE  /\ Positive(q \o r)
         /\ Planned(q) \/ Planned(r) => Planned(q \o r)
         /\ NumbersIn(q) \subseteq NumbersIn(q \o r)
<1> DEFINE both == q \o r
<1>1. /\ DOMAIN both = 1..(Len(q) + Len(r)) /\ DOMAIN q = 1..Len(q) /\ DOMAIN r = 1..Len(r)
      /\ Len(q) \in Nat /\ Len(r) \in Nat
      /\ \A i \in 1..Len(q) : both[i] = q[i]
      /\ \A i \in (Len(q) + 1)..(Len(q) + Len(r)) : both[i] = r[i - Len(q)]
      /\ \A i \in 1..Len(r) : both[i + Len(q)] = r[i]
  BY DEF LogType
<1> HIDE DEF both
<1>2. \A i \in DOMAIN q : i \in DOMAIN both /\ both[i] = q[i]
  BY <1>1
<1>3. \A i \in DOMAIN r : i + Len(q) \in DOMAIN both /\ both[i + Len(q)] = r[i]
  BY <1>1
<1>4. \A i \in DOMAIN both : (i \in DOMAIN q) \/ (i - Len(q) \in DOMAIN r /\ both[i] = r[i - Len(q)])
  BY <1>1
<1>5. Positive(both)
  BY <1>2, <1>4 DEF Positive
<1>6. Planned(q) \/ Planned(r) => Planned(both)
  BY <1>2, <1>3 DEF Planned
<1>7. NumbersIn(q) \subseteq NumbersIn(both)
  BY <1>2 DEF NumbersIn
<1>. QED BY <1>5, <1>6, <1>7 DEF both


LEMMA RanPositive ==
  ASSUME Typed, NEW s \in Sessions, NEW end \in Ends
  PROVE  /\ Positive(Ran(s, end))
         /\ Positive(Append(Ran(s, end), <<"ESCALATION", NextWO(s)>>))
         /\ Positive(<<<<"WO_PLANNED", NextWO(s)>>, <<"WO_DISPATCHED", NextWO(s)>>>>)
         /\ Planned(<<<<"WO_PLANNED", NextWO(s)>>, <<"WO_DISPATCHED", NextWO(s)>>>>)
<1> DEFINE n == NextWO(s)
<1>1. n > 0
  BY NextIsNumber
<1>2. Positive(Ran(s, end))
  BY <1>1 DEF Positive, Ran
<1>3. Positive(<<<<"WO_PLANNED", n>>, <<"WO_DISPATCHED", n>>>>)
  BY <1>1 DEF Positive
<1>4. Planned(<<<<"WO_PLANNED", n>>, <<"WO_DISPATCHED", n>>>>)
  BY DEF Planned
<1>5. Positive(Append(Ran(s, end), <<"ESCALATION", n>>))
  <2> DEFINE q == Ran(s, end)
             d == <<"ESCALATION", n>>
  <2>1. q \in LogType /\ d \in EntryNames \X Nat /\ d[2] = n
    BY NextIsNumber, RanType, Names DEF WOLog
  <2> HIDE DEF q, d
  <2>2. \A i \in DOMAIN Append(q, d) :
          (i \in DOMAIN q /\ Append(q, d)[i] = q[i]) \/ Append(q, d)[i] = d
    BY <2>1 DEF LogType
  <2>3. Positive(Append(q, d))
    BY <1>1, <1>2, <2>1, <2>2 DEF Positive, q
  <2>. QED BY <2>3 DEF q, d
<1>. QED BY <1>2, <1>3, <1>4, <1>5

\* A consolidation under way has a work order planned.
LEMMA PlannedCounts ==
  ASSUME Typed, NEW s \in Sessions, Planned(events[s])
  PROVE  NextWO(s) - 1 > 0
<1> DEFINE I == {i \in DOMAIN events[s] : events[s][i][1] = "WO_PLANNED"}
<1>1. events[s] \in LogType
  BY DEF Typed
<1>2. I \subseteq 1..Len(events[s]) /\ Len(events[s]) \in Nat
  BY <1>1 DEF LogType
<1>3. IsFiniteSet(1..Len(events[s]))
  BY <1>2, FS_Interval
<1>4. IsFiniteSet(I) /\ I # {}
  BY <1>2, <1>3, FS_Subset DEF Planned
<1>5. Cardinality(I) \in Nat /\ Cardinality(I) # 0
  BY <1>4, FS_CardinalityType, FS_EmptySet
<1>6. NextWO(s) = 1 + Cardinality(I)
  BY DEF NextWO
<1> HIDE DEF I
<1>. QED BY <1>5, <1>6

\* What a step of session s writes.
LEMMA Writing ==
  ASSUME Typed, Sized, NEW s \in Sessions, Step(s)
  PROVE  \/ events' = events
         \/ \E r \in LogType : Positive(r) /\ Log(s, r)
<1>0. Logged(s) /\ Numbered(s)
  BY DEF Sized
<1>a. <<>> \in LogType /\ Positive(<<>>)
  BY DEF LogType, Positive
<1>b. \A q \in WOLog : q \in LogType
  BY DEF WOLog
<1>c. \A e \in EntryNames, n \in Nat : n > 0 => <<<<e, n>>>> \in LogType /\ Positive(<<<<e, n>>>>)
  BY Entry1 DEF Positive
<1>1. CASE KeepIntent(s) \/ Assemble(s) \/ GiveSignals(s)
  BY <1>1 DEF KeepIntent, Assemble, GiveSignals
<1>2. CASE Classify(s)
  <2>1. PICK end \in Ends : Log(s, Ran(s, end))
    BY <1>2 DEF Classify
  <2>. QED BY <1>b, <2>1, RanType, RanPositive
<1>3. CASE EndIntent(s)
  <2>1. PICK n \in cache[s] :
          LET event == IF Decision(s) = "close" THEN "INTENT_CLOSED" ELSE "INTENT_SUPERSEDED"
          IN  WriteThen(s, <<<<event, n>>>>,
                        IF Decision(s) = "close" THEN "assemble" ELSE "declare",
                        cache' = [cache EXCEPT ![s] = @ \ {n}], cache' = cache)
    BY <1>3 DEF EndIntent
  <2> DEFINE event == IF Decision(s) = "close" THEN "INTENT_CLOSED" ELSE "INTENT_SUPERSEDED"
  <2>2. Log(s, <<<<event, n>>>>) \/ Log(s, <<>>)
    BY <2>1 DEF WriteThen
  <2>3. event \in EntryNames
    BY DEF EntryNames, IntentEvents
  <2>4. n \in Nat /\ n > 0
    BY <1>0 DEF Numbered, Typed
  <2> HIDE DEF event
  <2>. QED BY <1>a, <1>c, <2>2, <2>3, <2>4
<1>4. CASE DeclareIntent(s)
  <2> DEFINE n == sequence[s] + 1
  <2>1. Log(s, <<<<"INTENT_DECLARED", n>>>>) \/ Log(s, <<>>)
    BY <1>4 DEF DeclareIntent, WriteThen
  <2>2. n \in Nat /\ n > 0 /\ "INTENT_DECLARED" \in EntryNames
    BY DEF Typed, EntryNames, IntentEvents
  <2> HIDE DEF n
  <2>. QED BY <1>a, <1>c, <2>1, <2>2
<1>5. CASE Synthesize(s)
  <2>1. "WO_COMPLETED" \in Ends
    BY Names
  <2>2. \/ \E end \in Ends : Log(s, Ran(s, end))
        \/ \E end \in Ends : Log(s, Append(Ran(s, end), <<"ESCALATION", NextWO(s)>>))
    BY <1>5, <2>1 DEF Synthesize, Accept, Retry, Escalate
  <2>. QED BY <1>b, <2>2, RanType, RanPositive
<1>6. ASSUME NEW g \in Signals, Consolidate(s, g)
      PROVE  events' = events \/ Log(s, <<<<"WO_PLANNED", NextWO(s)>>, <<"WO_DISPATCHED", NextWO(s)>>>>)
  BY <1>6 DEF Consolidate
<1>7. CASE WriteOverlay(s)
  <2>1. PICK end \in Ends : Log(s, <<<<end, NextWO(s) - 1>>>>)
    BY <1>7 DEF WriteOverlay
  <2>2. NextWO(s) - 1 > 0
    BY <1>0, <1>7, PlannedCounts DEF Logged, WriteOverlay
  <2>3. end \in EntryNames /\ NextWO(s) - 1 \in Nat
    BY NextIsNumber DEF EntryNames
  <2>. QED BY <1>c, <2>1, <2>2, <2>3
<1>8. CASE \E g \in Signals : Consolidate(s, g)
  <2>1. "WO_COMPLETED" \in Ends
    BY Names
  <2>. QED BY <1>6, <1>8, <1>b, <2>1, RanType, RanPositive
<1>. QED BY <1>1, <1>2, <1>3, <1>4, <1>5, <1>7, <1>8 DEF Step

\* The steps of session s leave what is the others' own alone.
LEMMA OthersKeep ==
  ASSUME Typed, Sized, NEW s \in Sessions, NEW r \in Sessions \ {s}, Step(s)
  PROVE  /\ pc'[r] = pc[r] /\ turns'[r] = turns[r] /\ said'[r] = said[r]
         /\ cache'[r] = cache[r] /\ sequence'[r] = sequence[r] /\ events'[r] = events[r]
         /\ shown'[r] = shown[r] /\ injected'[r] = injected[r]
<1>0. pc'[r] = pc[r] /\ events'[r] = events[r]
  <2>1. Wrote(s) /\ pc'[r] = pc[r]
    BY StepTyped
  <2>. QED BY <2>1 DEF Wrote, Log, Typed
<1>1. CASE Classify(s)
  BY <1>0, <1>1 DEF Classify, intents, prompt, Typed, Sized
<1>2. CASE KeepIntent(s)
  BY <1>0, <1>2 DEF KeepIntent, turn, intents, prompt
<1>3. CASE EndIntent(s)
  BY <1>0, <1>3 DEF EndIntent, WriteThen, prompt, Typed
<1>4. CASE DeclareIntent(s)
  BY <1>0, <1>4 DEF DeclareIntent, WriteThen, intents, prompt, Typed
<1>5. CASE Assemble(s)
  BY <1>0, <1>5 DEF Assemble, intents, Typed, Sized
<1>6. CASE Synthesize(s)
  BY <1>0, <1>6 DEF Synthesize, Accept, Retry, Escalate, Leave, intents, Typed
<1>7. CASE GiveSignals(s)
  BY <1>0, <1>7 DEF GiveSignals, turn, intents, prompt
<1>8. CASE (\E g \in Signals : Consolidate(s, g)) \/ WriteOverlay(s)
  BY <1>0, <1>8 DEF Consolidate, WriteOverlay, turn, intents, prompt
<1>. QED BY <1>1, <1>2, <1>3, <1>4, <1>5, <1>6, <1>7, <1>8 DEF Step


LEMMA Grown ==
  ASSUME Typed, Sized, NEW s \in Sessions, Step(s)
  PROVE  /\ Positive(events'[s])
         /\ Planned(events[s]) => Planned(events'[s])
         /\ NumbersIn(events[s]) \subseteq NumbersIn(events'[s])
<1>0. events[s] \in LogType /\ Positive(events[s])
  BY DEF Typed, Sized, Logged
<1>1. CASE events' = events
  BY <1>0, <1>1
<1>2. ASSUME NEW r \in LogType, Positive(r), Log(s, r)
      PROVE  /\ Positive(events'[s])
             /\ Planned(events[s]) => Planned(events'[s])
             /\ NumbersIn(events[s]) \subseteq NumbersIn(events'[s])
  <2>1. events'[s] = events[s] \o r
    BY <1>2 DEF Log, Typed
  <2>. QED BY <1>0, <1>2, <2>1, LogGrows
<1>. QED BY <1>1, <1>2, Writing

\* What the memory holds only grows.
LEMMA OverlaysStay ==
  ASSUME Typed, [ContextNext]_vars
  PROVE  DOMAIN overlays \subseteq DOMAIN overlays'
BY MemoryStep, AppendIs

\* The numbers a session has given, and its turns.
LEMMA NumberedStep ==
  ASSUME Typed, Typed', Sized, NEW s \in Sessions, Step(s)
  PROVE  Numbered(s)'
<1>0. /\ turns \in [Sessions -> 0..MaxTurns] /\ turns[s] \in Nat
      /\ pc \in [Sessions -> Steps] /\ pc[s] \in Steps
      /\ sequence \in [Sessions -> Nat] /\ sequence[s] \in Nat /\ cache \in [Sessions -> SUBSET Nat]
      /\ Numbered(s)
  BY ContextAssumption DEF Typed, Sized
<1>1. CASE Classify(s)
  <2>1. turns'[s] = turns[s] + 1 /\ UNCHANGED <<cache, sequence>>
    BY <1>0, <1>1 DEF Classify, intents
  <2>2. sequence[s] <= turns[s] /\ cache[s] \subseteq 1..sequence[s]
    BY <1>0 DEF Numbered
  <2>. QED BY <1>0, <2>1, <2>2 DEF Numbered
<1>2. CASE KeepIntent(s)
  BY <1>0, <1>2 DEF KeepIntent, Go, turn, intents, Numbered
<1>3. CASE EndIntent(s)
  <2>1. /\ turns' = turns /\ sequence' = sequence /\ pc[s] = "intent"
        /\ cache'[s] \subseteq cache[s]
    BY <1>0, <1>3 DEF EndIntent, WriteThen
  <2>. QED BY <1>0, <2>1 DEF Numbered
<1>4. CASE DeclareIntent(s)
  <2> DEFINE n == sequence[s] + 1
  <2>1. /\ turns' = turns /\ pc[s] \in {"intent", "declare"} /\ pc'[s] \in {"assemble", "idle"}
        /\ \/ cache'[s] = cache[s] \union {n} /\ sequence'[s] = n
           \/ cache'[s] = cache[s] /\ sequence'[s] = sequence[s]
    BY <1>0, <1>4 DEF DeclareIntent, WriteThen, Go, intents
  <2>2. sequence[s] < turns[s] /\ cache[s] \subseteq 1..sequence[s]
    BY <1>0, <2>1 DEF Numbered
  <2>. QED BY <1>0, <2>1, <2>2 DEF Numbered
<1>5. CASE Assemble(s) \/ Synthesize(s) \/ GiveSignals(s) \/ (\E g \in Signals : Consolidate(s, g))
           \/ WriteOverlay(s)
  <2>1. turns' = turns /\ UNCHANGED intents
    BY <1>5 DEF Assemble, Synthesize, GiveSignals, Consolidate, WriteOverlay, turn
  <2>2. pc'[s] \notin {"intent", "declare"}
    BY <1>0, <1>5 DEF Assemble, Synthesize, Accept, Retry, Escalate, Leave, GiveSignals, Consolidate,
       WriteOverlay, Go
  <2>. QED BY <1>0, <2>1, <2>2 DEF Numbered, intents
<1>. QED BY <1>1, <1>2, <1>3, <1>4, <1>5 DEF Step

LEMMA SnapshotIs ==
  ASSUME Typed, NEW s \in Sessions
  PROVE  Snapshot(s) \in SnapType /\ InLog(Snapshot(s), events[s])
<1>1. NumbersIn(events[s]) = Numbers(s) /\ Numbers(s) \subseteq Nat
  BY DEF NumbersIn, Numbers, Typed, LogType
<1>. QED BY <1>1 DEF Snapshot, SnapType, InLog, Live, Open, Failed

LEMMA LoggedStep ==
  ASSUME Typed, Sized, NEW s \in Sessions, Step(s)
  PROVE  Logged(s)' /\ shown' \in [Sessions -> SnapType]
<1>0. /\ pc \in [Sessions -> Steps] /\ pc[s] \in Steps
      /\ shown \in [Sessions -> SnapType] /\ Logged(s)
  BY DEF Typed, Sized
<1>1. /\ Positive(events'[s])
      /\ Planned(events[s]) => Planned(events'[s])
      /\ NumbersIn(events[s]) \subseteq NumbersIn(events'[s])
  BY Grown
<1>2. /\ shown' \in [Sessions -> SnapType]
      /\ shown'[s] = shown[s] \/ (shown'[s] = Snapshot(s) /\ events' = events)
  <2>1. CASE Assemble(s)
    <3>1. shown' = shown \/ shown' = [shown EXCEPT ![s] = Snapshot(s)]
      BY <2>1 DEF Assemble
    <3>2. events' = events
      BY <2>1 DEF Assemble
    <3>. QED BY <1>0, <3>1, <3>2, SnapshotIs
  <2>2. CASE ~Assemble(s)
    <3>1. shown' = shown
      BY <2>2 DEF Step, Classify, KeepIntent, EndIntent, DeclareIntent, Synthesize, GiveSignals,
         Consolidate, WriteOverlay, prompt
    <3>. QED BY <1>0, <3>1
  <2>. QED BY <2>1, <2>2
<1>3. InLog(shown'[s], events'[s])
  <2>1. CASE shown'[s] = shown[s]
    BY <1>0, <1>1, <2>1 DEF Logged, InLog
  <2>2. CASE shown'[s] = Snapshot(s) /\ events' = events
    BY <2>2, SnapshotIs
  <2>. QED BY <1>2, <2>1, <2>2
<1>4. pc'[s] = "overlay" => Planned(events'[s])
  <2>1. ASSUME NEW g \in Signals, Consolidate(s, g), pc'[s] = "overlay"
        PROVE  Planned(events'[s])
    <3> DEFINE q == <<<<"WO_PLANNED", NextWO(s)>>, <<"WO_DISPATCHED", NextWO(s)>>>>
    <3>1. Log(s, q)
      BY <1>0, <2>1 DEF Consolidate, Go
    <3>2. q \in LogType /\ Positive(q) /\ Planned(q)
      BY RanType, RanPositive, Names DEF WOLog
    <3>3. events'[s] = events[s] \o q
      BY <3>1 DEF Log, Typed
    <3> HIDE DEF q
    <3>4. events[s] \in LogType /\ Positive(events[s])
      BY <1>0 DEF Typed, Logged
    <3>. QED BY <3>2, <3>3, <3>4, LogGrows
  <2>2. CASE \E g \in Signals : Consolidate(s, g)
    BY <2>1, <2>2
  <2>3. CASE ~\E g \in Signals : Consolidate(s, g)
    <3>1. pc'[s] # "overlay"
      BY <1>0, <2>3 DEF Step, Classify, KeepIntent, EndIntent, DeclareIntent, WriteThen, Assemble, Synthesize,
         Accept, Retry, Escalate, Leave, GiveSignals, WriteOverlay, Go, Steps
    <3>. QED BY <3>1
  <2>. QED BY <2>2, <2>3
<1>. QED BY <1>1, <1>2, <1>3, <1>4 DEF Logged

\* The bounds, and what a synthesis is given.
LEMMA BoundsStep ==
  ASSUME Typed, Sized, NEW s \in Sessions, Step(s)
  PROVE  /\ edits' \in 0..MaxEdits /\ faults' \in 0..MaxFaults
         /\ turns' \in [Sessions -> 0..MaxTurns] /\ tries' \in [Sessions -> 0..MaxRetries]
         /\ context' \in [Sessions -> Seq(Nat)]
         /\ said'[s].asof <= now'
         /\ injected'[s] \subseteq DOMAIN overlays
<1>0. /\ edits \in 0..MaxEdits /\ faults \in 0..MaxFaults
      /\ turns \in [Sessions -> 0..MaxTurns] /\ tries \in [Sessions -> 0..MaxRetries]
      /\ context \in [Sessions -> Seq(Nat)]
      /\ said[s].asof <= now /\ said \in [Sessions -> SaidType] /\ now \in Nat
      /\ injected[s] \subseteq DOMAIN overlays /\ DOMAIN injected = Sessions
      /\ MaxFaults \in Nat /\ MaxRetries \in Nat
  BY MemoryAssumption, ContextAssumption DEF Typed, Sized, Times
<1>1. edits' = edits
  BY DEF Step, Classify, KeepIntent, EndIntent, DeclareIntent, Assemble, Synthesize, GiveSignals,
     Consolidate, WriteOverlay, memory
<1>2. now' = now
  BY DEF Step, Classify, KeepIntent, EndIntent, DeclareIntent, Assemble, Synthesize, GiveSignals,
     Consolidate, WriteOverlay, memory
<1>3. faults' = faults \/ (faults < MaxFaults /\ faults' = faults + 1)
  <2>1. CASE Classify(s)
    BY <2>1 DEF Classify, EndsWith
  <2>2. CASE KeepIntent(s) \/ \E g \in Signals : Consolidate(s, g)
    BY <2>2 DEF KeepIntent, Consolidate
  <2>3. CASE EndIntent(s)
    BY <2>3 DEF EndIntent, WriteThen
  <2>4. CASE DeclareIntent(s)
    BY <2>4 DEF DeclareIntent, WriteThen
  <2>5. CASE Assemble(s)
    BY <2>5 DEF Assemble
  <2>6. CASE Synthesize(s)
    BY <2>6 DEF Synthesize, Accept, Retry, Escalate, EndsWith
  <2>7. CASE GiveSignals(s)
    BY <2>7 DEF GiveSignals
  <2>8. CASE WriteOverlay(s)
    BY <2>8 DEF WriteOverlay, EndsWith
  <2>. QED BY <2>1, <2>2, <2>3, <2>4, <2>5, <2>6, <2>7, <2>8 DEF Step
<1>4. turns' \in [Sessions -> 0..MaxTurns]
  <2>1. CASE Classify(s)
    <3>1. turns' = [turns EXCEPT ![s] = @ + 1] /\ AllTurns < MaxTurns
      BY <2>1 DEF Classify
    <3>. QED BY <1>0, <3>1, TurnsFit
  <2>2. CASE ~Classify(s)
    <3>1. turns' = turns
      BY <2>2 DEF Step, KeepIntent, EndIntent, DeclareIntent, Assemble, Synthesize, GiveSignals,
         Consolidate, WriteOverlay, turn
    <3>. QED BY <1>0, <3>1
  <2>. QED BY <2>1, <2>2
<1>5. tries' \in [Sessions -> 0..MaxRetries]
  <2>1. CASE Synthesize(s)
    <3>1. \/ tries' = [tries EXCEPT ![s] = 0]
          \/ tries[s] < MaxRetries /\ tries' = [tries EXCEPT ![s] = @ + 1]
      BY <2>1 DEF Synthesize, Accept, Retry, Escalate, Leave
    <3>2. 0 \in 0..MaxRetries /\ (tries[s] < MaxRetries => tries[s] + 1 \in 0..MaxRetries)
      BY <1>0
    <3>3. CASE tries' = [tries EXCEPT ![s] = 0]
      BY <1>0, <3>2, <3>3
    <3>4. CASE tries[s] < MaxRetries /\ tries' = [tries EXCEPT ![s] = @ + 1]
      BY <1>0, <3>2, <3>4
    <3>. QED BY <3>1, <3>3, <3>4
  <2>2. CASE ~Synthesize(s)
    <3>1. tries' = tries
      BY <2>2 DEF Step, Classify, KeepIntent, EndIntent, DeclareIntent, Assemble, GiveSignals,
         Consolidate, WriteOverlay, turn
    <3>. QED BY <1>0, <3>1
  <2>. QED BY <2>1, <2>2
<1>6. context' \in [Sessions -> Seq(Nat)] /\ injected'[s] \subseteq DOMAIN overlays
  <2>1. CASE Assemble(s)
    <3>1. CASE context' = context /\ injected' = injected
      BY <1>0, <3>1
    <3>2. ASSUME NEW chosen \in Selections(Eligible(s)),
                 injected' = [injected EXCEPT ![s] = chosen],
                 context' = [context EXCEPT ![s] =
                   (IF Enforce THEN << >> ELSE Attention(s)) \o Projection(Snapshot(s), chosen)]
          PROVE  context' \in [Sessions -> Seq(Nat)] /\ injected'[s] \subseteq DOMAIN overlays
      <4>1. chosen \subseteq DOMAIN overlays
        BY <3>2 DEF Selections, Eligible, ActiveBiases
      <4>2. Cardinality(chosen) \in Nat
        <5>1. DOMAIN overlays = 1..Len(overlays) /\ Len(overlays) \in Nat
          BY DEF Typed
        <5>2. IsFiniteSet(DOMAIN overlays)
          BY <5>1, FS_Interval
        <5>. QED BY <4>1, <5>2, FS_Subset, FS_CardinalityType
      <4>3. Cardinality(Snapshot(s).failed) \in Nat /\ Cardinality(Snapshot(s).open) \in Nat
        <5>1. Snapshot(s).failed \subseteq Numbers(s) /\ Snapshot(s).open \subseteq Numbers(s)
          BY DEF Snapshot, Failed, Open
        <5>. QED BY <5>1, NumbersFinite
      <4>4. Projection(Snapshot(s), chosen) \in Seq(Nat)
        BY <4>2, <4>3, ProjectionType
      <4>5. (IF Enforce THEN << >> ELSE Attention(s)) \in Seq(Nat)
        BY AttentionType
      <4>6. (IF Enforce THEN << >> ELSE Attention(s)) \o Projection(Snapshot(s), chosen) \in Seq(Nat)
        BY <4>4, <4>5
      <4>. QED BY <1>0, <3>2, <4>1, <4>6
    <3>. QED BY <2>1, <3>1, <3>2 DEF Assemble
  <2>2. CASE Synthesize(s)
    <3>1. \/ context' = context /\ injected' = injected
          \/ context' = [context EXCEPT ![s] = << >>] /\ injected' = [injected EXCEPT ![s] = {}]
      BY <2>2 DEF Synthesize, Accept, Retry, Escalate, Leave
    <3>2. << >> \in Seq(Nat)
      OBVIOUS
    <3>3. context' \in [Sessions -> Seq(Nat)]
      BY <1>0, <3>1, <3>2, Zenon
    <3>4. injected'[s] \subseteq DOMAIN overlays
      BY <1>0, <3>1, Zenon
    <3>. QED BY <3>3, <3>4
  <2>3. CASE ~Assemble(s) /\ ~Synthesize(s)
    <3>1. context' = context /\ injected' = injected
      BY <2>3 DEF Step, Classify, KeepIntent, EndIntent, DeclareIntent, GiveSignals,
         Consolidate, WriteOverlay, prompt
    <3>. QED BY <1>0, <3>1
  <2>. QED BY <2>1, <2>2, <2>3
<1>7. said'[s].asof <= now
  <2>1. CASE Classify(s)
    <3>1. PICK action \in Actions, tag \in Tags \union {NoTag} :
            said' = [said EXCEPT ![s] = [asof |-> now, action |-> action, tag |-> tag]]
      BY <2>1 DEF Classify
    <3>2. said'[s].asof = now
      BY <1>0, <3>1
    <3>. QED BY <1>0, <3>2
  <2>2. CASE ~Classify(s)
    <3>1. said' = said \/ said' = [said EXCEPT ![s] = NoTurn]
      BY <2>2 DEF Step, KeepIntent, EndIntent, DeclareIntent, WriteThen, Assemble, Synthesize, GiveSignals,
         Consolidate, WriteOverlay, turn
    <3>2. NoTurn.asof = 0
      BY DEF NoTurn
    <3>3. said'[s] = said[s] \/ said'[s] = NoTurn
      BY <1>0, <3>1
    <3>. QED BY <1>0, <3>2, <3>3
  <2>. QED BY <2>1, <2>2
<1>8. faults' \in 0..MaxFaults
  BY <1>0, <1>3
<1>. QED BY <1>0, <1>1, <1>2, <1>4, <1>5, <1>6, <1>7, <1>8

LEMMA SizedStep ==
  ASSUME Typed, Typed', Sized, [ContextNext]_vars
  PROVE  Sized'
<1>0. DOMAIN overlays \subseteq DOMAIN overlays' /\ now' >= now /\ now \in Nat /\ now' \in Nat
  BY OverlaysStay, MemoryStep, MemoryAssumption DEF Typed, Times
<1>1. ASSUME NEW s \in Sessions, Step(s)
      PROVE  Sized'
  <2>1. Numbered(s)' /\ Logged(s)' /\ shown' \in [Sessions -> SnapType]
    BY <1>1, NumberedStep, LoggedStep
  <2>2. /\ edits' \in 0..MaxEdits /\ faults' \in 0..MaxFaults
        /\ turns' \in [Sessions -> 0..MaxTurns] /\ tries' \in [Sessions -> 0..MaxRetries]
        /\ context' \in [Sessions -> Seq(Nat)]
        /\ said'[s].asof <= now'
        /\ injected'[s] \subseteq DOMAIN overlays
    BY <1>1, BoundsStep
  <2>3. ASSUME NEW r \in Sessions \ {s}
        PROVE  /\ said'[r].asof <= now' /\ injected'[r] \subseteq DOMAIN overlays'
               /\ Numbered(r)' /\ Logged(r)'
    <3>1. /\ pc'[r] = pc[r] /\ turns'[r] = turns[r] /\ said'[r] = said[r]
          /\ cache'[r] = cache[r] /\ sequence'[r] = sequence[r] /\ events'[r] = events[r]
          /\ shown'[r] = shown[r] /\ injected'[r] = injected[r]
      BY <1>1, OthersKeep
    <3>2. said[r].asof <= now /\ said[r].asof \in Nat /\ injected[r] \subseteq DOMAIN overlays
          /\ Numbered(r) /\ Logged(r)
      BY DEF Sized, Typed, SaidType
    <3>3. Numbered(r)' /\ Logged(r)'
      BY <3>1, <3>2 DEF Numbered, Logged
    <3>. QED BY <1>0, <3>1, <3>2, <3>3
  <2>. QED BY <1>0, <2>1, <2>2, <2>3 DEF Sized
<1>2. CASE Outside \/ UNCHANGED vars
  <2>1. UNCHANGED <<pc, turns, tries, said, cache, sequence, events, shown, context, injected, faults>>
    BY <1>2 DEF Outside, vars, turn, intents, prompt
  <2>2. edits' \in 0..MaxEdits
    BY <1>2, MemoryAssumption DEF Outside, Tick, Curate, vars, memory, Sized
  <2>3. ASSUME NEW s \in Sessions
        PROVE  /\ said'[s].asof <= now' /\ injected'[s] \subseteq DOMAIN overlays'
               /\ Numbered(s)' /\ Logged(s)'
    <3>1. said[s].asof <= now /\ said[s].asof \in Nat /\ injected[s] \subseteq DOMAIN overlays
          /\ Numbered(s) /\ Logged(s)
      BY DEF Sized, Typed, SaidType
    <3>2. Numbered(s)' /\ Logged(s)'
      BY <2>1, <3>1 DEF Numbered, Logged
    <3>. QED BY <1>0, <2>1, <3>1, <3>2
  <2>. QED BY <2>1, <2>2, <2>3 DEF Sized
<1>. QED BY <1>1, <1>2 DEF ContextNext

\* Whatever the sessions do, fail at and share, every reachable state is well typed: a
\* session numbers at most one intent a turn, what write_projection() has shown are
\* numbers of its own log, and the overlays it is given are in the memory.
THEOREM TypeCorrect == Spec => []TypeOK
<1>1. ContextInit => Typed /\ Sized
  BY InitTyped, InitSized
<1>2. ASSUME Typed, Sized, [ContextNext]_vars
      PROVE  Typed' /\ Sized'
  BY <1>2, TypedStep, SizedStep
<1>. QED BY <1>1, <1>2, SizedTypes, PTL DEF Spec
=============================================================================
