------------------------- MODULE HO2SupervisorProofs -------------------------
(* Proofs about a session, for every number of retries, turns, signals that *)
(* cross the gate and ledger writes that raise.                             *)
EXTENDS HO2Supervisor, FiniteSetTheorems, SequenceTheorems, TLAPS

\* The actions of Next, for the case split of every invariance proof.
LEMMA Cases ==
  ASSUME [Next]_vars
  PROVE  \/ StartSession \/ Ask \/ Plan \/ Dispatch \/ ExecuteReturns \/ ExecuteRaises
         \/ Context \/ Verify \/ Escalate \/ ChainComplete \/ LogGate \/ Record \/ Signals
         \/ LogDegradation \/ RecordDegraded \/ Consolidate \/ Overlay \/ Return \/ Degrade
         \/ EndSession \/ Quit \/ UNCHANGED vars
BY DEF Next, Work

-----------------------------------------------------------------------------
(* Writes to HO2m.                                                          *)

Lines == SUBSET (Events \X Nat)

\* What HO2m says once the first m of the lines kept have landed, in all the ways
\* that may come to pass, and once all of them have.
Upto(m) == ho2m \union Said(kept, m)
Views == {Upto(m) : m \in 0..Len(kept)}
Held == Upto(Len(kept))

\* What the first lines of a buffer say when a line is appended to it.
LEMMA SaidAppend ==
  ASSUME NEW S, NEW lines \in Seq(S), NEW line, NEW n \in 0..Len(Append(lines, line))
  PROVE  Said(Append(lines, line), n) =
           IF n <= Len(lines) THEN Said(lines, n) ELSE Said(lines, Len(lines)) \union line
<1>1. /\ Len(lines) \in Nat /\ Len(Append(lines, line)) = Len(lines) + 1
      /\ \A i \in 1..Len(lines) : Append(lines, line)[i] = lines[i]
      /\ Append(lines, line)[Len(lines) + 1] = line
  OBVIOUS
<1> DEFINE longer == Append(lines, line)
<1> HIDE DEF longer
<1>2. CASE n <= Len(lines)
  <2>1. n \in 0..Len(lines)
    BY <1>1, <1>2
  <2>2. \A i \in 1..n : longer[i] = lines[i]
    BY <1>1, <2>1 DEF longer
  <2>3. Said(longer, n) = Said(lines, n)
    BY <2>2 DEF Said
  <2>. QED BY <1>2, <2>3 DEF longer
<1>3. CASE ~(n <= Len(lines))
  <2>1. n = Len(lines) + 1
    BY <1>1, <1>3
  <2>2. \A i \in 1..n : i \in 1..Len(lines) \/ i = n
    BY <1>1, <2>1
  <2>3. \A i \in 1..Len(lines) : i \in 1..n /\ longer[i] = lines[i]
    BY <1>1, <2>1 DEF longer
  <2>4. n \in 1..n /\ longer[n] = line
    BY <1>1, <2>1 DEF longer
  <2>5. Said(longer, n) = Said(lines, Len(lines)) \union line
    BY <2>2, <2>3, <2>4 DEF Said
  <2>. QED BY <1>3, <2>5 DEF longer
<1>. QED BY <1>2, <1>3

LEMMA SaidGrows ==
  ASSUME NEW lines, NEW m \in Nat, NEW n \in Nat, m <= n
  PROVE  Said(lines, m) \subseteq Said(lines, n) /\ Said(lines, 0) = {}
<1>1. 1..m \subseteq 1..n /\ 1..0 = {}
  OBVIOUS
<1>. QED BY <1>1 DEF Said

\* Where a write leads, whether it returns or raises.
LEMMA WriteLeads ==
  ASSUME NEW line, NEW next, NEW escape, WriteOr(line, next, escape)
  PROVE  /\ pc' \in {next, escape}
         /\ faults \in 0..MaxFaults => faults' \in 0..MaxFaults
BY SupervisorAssumption DEF WriteOr

\* What a write to HO2m leaves behind, whether it returns or raises: nothing that
\* is held is lost, the line is held too, and HO2m says what it said before, or
\* would have said, or all of it and the line.
LEMMA WriteFacts ==
  ASSUME faults \in 0..MaxFaults, kept \in Seq(Lines), NEW line, NEW next, NEW escape,
         WriteOr(line, next, escape)
  PROVE  /\ ho2m \subseteq ho2m' /\ ho2m' \subseteq Held'
         /\ Held' = Held \union line
         /\ pc' # escape => line \subseteq ho2m'
         /\ Views' \subseteq Views \union {Held \union line}
         /\ pc' \in {next, escape}
         /\ faults' \in 0..MaxFaults
<1> DEFINE buffer == Append(kept, line)
<1>1. Len(kept) \in Nat /\ Len(buffer) = Len(kept) + 1
  OBVIOUS
<1>2. \A n \in 0..Len(buffer) :
        Said(buffer, n) = IF n <= Len(kept) THEN Said(kept, n) ELSE Said(kept, Len(kept)) \union line
  BY SaidAppend
<1>3. pc' \in {next, escape} /\ faults' \in 0..MaxFaults
  BY SupervisorAssumption DEF WriteOr
<1>4. Said(buffer, Len(buffer)) = Said(kept, Len(kept)) \union line
  BY <1>1, <1>2
<1>5. WriteOr(line, next, escape) <=>
        \/ /\ ho2m' = ho2m \union Said(buffer, Len(buffer))
           /\ kept' = << >> /\ pc' = next /\ faults' = faults
        \/ /\ faults < MaxFaults /\ faults' = faults + 1 /\ pc' = escape /\ kept' = buffer
           /\ \E n \in 0..Len(buffer) : ho2m' = ho2m \union Said(buffer, n)
  BY Zenon DEF WriteOr
<1> HIDE DEF buffer
<1>6. CASE ho2m' = ho2m \union Said(buffer, Len(buffer)) /\ kept' = << >>
  <2>1. Len(kept') = 0 /\ Said(kept', 0) = {}
    BY <1>6, SaidGrows
  <2>2. Held' = ho2m' /\ Views' = {ho2m'}
    <3>1. Upto(0)' = ho2m'
      BY <2>1 DEF Upto
    <3>2. 0..Len(kept') = {0}
      BY <2>1
    <3>. QED BY <2>1, <3>1, <3>2 DEF Views, Held, Upto
  <2>3. ho2m' = Held \union line
    BY <1>4, <1>6 DEF Held, Upto
  <2>. QED BY <1>3, <2>2, <2>3 DEF Held, Upto
<1>7. CASE pc' = escape /\ kept' = buffer /\ \E n \in 0..Len(buffer) : ho2m' = ho2m \union Said(buffer, n)
  <2>1. PICK n \in 0..Len(buffer) : ho2m' = ho2m \union Said(buffer, n)
    BY <1>7
  <2>2. Said(buffer, n) \subseteq Said(buffer, Len(buffer))
    BY <1>1, <2>1, SaidGrows
  <2>3. Held' = Held \union line
    BY <1>4, <1>7, <2>1, <2>2 DEF Held, Upto
  <2>4. Views' \subseteq Views \union {Held \union line}
    <3>1. ASSUME NEW m \in 0..Len(buffer)
          PROVE  ho2m' \union Said(buffer, m) \in Views \union {Held \union line}
      <4>1. PICK k \in {m, n} : k >= m /\ k >= n
        BY <1>1, <2>1
      <4>2. Said(buffer, m) \subseteq Said(buffer, k) /\ Said(buffer, n) \subseteq Said(buffer, k)
        BY <1>1, <4>1, SaidGrows
      <4>3. ho2m' \union Said(buffer, m) = ho2m \union Said(buffer, k)
        BY <2>1, <4>1, <4>2
      <4>4. k \in 0..Len(buffer)
        BY <4>1
      <4>5. CASE k <= Len(kept)
        <5>1. k \in 0..Len(kept) /\ Said(buffer, k) = Said(kept, k)
          BY <1>1, <1>2, <4>4, <4>5
        <5>. QED BY <4>3, <5>1 DEF Views, Upto
      <4>6. CASE ~(k <= Len(kept))
        <5>1. Said(buffer, k) = Said(kept, Len(kept)) \union line
          BY <1>2, <4>4, <4>6
        <5>. QED BY <4>3, <5>1 DEF Held, Upto
      <4>. QED BY <4>5, <4>6
    <3>. QED BY <1>7, <3>1 DEF Views, Upto
  <2>5. ho2m \subseteq ho2m' /\ ho2m' \subseteq Held'
    BY <1>7, <2>1, <2>2 DEF Held, Upto
  <2>. QED BY <1>3, <1>7, <2>3, <2>4, <2>5
<1>. QED BY <1>5, <1>6, <1>7

\* ... and that what it leaves behind are lines of entries.
LEMMA WriteTypes ==
  ASSUME kept \in Seq(Lines), ho2m \in Lines, NEW line \in Lines, NEW next, NEW escape,
         WriteOr(line, next, escape)
  PROVE  kept' \in Seq(Lines) /\ ho2m' \in Lines
<1> DEFINE buffer == Append(kept, line)
<1>1. buffer \in Seq(Lines)
  OBVIOUS
<1>2. kept' \in {<< >>, buffer} /\ \E n \in 0..Len(buffer) : ho2m' = ho2m \union Said(buffer, n)
  <2>1. Len(buffer) \in 0..Len(buffer)
    BY <1>1
  <2>. QED BY <2>1 DEF WriteOr
<1> HIDE DEF buffer
<1>3. kept' \in Seq(Lines)
  <2>1. << >> \in Seq(Lines)
    OBVIOUS
  <2>. QED BY <1>1, <1>2, <2>1, Zenon
<1>4. ASSUME NEW n \in 0..Len(buffer) PROVE Said(buffer, n) \in Lines
  <2>1. ASSUME NEW i \in 1..n PROVE buffer[i] \in Lines
    <3>1. i \in 1..Len(buffer)
      BY <1>1
    <3>. QED BY <1>1, <3>1, ElementOfSeq, Zenon
  <2>. QED BY <2>1 DEF Said, Lines
<1>. QED BY <1>2, <1>3, <1>4 DEF Lines

\* A step that leaves the buffer and HO2m alone.
LEMMA KeptFacts ==
  ASSUME UNCHANGED <<ho2m, kept>>
  PROVE  Held' = Held /\ Views' = Views /\ ho2m' = ho2m
BY DEF Held, Views, Upto

\* The end of the program writes some of the lines kept and forgets the others.
LEMMA QuitFacts ==
  ASSUME kept \in Seq(Lines), Quit
  PROVE  /\ ho2m \subseteq ho2m' /\ ho2m' \subseteq Held'
         /\ Held' \subseteq Held /\ Views' \subseteq Views
<1>1. PICK n \in 0..Len(kept) : ho2m' = ho2m \union Said(kept, n)
  BY DEF Quit
<1>2. kept' = << >> /\ Len(kept') = 0 /\ Said(kept', 0) = {}
  BY SaidGrows DEF Quit
<1>3. Upto(0)' = ho2m' /\ 0..Len(kept') = {0}
  BY <1>2 DEF Upto
<1>4. Held' = ho2m' /\ Views' = {ho2m'}
  BY <1>2, <1>3 DEF Held, Views, Upto
<1>5. Len(kept) \in Nat /\ Said(kept, n) \subseteq Said(kept, Len(kept))
  BY <1>1, SaidGrows
<1>. QED BY <1>1, <1>4, <1>5 DEF Held, Views, Upto

\* HO2m is the first of its views, and says nothing that is not held.
LEMMA ViewFacts ==
  ASSUME kept \in Seq(Lines)
  PROVE  ho2m \in Views /\ Held \in Views /\ ho2m \subseteq Held /\ \A S \in Views : S \subseteq Held
<1>1. Len(kept) \in Nat /\ 0 \in 0..Len(kept) /\ Len(kept) \in 0..Len(kept)
  OBVIOUS
<1>2. \A m \in 0..Len(kept) : Said(kept, m) \subseteq Said(kept, Len(kept))
  BY <1>1, SaidGrows
<1>3. Said(kept, 0) = {}
  BY SaidGrows
<1>4. Upto(0) = ho2m
  BY <1>3 DEF Upto
<1>. QED BY <1>1, <1>2, <1>4 DEF Views, Held, Upto
-----------------------------------------------------------------------------
(* Types.                                                                   *)

\* A work order is dispatched only after it has its number.
Numbered == pc \in {"dispatch", "execute"} => seq \in 1..seq

Typed == TypeOK /\ Numbered

LEMMA TypedFacts ==
  ASSUME TypeOK
  PROVE  /\ asked \in Nat /\ asked <= MaxTurns /\ seq \in Nat /\ total \in Nat
         /\ history \in Seq(Nat) /\ Len(history) \in Nat
         /\ retries \in Nat /\ retries <= MaxRetries /\ candidates \in Nat
         /\ candidates <= MaxCandidates
         /\ faults \in Nat /\ faults <= MaxFaults /\ faults \in 0..MaxFaults
         /\ kept \in Seq(Lines) /\ ho2m \in Lines
         /\ MaxRetries \in Nat /\ MaxTurns \in Nat /\ MaxCandidates \in Nat /\ MaxFaults \in Nat
<1>1. history \in Seq(Nat) /\ Len(history) \in Nat
  BY DEF TypeOK
<1>2. kept \in Seq(Lines) /\ ho2m \in Lines
  BY Zenon DEF TypeOK, Lines
<1>. QED BY <1>1, <1>2, SupervisorAssumption DEF TypeOK

\* Escape leads to one of two places.
LEMMA EscapeFacts == Escape \in {"return", "except"}
BY DEF Escape

\* The costs of a turn are numbers: its chain is finite.
LEMMA ChainFinite ==
  ASSUME TypeOK
  PROVE  IsFiniteSet(chain) /\ Cardinality(chain) \in Nat
<1>1. chain \subseteq 1..seq /\ seq \in Nat
  BY DEF TypeOK
<1>2. IsFiniteSet(1..seq)
  BY <1>1, FS_Interval
<1>3. IsFiniteSet(chain)
  BY <1>1, <1>2, FS_Subset
<1>. QED BY <1>3, FS_CardinalityType

\* TypeOK in three parts, for the leaves of the proof: numbers and names...
Scalars ==
  /\ pc \in {"new", "ready", "gone", "over", "plan", "dispatch", "execute", "context", "verify", "escalate",
             "chain", "gate", "record", "signals", "except", "recordDegraded", "consolidate",
             "overlay", "return", "degrade"}
  /\ asked \in 0..MaxTurns
  /\ answer \in {"none", "success", "degraded", "error"}
  /\ seq \in Nat /\ total \in Nat
  /\ kind \in {"classify", "synthesize", "consolidate"}
  /\ back \in {"none", "completed", "failed"}
  /\ retries \in 0..MaxRetries
  /\ passed \in BOOLEAN
  /\ candidates \in 0..MaxCandidates
  /\ faults \in 0..MaxFaults

\* ... work orders...
Orders == chain \subseteq 1..seq /\ ho1m \subseteq Ends \X (1..seq) /\ owed \subseteq Ends \X (1..seq)

\* ... and turns and lines.
Entries == history \in Seq(Nat) /\ kept \in Seq(Lines) /\ ho2m \in Lines

LEMMA TypeParts == TypeOK <=> Scalars /\ Orders /\ Entries
<1>1. ho2m \in Lines <=> ho2m \subseteq Events \X Nat
  BY DEF Lines
<1>2. kept \in Seq(Lines) <=> kept \in Seq(SUBSET (Events \X Nat))
  BY DEF Lines
<1>. QED BY <1>1, <1>2, Zenon DEF TypeOK, Scalars, Orders, Entries

LEMMA TypeInit == Init => Typed
<1>. SUFFICES ASSUME Init PROVE Typed
  OBVIOUS
<1>. USE SupervisorAssumption DEF Init
<1>1. Scalars
  <2>1. /\ asked \in 0..MaxTurns /\ retries \in 0..MaxRetries /\ candidates \in 0..MaxCandidates
        /\ faults \in 0..MaxFaults /\ seq \in Nat /\ total \in Nat
    OBVIOUS
  <2>2. passed = FALSE /\ pc = "new" /\ answer = "none" /\ kind = "classify" /\ back = "none"
    OBVIOUS
  <2>. QED BY <2>1, <2>2, Zenon DEF Scalars
<1>2. Orders
  BY DEF Orders
<1>3. Entries
  <2>1. history \in Seq(Nat)
    OBVIOUS
  <2>2. kept \in Seq(Lines)
    OBVIOUS
  <2>3. ho2m \in Lines
    BY DEF Lines
  <2>. QED BY <2>1, <2>2, <2>3, Zenon DEF Entries
<1>4. Numbered
  BY DEF Numbered
<1>. QED BY <1>1, <1>2, <1>3, <1>4, TypeParts DEF Typed

\* What HO1 owes when it has raised, and what of it is in HO1m.
LEMMA OweFacts ==
  ASSUME Owe
  PROVE  /\ owed' \subseteq owed \union (Ends \X {seq})
         /\ ho1m \subseteq ho1m' /\ ho1m' \subseteq ho1m \union owed'
<1>1. PICK events \in {{"WO_FAILED"}, Ends} :
        /\ owed' = owed \union (events \X {wo})
        /\ \E landed \in SUBSET owed' : ho1m' = ho1m \union landed
  BY DEF Owe
<1>2. events \subseteq Ends
  BY DEF Ends
<1>. QED BY <1>1, <1>2 DEF wo

\* One more entry, in a line of its own.
LEMMA EntryTypes ==
  ASSUME Entries, NEW event \in Events, NEW w \in Nat, NEW next, NEW escape,
         WriteOr({<<event, w>>}, next, escape), history' \in Seq(Nat)
  PROVE  Entries'
<1>1. {<<event, w>>} \in Lines
  BY DEF Lines
<1>. QED BY <1>1, WriteTypes DEF Entries

LEMMA TypeStep == Typed /\ [Next]_vars => Typed'
<1>. SUFFICES ASSUME Typed, [Next]_vars PROVE Typed'
  OBVIOUS
<1>0. Scalars /\ Orders /\ Entries /\ TypeOK /\ Numbered
  BY TypeParts DEF Typed
<1>. SUFFICES Scalars' /\ Orders' /\ Entries' /\ Numbered'
  <2>1. Scalars' /\ Orders' /\ Entries' => TypeOK'
    <3>1. ho2m' \in Lines <=> ho2m' \subseteq Events \X Nat
      BY DEF Lines
    <3>2. kept' \in Seq(Lines) <=> kept' \in Seq(SUBSET (Events \X Nat))
      BY DEF Lines
    <3>. QED BY <3>1, <3>2, Zenon DEF TypeOK, Scalars, Orders, Entries
  <2>. QED BY <2>1, Zenon DEF Typed
<1>h. history' = history => history' \in Seq(Nat)
  BY <1>0 DEF Entries
<1>u. UNCHANGED <<history, kept, ho2m>> => Entries'
  BY <1>0 DEF Entries
<1>n. pc' \notin {"dispatch", "execute"} => Numbered'
  BY DEF Numbered
<1>o. UNCHANGED <<chain, seq, ho1m, owed>> => Orders'
  BY <1>0 DEF Orders
<1>. USE <1>0, TypedFacts
<1>1. CASE StartSession
  <2>0. WriteOr({<<"SESSION_START", 0>>}, "ready", "gone")
    BY <1>1 DEF StartSession
  <2>w. pc' \in {"ready", "gone"} /\ faults' \in 0..MaxFaults
    BY <2>0, WriteLeads
  <2>1. Scalars'
    BY <1>1, <2>w DEF StartSession, manager, turn, Scalars
  <2>2. Orders' /\ Numbered'
    BY <1>1, <2>w, <1>o DEF StartSession, manager, turn, Numbered
  <2>3. Entries'
    <3>1. history' = history /\ "SESSION_START" \in Events /\ 0 \in Nat
      BY <1>1 DEF StartSession, manager, Events, wo
    <3>. QED BY <1>h, <2>0, <3>1, EntryTypes, Zenon
  <2>. QED BY <2>1, <2>2, <2>3
<1>2. CASE Ask
  <2>1. Scalars'
    <3>1. asked' \in 0..MaxTurns /\ retries' \in 0..MaxRetries /\ candidates' \in 0..MaxCandidates
      BY <1>2 DEF Ask
    <3>. QED BY <1>2, <3>1, Zenon DEF Ask, manager, ledgers, Scalars
  <2>2. Orders' /\ Numbered'
    BY <1>2 DEF Ask, manager, ledgers, Orders, Numbered
  <2>3. Entries'
    BY <1>2, <1>u DEF Ask, manager, ledgers
  <2>. QED BY <2>1, <2>2, <2>3
<1>3. CASE Plan
  <2>0. WriteOr({<<"WO_PLANNED", seq'>>}, "dispatch", Escape)
    BY <1>3 DEF Plan, Write
  <2>w. pc' \in {"dispatch", Escape} /\ faults' \in 0..MaxFaults
    BY <2>0, WriteLeads
  <2>1. Scalars'
    BY <1>3, <2>w, EscapeFacts DEF Plan, NextWo, turn, Scalars
  <2>2. Orders' /\ Numbered'
    BY <1>3, <2>w, EscapeFacts DEF Plan, NextWo, turn, Orders, Numbered, Scalars
  <2>3. Entries'
    <3>1. history' = history /\ "WO_PLANNED" \in Events /\ seq' \in Nat
      BY <1>3, <2>1 DEF Plan, manager, Events, wo, Scalars
    <3>. QED BY <1>h, <2>0, <3>1, EntryTypes, Zenon
  <2>. QED BY <2>1, <2>2, <2>3
<1>4. CASE Dispatch
  <2>0. WriteOr({<<"WO_DISPATCHED", wo>>}, "execute", Escape)
    BY <1>4 DEF Dispatch, Write
  <2>w. pc' \in {"execute", Escape} /\ faults' \in 0..MaxFaults
    BY <2>0, WriteLeads
  <2>1. Scalars'
    BY <1>4, <2>w, EscapeFacts DEF Dispatch, manager, turn, Scalars
  <2>2. Orders' /\ Numbered'
    BY <1>4, <2>w, <1>o, EscapeFacts DEF Dispatch, manager, turn, Numbered
  <2>3. Entries'
    <3>1. history' = history /\ "WO_DISPATCHED" \in Events /\ wo \in Nat
      BY <1>4 DEF Dispatch, manager, Events, wo
    <3>. QED BY <1>h, <2>0, <3>1, EntryTypes, Zenon
  <2>. QED BY <2>1, <2>2, <2>3
<1>5. CASE ExecuteReturns
  <2>1. Scalars'
    <3>1. PICK s \in {"completed", "failed"} : back' = s /\ pc' = Onward(s)
      BY <1>5 DEF ExecuteReturns
    <3>2. pc' \in {"overlay", "consolidate", "context", "verify"}
      BY <3>1 DEF Onward
    <3>3. faults' \in 0..MaxFaults
      BY <1>5 DEF ExecuteReturns
    <3>. QED BY <1>5, <3>1, <3>2, <3>3 DEF ExecuteReturns, manager, Scalars
  <2>2. Orders' /\ Numbered'
    <3>1. /\ ho1m' \subseteq ho1m \union owed \union (Ends \X {seq}) /\ owed' = {}
          /\ chain' \subseteq chain \union {seq} /\ seq' = seq /\ pc = "execute"
      BY <1>5 DEF ExecuteReturns, wo, manager, End, Ends
    <3>2. seq \in 1..seq
      BY <3>1 DEF Numbered
    <3>3. Orders'
      BY <3>1, <3>2 DEF Orders
    <3>4. pc' \in {"overlay", "consolidate", "context", "verify"}
      BY <1>5 DEF ExecuteReturns, Onward
    <3>. QED BY <1>n, <3>3, <3>4
  <2>3. Entries'
    BY <1>5, <1>u DEF ExecuteReturns, manager
  <2>. QED BY <2>1, <2>2, <2>3
<1>6. CASE ExecuteRaises
  <2>1. Scalars'
    BY <1>6, EscapeFacts DEF ExecuteRaises, manager, turn, Scalars
  <2>2. Orders' /\ Numbered'
    <3>1. /\ owed' \subseteq owed \union (Ends \X {seq}) /\ ho1m' \subseteq ho1m \union owed'
          /\ chain' = chain /\ seq' = seq /\ pc = "execute" /\ pc' = Escape
      BY <1>6, OweFacts DEF ExecuteRaises, turn, manager
    <3>2. seq \in 1..seq
      BY <3>1 DEF Numbered
    <3>3. Orders'
      BY <3>1, <3>2 DEF Orders
    <3>. QED BY <1>n, <3>1, <3>3, EscapeFacts
  <2>3. Entries'
    BY <1>6, <1>u DEF ExecuteRaises, manager
  <2>. QED BY <2>1, <2>2, <2>3
<1>7. CASE Context
  <2>1. Scalars'
    BY <1>7 DEF Context, manager, ledgers, Scalars
  <2>2. Orders' /\ Numbered'
    BY <1>7, <1>o, <1>n DEF Context, manager, ledgers
  <2>3. Entries'
    BY <1>7, <1>u DEF Context, manager, ledgers
  <2>. QED BY <2>1, <2>2, <2>3
<1>8. CASE Verify
  <2>1. Scalars'
    BY <1>8 DEF Verify, AfterReject, MayRetry, manager, ledgers, Scalars
  <2>2. Orders' /\ Numbered'
    BY <1>8, <1>o, <1>n DEF Verify, AfterReject, manager, ledgers
  <2>3. Entries'
    BY <1>8, <1>u DEF Verify, manager, ledgers
  <2>. QED BY <2>1, <2>2, <2>3
<1>9. CASE Escalate
  <2>0. WriteOr({<<"ESCALATION", wo>>}, "chain", Escape)
    BY <1>9 DEF Escalate, Write
  <2>w. pc' \in {"chain", Escape} /\ faults' \in 0..MaxFaults
    BY <2>0, WriteLeads
  <2>1. Scalars'
    BY <1>9, <2>w, EscapeFacts DEF Escalate, manager, turn, Scalars
  <2>2. Orders' /\ Numbered'
    BY <1>9, <2>w, <1>o, EscapeFacts DEF Escalate, manager, turn, Numbered
  <2>3. Entries'
    <3>1. history' = history /\ "ESCALATION" \in Events /\ wo \in Nat
      BY <1>9 DEF Escalate, manager, Events, wo
    <3>. QED BY <1>h, <2>0, <3>1, EntryTypes, Zenon
  <2>. QED BY <2>1, <2>2, <2>3
<1>10. CASE ChainComplete
  <2>0. WriteOr({"WO_CHAIN_COMPLETE"} \X chain, "gate", Escape)
    BY <1>10 DEF ChainComplete, Write
  <2>w. pc' \in {"gate", Escape} /\ faults' \in 0..MaxFaults
    BY <2>0, WriteLeads
  <2>1. Scalars'
    BY <1>10, <2>w, EscapeFacts DEF ChainComplete, manager, turn, Scalars
  <2>2. Orders' /\ Numbered'
    BY <1>10, <2>w, <1>o, EscapeFacts DEF ChainComplete, manager, turn, Numbered
  <2>3. Entries'
    <3>1. {"WO_CHAIN_COMPLETE"} \X chain \in Lines
      <4>1. chain \subseteq Nat
        BY DEF Orders
      <4>. QED BY <4>1 DEF Events, Lines
    <3>2. history' = history
      BY <1>10 DEF ChainComplete, manager
    <3>. QED BY <2>0, <3>1, <3>2, WriteTypes DEF Entries
  <2>. QED BY <2>1, <2>2, <2>3
<1>11. CASE LogGate
  <2>0. WriteOr({<<IF passed THEN "ACCEPT" ELSE "REJECT", wo>>}, "record", Escape)
    BY <1>11 DEF LogGate, Write
  <2>w. pc' \in {"record", Escape} /\ faults' \in 0..MaxFaults
    BY <2>0, WriteLeads
  <2>1. Scalars'
    BY <1>11, <2>w, EscapeFacts DEF LogGate, manager, turn, Scalars
  <2>2. Orders' /\ Numbered'
    BY <1>11, <2>w, <1>o, EscapeFacts DEF LogGate, manager, turn, Numbered
  <2>3. Entries'
    <3>1. history' = history /\ (IF passed THEN "ACCEPT" ELSE "REJECT") \in Events /\ wo \in Nat
      BY <1>11 DEF LogGate, manager, Events, wo
    <3>. QED BY <1>h, <2>0, <3>1, EntryTypes, Zenon
  <2>. QED BY <2>1, <2>2, <2>3
<1>12. CASE Record
  <2>0. WriteOr({<<"TURN_RECORDED", Len(history) + 1>>}, "signals", "except") /\ history' = Append(history, asked)
    BY <1>12 DEF Record, AddTurn
  <2>w. pc' \in {"signals", "except"} /\ faults' \in 0..MaxFaults
    BY <2>0, WriteLeads
  <2>1. Scalars'
    BY <1>12, <2>w, ChainFinite DEF Record, turn, Scalars
  <2>2. Orders' /\ Numbered'
    BY <1>12, <2>w, <1>o, <1>n DEF Record, turn
  <2>3. Entries'
    <3>1. "TURN_RECORDED" \in Events /\ Len(history) + 1 \in Nat
      BY DEF Events
    <3>2. history' \in Seq(Nat)
      BY <2>0
    <3>. QED BY <2>0, <3>1, <3>2, EntryTypes, Zenon
  <2>. QED BY <2>1, <2>2, <2>3
<1>13. CASE Signals
  <2>1. Scalars'
    BY <1>13 DEF Signals, manager, ledgers, Scalars
  <2>2. Orders' /\ Numbered'
    BY <1>13, <1>o, <1>n DEF Signals, manager, ledgers
  <2>3. Entries'
    BY <1>13, <1>u DEF Signals, manager, ledgers
  <2>. QED BY <2>1, <2>2, <2>3
<1>14. CASE LogDegradation
  <2>0. WriteOr({<<"DEGRADATION", asked>>}, "recordDegraded", "degrade")
    BY <1>14 DEF LogDegradation
  <2>w. pc' \in {"recordDegraded", "degrade"} /\ faults' \in 0..MaxFaults
    BY <2>0, WriteLeads
  <2>1. Scalars'
    BY <1>14, <2>w DEF LogDegradation, manager, turn, Scalars
  <2>2. Orders' /\ Numbered'
    BY <1>14, <2>w, <1>o DEF LogDegradation, manager, turn, Numbered
  <2>3. Entries'
    <3>1. history' = history /\ "DEGRADATION" \in Events /\ asked \in Nat
      BY <1>14 DEF LogDegradation, manager, Events, wo
    <3>. QED BY <1>h, <2>0, <3>1, EntryTypes, Zenon
  <2>. QED BY <2>1, <2>2, <2>3
<1>15. CASE RecordDegraded
  <2>0. WriteOr({<<"TURN_RECORDED", Len(history) + 1>>}, "return", "degrade") /\ history' = Append(history, asked)
    BY <1>15 DEF RecordDegraded, AddTurn
  <2>w. pc' \in {"return", "degrade"} /\ faults' \in 0..MaxFaults
    BY <2>0, WriteLeads
  <2>1. Scalars'
    BY <1>15, <2>w, ChainFinite DEF RecordDegraded, turn, Scalars
  <2>2. Orders' /\ Numbered'
    BY <1>15, <2>w, <1>o, <1>n DEF RecordDegraded, turn
  <2>3. Entries'
    <3>1. "TURN_RECORDED" \in Events /\ Len(history) + 1 \in Nat
      BY DEF Events
    <3>2. history' \in Seq(Nat)
      BY <2>0
    <3>. QED BY <2>0, <3>1, <3>2, EntryTypes, Zenon
  <2>. QED BY <2>1, <2>2, <2>3
<1>16. CASE Consolidate
  <2>1. Scalars'
    BY <1>16 DEF Consolidate, manager, ledgers, Scalars
  <2>2. Orders' /\ Numbered'
    BY <1>16, <1>o, <1>n DEF Consolidate, manager, ledgers
  <2>3. Entries'
    BY <1>16, <1>u DEF Consolidate, manager, ledgers
  <2>. QED BY <2>1, <2>2, <2>3
<1>17. CASE Overlay
  <2>1. Scalars'
    BY <1>17 DEF Overlay, manager, turn, ledgers, Scalars
  <2>2. Orders' /\ Numbered'
    BY <1>17, <1>o, <1>n DEF Overlay, manager, turn, ledgers
  <2>3. Entries'
    BY <1>17, <1>u DEF Overlay, manager, ledgers
  <2>. QED BY <2>1, <2>2, <2>3
<1>18. CASE Return
  <2>1. Scalars'
    BY <1>18 DEF Return, manager, turn, ledgers, Scalars
  <2>2. Orders' /\ Numbered'
    BY <1>18, <1>o, <1>n DEF Return, manager, turn, ledgers
  <2>3. Entries'
    BY <1>18, <1>u DEF Return, manager, ledgers
  <2>. QED BY <2>1, <2>2, <2>3
<1>19. CASE Degrade
  <2>1. Scalars'
    BY <1>19 DEF Degrade, manager, turn, ledgers, Scalars
  <2>2. Orders' /\ Numbered'
    BY <1>19, <1>o, <1>n DEF Degrade, manager, turn, ledgers
  <2>3. Entries'
    BY <1>19, <1>u DEF Degrade, manager, ledgers
  <2>. QED BY <2>1, <2>2, <2>3
<1>20. CASE EndSession
  <2>0. WriteOr({<<"SESSION_END", Len(history)>>}, "gone", "gone")
    BY <1>20 DEF EndSession
  <2>w. pc' \in {"gone", "gone"} /\ faults' \in 0..MaxFaults
    BY <2>0, WriteLeads
  <2>1. Scalars'
    BY <1>20, <2>w DEF EndSession, manager, turn, Scalars
  <2>2. Orders' /\ Numbered'
    BY <1>20, <2>w, <1>o DEF EndSession, manager, turn, Numbered
  <2>3. Entries'
    <3>1. history' = history /\ "SESSION_END" \in Events /\ Len(history) \in Nat
      BY <1>20 DEF EndSession, manager, Events, wo
    <3>. QED BY <1>h, <2>0, <3>1, EntryTypes, Zenon
  <2>. QED BY <2>1, <2>2, <2>3
<1>21. CASE UNCHANGED vars
  BY <1>21 DEF vars, Scalars, Orders, Entries, Numbered, manager, turn, ledgers
<1>22. CASE Quit
  <2>1. Scalars'
    BY <1>22 DEF Quit, manager, turn, Scalars
  <2>2. Orders' /\ Numbered'
    <3>1. ho1m' \subseteq ho1m \union owed /\ owed' = {} /\ chain' = chain /\ seq' = seq /\ pc' = "over"
      BY <1>22 DEF Quit, manager, turn
    <3>2. Orders'
      BY <3>1 DEF Orders
    <3>. QED BY <1>n, <3>1, <3>2
  <2>3. Entries'
    <3>1. Quit /\ kept' = << >> /\ history' = history
      BY <1>22 DEF Quit, manager
    <3>2. ho2m' \in Lines
      <4>1. PICK n \in 0..Len(kept) : ho2m' = ho2m \union Said(kept, n)
        BY <1>22 DEF Quit
      <4>2. ASSUME NEW i \in 1..n PROVE kept[i] \in Lines
        <5>1. i \in 1..Len(kept)
          BY <4>1
        <5>. QED BY <5>1, ElementOfSeq, Zenon
      <4>. QED BY <4>1, <4>2 DEF Said, Lines
    <3>3. << >> \in Seq(Lines)
      OBVIOUS
    <3>. QED BY <3>1, <3>2, <3>3 DEF Entries
  <2>. QED BY <2>1, <2>2, <2>3
<1>. QED
  BY Cases, <1>1, <1>2, <1>3, <1>4, <1>5, <1>6, <1>7, <1>8, <1>9, <1>10, <1>11, <1>12, <1>13,
     <1>14, <1>15, <1>16, <1>17, <1>18, <1>19, <1>20, <1>21, <1>22

\* TypeOK: in every reachable state the state of the session is well typed, with
\* retries, turns, signals and faults within their limits.
THEOREM TypeCorrect == Spec => []TypeOK
<1>1. Typed => TypeOK
  BY DEF Typed
<1>. QED BY TypeInit, TypeStep, <1>1, PTL DEF Spec

-----------------------------------------------------------------------------
(* What a step adds to HO2m.                                                *)

\* One line of entries of the same kind is written, and landed or is held.
Enters(event, W) ==
  /\ Held' = Held \union ({event} \X W)
  /\ Views' \subseteq Views \union {Held \union ({event} \X W)}

\* When it is written, for the kinds of entries that claim something.
Claims(event, W) ==
  /\ event = "WO_CHAIN_COMPLETE" => W \subseteq chain
  /\ event = "ACCEPT" => pc = "gate" /\ passed = TRUE /\ W = {seq}
  /\ event = "TURN_RECORDED" => W = {Len(history) + 1} /\ (Record \/ RecordDegraded)
  /\ event = "SESSION_END" => W = {Len(history)} /\ EndSession

\* A step writes one line, or none, unless the program ends.
LEMMA HeldStep ==
  ASSUME Typed, [Next]_vars
  PROVE  /\ ho2m \subseteq ho2m' /\ ho2m' \subseteq Held'
         /\ \/ Quit /\ Held' \subseteq Held /\ Views' \subseteq Views
            \/ \E event \in Events, W \in SUBSET Nat : Enters(event, W) /\ Claims(event, W)
<1> DEFINE Goal == /\ ho2m \subseteq ho2m' /\ ho2m' \subseteq Held'
                   /\ \/ Quit /\ Held' \subseteq Held /\ Views' \subseteq Views
                      \/ \E event \in Events, W \in SUBSET Nat : Enters(event, W) /\ Claims(event, W)
<1>. USE TypedFacts DEF Typed
<1>a. ASSUME NEW event \in Events, NEW W \in SUBSET Nat, NEW next, NEW escape,
             WriteOr({event} \X W, next, escape), Claims(event, W)
      PROVE  Goal
  <2>1. /\ ho2m \subseteq ho2m' /\ ho2m' \subseteq Held'
        /\ Held' = Held \union ({event} \X W)
        /\ Views' \subseteq Views \union {Held \union ({event} \X W)}
    BY <1>a, WriteFacts
  <2>. QED BY <1>a, <2>1, Zenon DEF Enters
<1>b. ASSUME NEW event \in Events, NEW w \in Nat, NEW next, NEW escape,
             WriteOr({<<event, w>>}, next, escape), Claims(event, {w})
      PROVE  Goal
  <2>1. {<<event, w>>} = {event} \X {w}
    OBVIOUS
  <2>2. WriteOr({event} \X {w}, next, escape)
    BY <1>b, <2>1, Zenon
  <2>. QED BY <1>a, <1>b, <2>2
<1>c. ASSUME UNCHANGED <<ho2m, kept>> PROVE Goal
  <2>1. Held' = Held /\ Views' = Views /\ ho2m' = ho2m
    BY <1>c, KeptFacts
  <2>2. {"SESSION_START"} \X {} = {}
    OBVIOUS
  <2>3. "SESSION_START" \in Events /\ {} \in SUBSET Nat /\ Enters("SESSION_START", {})
    BY <2>1, <2>2 DEF Events, Enters
  <2>4. Claims("SESSION_START", {})
    BY DEF Claims
  <2>5. ho2m \subseteq Held
    BY ViewFacts
  <2>. QED BY <2>1, <2>3, <2>4, <2>5
<1>. SUFFICES Goal
  OBVIOUS
<1>. HIDE DEF Goal
<1>1. CASE StartSession
  <2>1. WriteOr({<<"SESSION_START", 0>>}, "ready", "gone")
    BY <1>1 DEF StartSession
  <2>2. "SESSION_START" \in Events /\ 0 \in Nat
    BY <1>1 DEF Events
  <2>3. Claims("SESSION_START", {0})
    BY <1>1 DEF Claims
  <2>. QED BY <2>1, <2>2, <2>3, <1>b
<1>2. CASE Ask
  BY <1>2, <1>c DEF Ask, ledgers
<1>3. CASE Plan
  <2>1. WriteOr({<<"WO_PLANNED", seq'>>}, "dispatch", Escape)
    BY <1>3 DEF Plan, Write, wo
  <2>2. "WO_PLANNED" \in Events /\ seq' \in Nat
    BY <1>3, TypeStep DEF Events, TypeOK
  <2>3. Claims("WO_PLANNED", {seq'})
    BY <1>3 DEF Claims
  <2>. QED BY <2>1, <2>2, <2>3, <1>b
<1>4. CASE Dispatch
  <2>1. WriteOr({<<"WO_DISPATCHED", seq>>}, "execute", Escape)
    BY <1>4 DEF Dispatch, Write, wo
  <2>2. "WO_DISPATCHED" \in Events /\ seq \in Nat
    BY <1>4 DEF Events
  <2>3. Claims("WO_DISPATCHED", {seq})
    BY <1>4 DEF Claims
  <2>. QED BY <2>1, <2>2, <2>3, <1>b
<1>5. CASE ExecuteReturns
  BY <1>5, <1>c DEF ExecuteReturns, ledgers
<1>6. CASE ExecuteRaises
  BY <1>6, <1>c DEF ExecuteRaises, ledgers
<1>7. CASE Context
  BY <1>7, <1>c DEF Context, ledgers
<1>8. CASE Verify
  BY <1>8, <1>c DEF Verify, ledgers
<1>9. CASE Escalate
  <2>1. WriteOr({<<"ESCALATION", seq>>}, "chain", Escape)
    BY <1>9 DEF Escalate, Write, wo
  <2>2. "ESCALATION" \in Events /\ seq \in Nat
    BY <1>9 DEF Events
  <2>3. Claims("ESCALATION", {seq})
    BY <1>9 DEF Claims
  <2>. QED BY <2>1, <2>2, <2>3, <1>b
<1>10. CASE ChainComplete
  <2>1. WriteOr({"WO_CHAIN_COMPLETE"} \X chain, "gate", Escape)
    BY <1>10 DEF ChainComplete, Write
  <2>2. "WO_CHAIN_COMPLETE" \in Events /\ chain \in SUBSET Nat
    BY DEF Events, TypeOK
  <2>3. Claims("WO_CHAIN_COMPLETE", chain)
    BY DEF Claims
  <2>. QED BY <2>1, <2>2, <2>3, <1>a
<1>11. CASE LogGate
  <2>1. WriteOr({<<IF passed THEN "ACCEPT" ELSE "REJECT", seq>>}, "record", Escape)
    BY <1>11 DEF LogGate, Write, wo
  <2>2. (IF passed THEN "ACCEPT" ELSE "REJECT") \in Events /\ seq \in Nat
    BY <1>11 DEF Events
  <2>3. Claims(IF passed THEN "ACCEPT" ELSE "REJECT", {seq})
    BY <1>11 DEF Claims, LogGate, TypeOK
  <2>. QED BY <2>1, <2>2, <2>3, <1>b
<1>12. CASE Record
  <2>1. WriteOr({<<"TURN_RECORDED", Len(history) + 1>>}, "signals", "except")
    BY <1>12 DEF Record, AddTurn
  <2>2. "TURN_RECORDED" \in Events /\ Len(history) + 1 \in Nat
    BY DEF Events
  <2>3. Claims("TURN_RECORDED", {Len(history) + 1})
    BY <1>12 DEF Claims
  <2>. QED BY <2>1, <2>2, <2>3, <1>b
<1>13. CASE Signals
  BY <1>13, <1>c DEF Signals, ledgers
<1>14. CASE LogDegradation
  <2>1. WriteOr({<<"DEGRADATION", asked>>}, "recordDegraded", "degrade")
    BY <1>14 DEF LogDegradation
  <2>2. "DEGRADATION" \in Events /\ asked \in Nat
    BY <1>14 DEF Events
  <2>3. Claims("DEGRADATION", {asked})
    BY <1>14 DEF Claims
  <2>. QED BY <2>1, <2>2, <2>3, <1>b
<1>15. CASE RecordDegraded
  <2>1. WriteOr({<<"TURN_RECORDED", Len(history) + 1>>}, "return", "degrade")
    BY <1>15 DEF RecordDegraded, AddTurn
  <2>2. "TURN_RECORDED" \in Events /\ Len(history) + 1 \in Nat
    BY DEF Events
  <2>3. Claims("TURN_RECORDED", {Len(history) + 1})
    BY <1>15 DEF Claims
  <2>. QED BY <2>1, <2>2, <2>3, <1>b
<1>16. CASE Consolidate
  BY <1>16, <1>c DEF Consolidate, ledgers
<1>17. CASE Overlay
  BY <1>17, <1>c DEF Overlay, ledgers
<1>18. CASE Return
  BY <1>18, <1>c DEF Return, ledgers
<1>19. CASE Degrade
  BY <1>19, <1>c DEF Degrade, ledgers
<1>20. CASE EndSession
  <2>1. WriteOr({<<"SESSION_END", Len(history)>>}, "gone", "gone")
    BY <1>20 DEF EndSession
  <2>2. "SESSION_END" \in Events /\ Len(history) \in Nat
    BY <1>20 DEF Events
  <2>3. Claims("SESSION_END", {Len(history)})
    BY <1>20 DEF Claims
  <2>. QED BY <2>1, <2>2, <2>3, <1>b
<1>21. CASE UNCHANGED vars
  BY <1>21, <1>c DEF vars, ledgers
<1>22. CASE Quit
  BY <1>22, QuitFacts DEF Goal
<1>. QED
  BY Cases, <1>1, <1>2, <1>3, <1>4, <1>5, <1>6, <1>7, <1>8, <1>9, <1>10, <1>11, <1>12, <1>13,
     <1>14, <1>15, <1>16, <1>17, <1>18, <1>19, <1>20, <1>21, <1>22

-----------------------------------------------------------------------------
(* The two traces.                                                          *)

\* What HO1m says of the ends of work orders, or will say.
Finished == ho1m \union owed

\* Who writes what: entries of HO1m are never removed, it gets entries only of the
\* work order that HO1 is working on, and a work order is handed to HO1 only by
\* Plan and Dispatch.
LEMMA Writers ==
  ASSUME Typed, [Next]_vars
  PROVE  /\ ho1m \subseteq ho1m'
         /\ \/ Finished' \subseteq Finished
            \/ /\ ExecuteReturns \/ ExecuteRaises
               /\ Finished' \subseteq Finished \union (Ends \X {seq})
               /\ pc = "execute" /\ pc' \notin {"dispatch", "execute"}
         /\ pc' = "dispatch" => Plan \/ UNCHANGED vars
         /\ pc' = "execute" => Dispatch \/ UNCHANGED vars
         /\ seq' = seq \/ Plan
<1> DEFINE Goal == /\ ho1m \subseteq ho1m'
                   /\ \/ Finished' \subseteq Finished
                      \/ /\ ExecuteReturns \/ ExecuteRaises
                         /\ Finished' \subseteq Finished \union (Ends \X {seq})
                         /\ pc = "execute" /\ pc' \notin {"dispatch", "execute"}
                   /\ pc' = "dispatch" => Plan \/ UNCHANGED vars
                   /\ pc' = "execute" => Dispatch \/ UNCHANGED vars
                   /\ seq' = seq \/ Plan
<1>. SUFFICES Goal
  OBVIOUS
<1>0. ASSUME UNCHANGED <<ho1m, owed>>, seq' = seq, pc' \notin {"dispatch", "execute"}
      PROVE  Goal
  BY <1>0 DEF Finished
<1>. HIDE DEF Goal
<1>1. CASE StartSession
  <2>1. pc' \in {"ready", "gone"}
    BY <1>1, WriteLeads, Zenon DEF StartSession
  <2>. QED BY <1>1, <2>1, <1>0 DEF StartSession, manager
<1>2. CASE Ask
  BY <1>2, <1>0 DEF Ask, manager, ledgers
<1>3. CASE Plan
  <2>1. pc' \in {"dispatch", Escape}
    BY <1>3, WriteLeads, Zenon DEF Plan, Write
  <2>2. UNCHANGED <<ho1m, owed>>
    BY <1>3 DEF Plan
  <2>. QED BY <1>3, <2>1, <2>2, EscapeFacts DEF Goal, Finished
<1>4. CASE Dispatch
  <2>1. pc' \in {"execute", Escape}
    BY <1>4, WriteLeads, Zenon DEF Dispatch, Write
  <2>2. UNCHANGED <<ho1m, owed, seq>>
    BY <1>4 DEF Dispatch, manager
  <2>. QED BY <1>4, <2>1, <2>2, EscapeFacts DEF Goal, Finished
<1>5. CASE ExecuteReturns
  <2>1. /\ ho1m \subseteq ho1m' /\ ho1m' \subseteq ho1m \union owed \union (Ends \X {seq})
        /\ owed' = {} /\ seq' = seq /\ pc = "execute"
    BY <1>5 DEF ExecuteReturns, wo, End, Ends, manager
  <2>2. pc' \in {"overlay", "consolidate", "context", "verify"}
    BY <1>5 DEF ExecuteReturns, Onward
  <2>. QED BY <1>5, <2>1, <2>2 DEF Goal, Finished
<1>6. CASE ExecuteRaises
  <2>1. /\ owed' \subseteq owed \union (Ends \X {seq})
        /\ ho1m \subseteq ho1m' /\ ho1m' \subseteq ho1m \union owed'
        /\ seq' = seq /\ pc = "execute" /\ pc' = Escape
    BY <1>6, OweFacts DEF ExecuteRaises, manager
  <2>. QED BY <1>6, <2>1, EscapeFacts DEF Goal, Finished
<1>7. CASE Context
  BY <1>7, <1>0 DEF Context, manager, ledgers
<1>8. CASE Verify
  BY <1>8, <1>0 DEF Verify, AfterReject, manager, ledgers
<1>9. CASE Escalate
  <2>1. pc' \in {"chain", Escape}
    BY <1>9, WriteLeads, Zenon DEF Escalate, Write
  <2>. QED BY <1>9, <2>1, <1>0, EscapeFacts DEF Escalate, manager
<1>10. CASE ChainComplete
  <2>1. pc' \in {"gate", Escape}
    BY <1>10, WriteLeads, Zenon DEF ChainComplete, Write
  <2>. QED BY <1>10, <2>1, <1>0, EscapeFacts DEF ChainComplete, manager
<1>11. CASE LogGate
  <2>1. pc' \in {"record", Escape}
    BY <1>11, WriteLeads, Zenon DEF LogGate, Write
  <2>. QED BY <1>11, <2>1, <1>0, EscapeFacts DEF LogGate, manager
<1>12. CASE Record
  <2>1. pc' \in {"signals", "except"}
    BY <1>12, WriteLeads, Zenon DEF Record, AddTurn
  <2>. QED BY <1>12, <2>1, <1>0 DEF Record, manager
<1>13. CASE Signals
  BY <1>13, <1>0 DEF Signals, manager, ledgers
<1>14. CASE LogDegradation
  <2>1. pc' \in {"recordDegraded", "degrade"}
    BY <1>14, WriteLeads, Zenon DEF LogDegradation
  <2>. QED BY <1>14, <2>1, <1>0 DEF LogDegradation, manager
<1>15. CASE RecordDegraded
  <2>1. pc' \in {"return", "degrade"}
    BY <1>15, WriteLeads, Zenon DEF RecordDegraded, AddTurn
  <2>. QED BY <1>15, <2>1, <1>0 DEF RecordDegraded, manager
<1>16. CASE Consolidate
  BY <1>16, <1>0 DEF Consolidate, manager, ledgers
<1>17. CASE Overlay
  BY <1>17, <1>0 DEF Overlay, manager, ledgers
<1>18. CASE Return
  BY <1>18, <1>0 DEF Return, manager, ledgers
<1>19. CASE Degrade
  BY <1>19, <1>0 DEF Degrade, manager, ledgers
<1>20. CASE EndSession
  <2>1. pc' \in {"gone", "gone"}
    BY <1>20, WriteLeads, Zenon DEF EndSession
  <2>. QED BY <1>20, <2>1, <1>0 DEF EndSession, manager
<1>21. CASE UNCHANGED vars
  BY <1>21 DEF vars, manager, ledgers, Goal, Finished
<1>22. CASE Quit
  <2>1. ho1m \subseteq ho1m' /\ ho1m' \subseteq ho1m \union owed /\ owed' = {} /\ seq' = seq /\ pc' = "over"
    BY <1>22 DEF Quit, manager
  <2>. QED BY <2>1 DEF Goal, Finished
<1>. QED
  BY Cases, <1>1, <1>2, <1>3, <1>4, <1>5, <1>6, <1>7, <1>8, <1>9, <1>10, <1>11, <1>12, <1>13,
     <1>14, <1>15, <1>16, <1>17, <1>18, <1>19, <1>20, <1>21, <1>22

\* The work order at hand: its plan and its dispatch are in HO2m when HO1 gets
\* it, and HO1 has never had it before.
Traced ==
  /\ \A e \in Finished : <<"WO_PLANNED", e[2]>> \in ho2m /\ <<"WO_DISPATCHED", e[2]>> \in ho2m
  /\ pc \in {"dispatch", "execute"} =>
       /\ <<"WO_PLANNED", seq>> \in ho2m
       /\ \A e \in Finished : e[2] # seq
  /\ pc = "execute" => <<"WO_DISPATCHED", seq>> \in ho2m

LEMMA TracedInit == Init => Traced
BY DEF Init, Traced, Finished

LEMMA TracedStep == Typed /\ Traced /\ [Next]_vars => Traced'
<1>. SUFFICES ASSUME Typed, Traced, [Next]_vars PROVE Traced'
  OBVIOUS
<1>. USE TypedFacts DEF Typed
<1>0. ho2m \subseteq ho2m'
  BY HeldStep
<1>1. \A e \in Finished' : <<"WO_PLANNED", e[2]>> \in ho2m' /\ <<"WO_DISPATCHED", e[2]>> \in ho2m'
  <2>. SUFFICES ASSUME NEW e \in Finished'
                PROVE  <<"WO_PLANNED", e[2]>> \in ho2m' /\ <<"WO_DISPATCHED", e[2]>> \in ho2m'
    OBVIOUS
  <2>1. CASE e \in Finished
    BY <2>1, <1>0 DEF Traced
  <2>2. CASE e \notin Finished
    <3>1. e \in Ends \X {seq} /\ pc = "execute"
      BY <2>2, Writers
    <3>2. e[2] = seq
      BY <3>1
    <3>. QED BY <3>1, <3>2, <1>0 DEF Traced
  <2>. QED BY <2>1, <2>2
<1>2. CASE UNCHANGED vars
  BY <1>1, <1>2 DEF Traced, vars, manager, ledgers, Finished
<1>3. CASE Plan
  <2>1. WriteOr({<<"WO_PLANNED", seq'>>}, "dispatch", Escape)
    BY <1>3 DEF Plan, Write
  <2>2. pc' \in {"dispatch", Escape} /\ (pc' # Escape => <<"WO_PLANNED", seq'>> \in ho2m')
    <3>1. faults \in 0..MaxFaults /\ kept \in Seq(Lines)
      OBVIOUS
    <3>2. pc' \in {"dispatch", Escape} /\ (pc' # Escape => {<<"WO_PLANNED", seq'>>} \subseteq ho2m')
      BY <2>1, <3>1, WriteFacts
    <3>. QED BY <3>2
  <2>3. seq' = seq + 1 /\ Finished' = Finished
    BY <1>3 DEF Plan, NextWo, Finished
  <2>4. \A e \in Finished : e[2] # seq + 1
    <3>. SUFFICES ASSUME NEW e \in Finished PROVE e[2] # seq + 1
      OBVIOUS
    <3>1. e \in Ends \X (1..seq) /\ seq \in Nat
      BY DEF TypeOK, Finished
    <3>2. e[2] \in 1..seq
      BY <3>1
    <3>. QED BY <3>1, <3>2
  <2>. QED BY <1>1, <2>2, <2>3, <2>4, EscapeFacts DEF Traced
<1>4. CASE Dispatch
  <2>1. WriteOr({<<"WO_DISPATCHED", seq>>}, "execute", Escape)
    BY <1>4 DEF Dispatch, Write, wo
  <2>2. pc' \in {"execute", Escape} /\ (pc' # Escape => <<"WO_DISPATCHED", seq>> \in ho2m')
    <3>1. faults \in 0..MaxFaults /\ kept \in Seq(Lines)
      OBVIOUS
    <3>2. pc' \in {"execute", Escape} /\ (pc' # Escape => {<<"WO_DISPATCHED", seq>>} \subseteq ho2m')
      BY <2>1, <3>1, WriteFacts
    <3>. QED BY <3>2
  <2>3. pc = "dispatch" /\ seq' = seq /\ Finished' = Finished
    BY <1>4 DEF Dispatch, manager, Finished
  <2>. QED BY <1>0, <1>1, <2>2, <2>3, EscapeFacts DEF Traced
<1>5. CASE pc' \notin {"dispatch", "execute"}
  BY <1>1, <1>5 DEF Traced
<1>. QED BY <1>2, <1>3, <1>4, <1>5, Writers

\* DispatchedFirst: whatever writes raise, HO1 works only on work orders whose
\* plan and dispatch are in HO2m.
THEOREM DispatchBeforeWork == Spec => []DispatchedFirst
<1>1. Init => Typed /\ Traced
  BY TypeInit, TracedInit
<1>2. Typed /\ Traced /\ [Next]_vars => (Typed /\ Traced)'
  BY TypeStep, TracedStep
<1>3. Traced => DispatchedFirst
  BY DEF Traced, DispatchedFirst, Finished
<1>. QED BY <1>1, <1>2, <1>3, PTL DEF Spec

\* NeverTwice: HO1 is never given a work order it has had before, retries and
\* failed turns included.
THEOREM FreshOrders == Spec => []NeverTwice
<1>1. Init => Typed /\ Traced
  BY TypeInit, TracedInit
<1>2. Typed /\ Traced /\ [Next]_vars => (Typed /\ Traced)'
  BY TypeStep, TracedStep
<1>3. Traced => NeverTwice
  BY DEF Traced, NeverTwice, wo, Finished
<1>. QED BY <1>1, <1>2, <1>3, PTL DEF Spec

-----------------------------------------------------------------------------
(* What HO2m says of work orders.                                           *)

\* HO1m knows how w ended.
EndKnown(w) == \E end \in Ends : <<end, w>> \in ho1m

\* The chain, and what is written of it, hold only work orders that have come back.
Closed ==
  /\ \A w \in chain : EndKnown(w)
  /\ \A w \in Nat : <<"WO_CHAIN_COMPLETE", w>> \in Held => EndKnown(w)

\* Only the return of a work order joins one to the chain.
LEMMA ChainWriters ==
  ASSUME [Next]_vars
  PROVE  chain' \subseteq chain \/ ExecuteReturns
<1>1. CASE StartSession \/ Ask \/ Plan \/ Dispatch \/ ExecuteRaises \/ Context \/ Verify
  BY <1>1 DEF StartSession, Ask, Plan, Dispatch, ExecuteRaises, Context, Verify, turn
<1>2. CASE Escalate \/ ChainComplete \/ LogGate \/ Record \/ Signals \/ LogDegradation \/ RecordDegraded
  BY <1>2 DEF Escalate, ChainComplete, LogGate, Record, Signals, LogDegradation, RecordDegraded, turn
<1>3. CASE Consolidate \/ Overlay \/ Return \/ Degrade \/ EndSession \/ Quit \/ UNCHANGED vars
  BY <1>3 DEF Consolidate, Overlay, Return, Degrade, EndSession, Quit, vars, turn
<1>. QED BY Cases, <1>1, <1>2, <1>3

LEMMA ClosedStep == Typed /\ Closed /\ [Next]_vars => Closed'
<1>. SUFFICES ASSUME Typed, Closed, [Next]_vars PROVE Closed'
  OBVIOUS
<1>0. \A w : EndKnown(w) => EndKnown(w)'
  BY Writers DEF EndKnown
<1>1. \A w \in chain' : EndKnown(w)'
  <2>1. CASE chain' \subseteq chain
    BY <2>1, <1>0 DEF Closed
  <2>2. CASE ExecuteReturns
    <3>1. chain' \subseteq chain \union {wo}
      BY <2>2 DEF ExecuteReturns
    <3>2. EndKnown(wo)'
      <4>1. PICK s \in {"completed", "failed"} : <<End(s), wo>> \in ho1m'
        BY <2>2 DEF ExecuteReturns, End, Ends
      <4>2. End(s) \in Ends
        BY DEF End, Ends
      <4>3. wo' = wo
        BY <2>2 DEF ExecuteReturns, manager, wo
      <4>. QED BY <4>1, <4>2, <4>3 DEF EndKnown
    <3>3. wo' = wo
      BY <2>2 DEF ExecuteReturns, manager, wo
    <3>. QED BY <3>1, <3>2, <3>3, <1>0 DEF Closed
  <2>. QED BY <2>1, <2>2, ChainWriters
<1>2. ASSUME NEW w \in Nat, <<"WO_CHAIN_COMPLETE", w>> \in Held'
      PROVE  EndKnown(w)'
  <2>1. CASE <<"WO_CHAIN_COMPLETE", w>> \in Held
    BY <2>1, <1>0 DEF Closed
  <2>2. CASE <<"WO_CHAIN_COMPLETE", w>> \notin Held
    <3>1. PICK event \in Events, W \in SUBSET Nat : Enters(event, W) /\ Claims(event, W)
      BY <1>2, <2>2, HeldStep
    <3>2. event = "WO_CHAIN_COMPLETE" /\ w \in W
      BY <1>2, <2>2, <3>1 DEF Enters
    <3>3. w \in chain
      BY <3>1, <3>2 DEF Claims
    <3>. QED BY <3>3, <1>0 DEF Closed
  <2>. QED BY <2>1, <2>2
<1>. QED BY <1>1, <1>2 DEF Closed

LEMMA HeldInit == Init => Held = {} /\ Views = {{}}
<1>. SUFFICES ASSUME Init PROVE Held = {} /\ Views = {{}}
  OBVIOUS
<1>1. ho2m = {} /\ kept = << >> /\ Len(kept) = 0 /\ 0..Len(kept) = {0} /\ Said(kept, 0) = {}
  BY SaidGrows DEF Init
<1>2. Upto(0) = {}
  BY <1>1 DEF Upto
<1>. QED BY <1>1, <1>2 DEF Held, Views

LEMMA ClosedInit == Init => Closed
BY HeldInit DEF Init, Closed

\* ChainsClosed: a WO_CHAIN_COMPLETE entry lists only work orders whose end is in
\* HO1m, for every number of retries and whatever writes raise.
THEOREM ChainsComplete == Spec => []ChainsClosed
<1>1. Init => Typed /\ Closed
  BY TypeInit, ClosedInit
<1>2. Typed /\ Closed /\ [Next]_vars => (Typed /\ Closed)'
  BY TypeStep, ClosedStep
<1>3. Typed /\ Closed => ChainsClosed
  <2>. SUFFICES ASSUME Typed, Closed, NEW w \in 1..seq, <<"WO_CHAIN_COMPLETE", w>> \in ho2m
                PROVE  \E end \in Ends : <<end, w>> \in ho1m
    BY DEF ChainsClosed
  <2>1. w \in Nat /\ ho2m \subseteq Held
    BY TypedFacts, ViewFacts DEF Typed
  <2>. QED BY <2>1 DEF Closed, EndKnown
<1>. QED BY <1>1, <1>2, <1>3, PTL DEF Spec

\* What the quality gate has accepted is completed in HO1m; the gate judges the
\* work order that HO1 gave back last.
Accepted ==
  /\ \A w \in Nat : <<"ACCEPT", w>> \in Held => <<"WO_COMPLETED", w>> \in ho1m
  /\ pc = "verify" => back \in {"completed", "failed"} /\ <<End(back), seq>> \in ho1m
  /\ pc \in {"chain", "gate"} /\ passed = TRUE => <<"WO_COMPLETED", seq>> \in ho1m
  /\ pc = "escalate" => passed = FALSE

LEMMA AcceptedInit == Init => Accepted
BY HeldInit DEF Init, Accepted

LEMMA AcceptedStep == Typed /\ Accepted /\ [Next]_vars => Accepted'
<1>. SUFFICES ASSUME Typed, Accepted, [Next]_vars PROVE Accepted'
  OBVIOUS
<1>. USE TypedFacts DEF Typed
<1>0. \A w \in Nat : <<"ACCEPT", w>> \in Held' => <<"WO_COMPLETED", w>> \in ho1m'
  <2>. SUFFICES ASSUME NEW w \in Nat, <<"ACCEPT", w>> \in Held' PROVE <<"WO_COMPLETED", w>> \in ho1m'
    OBVIOUS
  <2>1. CASE <<"ACCEPT", w>> \in Held
    BY <2>1, Writers DEF Accepted
  <2>2. CASE <<"ACCEPT", w>> \notin Held
    <3>1. PICK event \in Events, W \in SUBSET Nat : Enters(event, W) /\ Claims(event, W)
      BY <2>2, HeldStep
    <3>2. event = "ACCEPT" /\ w \in W
      BY <2>2, <3>1 DEF Enters
    <3>3. pc = "gate" /\ passed = TRUE /\ w = seq
      BY <3>1, <3>2 DEF Claims
    <3>. QED BY <3>3, Writers DEF Accepted
  <2>. QED BY <2>1, <2>2
<1>l. pc' \notin {"verify", "chain", "gate", "escalate"} => Accepted'
  BY <1>0 DEF Accepted
<1>m. ho1m \subseteq ho1m'
  BY Writers
<1>1. CASE pc' \notin {"verify", "chain", "gate", "escalate"}
  BY <1>1, <1>l
<1>2. CASE ExecuteReturns
  <2>1. PICK s \in {"completed", "failed"} : back' = s /\ pc' = Onward(s) /\ <<End(s), wo>> \in ho1m'
    BY <1>2 DEF ExecuteReturns, End, Ends
  <2>2. seq' = seq /\ pc' \in {"context", "verify", "overlay", "consolidate"}
    BY <1>2, <2>1 DEF ExecuteReturns, Onward, manager
  <2>3. <<End(back'), seq'>> \in ho1m'
    BY <2>1, <2>2 DEF wo
  <2>. QED BY <1>0, <2>1, <2>2, <2>3 DEF Accepted, End
<1>3. CASE Verify
  <2>1. PICK verdict \in Verdicts :
          /\ passed' = (verdict = "accept")
          /\ pc' = CASE verdict = "accept" -> "chain"
                     [] verdict = "raise" -> "except"
                     [] OTHER -> AfterReject
    BY <1>3 DEF Verify
  <2>2. pc = "verify" /\ seq' = seq /\ ho1m' = ho1m
    BY <1>3 DEF Verify, manager, ledgers
  <2>3. CASE verdict = "accept"
    <3>1. back # "failed"
      BY <2>3 DEF Verdicts
    <3>2. <<"WO_COMPLETED", seq>> \in ho1m
      BY <2>2, <3>1 DEF Accepted, End
    <3>3. pc' = "chain"
      BY <2>1, <2>3
    <3>. QED BY <1>0, <2>2, <3>2, <3>3 DEF Accepted
  <2>4. CASE verdict # "accept"
    <3>1. passed' = FALSE
      BY <2>1, <2>4, Zenon
    <3>2. pc' \in {"except", "plan", "escalate"}
      BY <2>1, <2>4 DEF AfterReject
    <3>. QED BY <1>0, <3>1, <3>2 DEF Accepted
  <2>. QED BY <2>3, <2>4
<1>4. CASE Escalate
  <2>1. pc' \in {"chain", Escape}
    BY <1>4, WriteLeads, Zenon DEF Escalate, Write
  <2>2. pc = "escalate" /\ passed' = passed
    BY <1>4 DEF Escalate, turn
  <2>. QED BY <1>0, <2>1, <2>2, EscapeFacts DEF Accepted
<1>5. CASE ChainComplete
  <2>1. pc' \in {"gate", Escape}
    BY <1>5, WriteLeads, Zenon DEF ChainComplete, Write
  <2>2. pc = "chain" /\ passed' = passed /\ seq' = seq /\ ho1m' = ho1m
    BY <1>5 DEF ChainComplete, turn, manager
  <2>. QED BY <1>0, <2>1, <2>2, EscapeFacts DEF Accepted
<1>6. CASE UNCHANGED vars
  BY <1>0, <1>6 DEF vars, manager, turn, ledgers, Accepted
<1>7. \/ pc' \notin {"verify", "chain", "gate", "escalate"}
      \/ ExecuteReturns \/ Verify \/ Escalate \/ ChainComplete \/ UNCHANGED vars
  <2>1. CASE StartSession \/ Plan \/ Dispatch \/ LogGate \/ LogDegradation \/ EndSession
    <3>1. pc' \in {"ready", "gone", "dispatch", "execute", "record", "recordDegraded", "degrade", Escape}
      BY <2>1, WriteLeads, Zenon DEF StartSession, Plan, Dispatch, LogGate, LogDegradation, EndSession, Write
    <3>. QED BY <3>1, EscapeFacts
  <2>2. CASE Record \/ RecordDegraded
    <3>1. pc' \in {"signals", "except", "return", "degrade"}
      BY <2>2, WriteLeads, Zenon DEF Record, RecordDegraded, AddTurn
    <3>. QED BY <3>1
  <2>3. CASE Ask \/ Context \/ Signals \/ Consolidate \/ Overlay \/ Return \/ Degrade \/ Quit
    BY <2>3 DEF Ask, Context, Signals, Consolidate, Overlay, Return, Degrade, Quit
  <2>4. CASE ExecuteRaises
    BY <2>4, EscapeFacts DEF ExecuteRaises
  <2>. QED BY <2>1, <2>2, <2>3, <2>4, Cases
<1>. QED BY <1>1, <1>2, <1>3, <1>4, <1>5, <1>6, <1>7

\* AcceptedCompleted: the quality gate accepts only what HO1m knows as completed.
THEOREM AcceptsCompleted == Spec => []AcceptedCompleted
<1>1. Init => Typed /\ Accepted
  BY TypeInit, AcceptedInit
<1>2. Typed /\ Accepted /\ [Next]_vars => (Typed /\ Accepted)'
  BY TypeStep, AcceptedStep
<1>3. Typed /\ Accepted => AcceptedCompleted
  <2>. SUFFICES ASSUME Typed, Accepted PROVE AcceptedCompleted
    OBVIOUS
  <2>1. ho2m \subseteq Held /\ seq \in Nat
    BY ViewFacts, TypedFacts DEF Typed
  <2>. QED BY <2>1 DEF Accepted, AcceptedCompleted
<1>. QED BY <1>1, <1>2, <1>3, PTL DEF Spec

-----------------------------------------------------------------------------
(* What HO2m says of turns.                                                 *)

\* The turns that some entries record, and whether they are a proper record of a
\* session with h turns so far: no gap, and a summary only after all of them.
Turns(S) == {n \in Nat : <<"TURN_RECORDED", n>> \in S}
Sums(S) == {n \in Nat : <<"SESSION_END", n>> \in S}
Proper(S, h) ==
  /\ \E k \in 0..h : Turns(S) = 1..k
  /\ Sums(S) # {} => Sums(S) = {h} /\ Turns(S) = 1..h

\* HO2m is a proper record whatever part of the lines kept lands, nothing is lost
\* before the end of the program, and the summary is the last line.
InOrder ==
  /\ \A S \in Views : Proper(S, Len(history))
  /\ pc # "over" => Turns(Held) = 1..Len(history)
  /\ pc \notin {"gone", "over"} => Sums(Held) = {}

LEMMA InOrderInit == Init => InOrder
<1>. SUFFICES ASSUME Init PROVE InOrder
  OBVIOUS
<1>1. Held = {} /\ Views = {{}} /\ Len(history) = 0
  BY HeldInit DEF Init
<1>2. Turns({}) = {} /\ Sums({}) = {} /\ 1..0 = {} /\ 0 \in 0..0
  BY DEF Turns, Sums
<1>. QED BY <1>1, <1>2 DEF InOrder, Proper

\* Which turns and summaries a line adds.
LEMMA LineTurns ==
  ASSUME NEW S, NEW event \in Events, NEW W \in SUBSET Nat
  PROVE  /\ Turns(S \union ({event} \X W)) = Turns(S) \union (IF event = "TURN_RECORDED" THEN W ELSE {})
         /\ Sums(S \union ({event} \X W)) = Sums(S) \union (IF event = "SESSION_END" THEN W ELSE {})
<1>1. CASE event = "TURN_RECORDED"
  BY <1>1 DEF Turns, Sums
<1>2. CASE event = "SESSION_END"
  BY <1>2 DEF Turns, Sums
<1>3. CASE event \notin {"TURN_RECORDED", "SESSION_END"}
  BY <1>3 DEF Turns, Sums
<1>. QED BY <1>1, <1>2, <1>3

LEMMA SumsOfView ==
  ASSUME NEW S, NEW T, S \subseteq T
  PROVE  Turns(S) \subseteq Turns(T) /\ Sums(S) \subseteq Sums(T)
BY DEF Turns, Sums

\* Which steps count a turn, and where the session goes over.
LEMMA HistoryKept ==
  ASSUME Typed, [Next]_vars
  PROVE  /\ history' = history \/ Record \/ RecordDegraded
         /\ pc' = "over" => pc = "over" \/ Quit
         /\ pc \in {"gone", "over"} => pc' \in {"gone", "over"}
         /\ pc = "over" => pc' = "over"
         /\ Record \/ RecordDegraded => history' = Append(history, asked) /\ pc \notin {"gone", "over"}
         /\ Quit => pc = "gone" /\ pc' = "over" /\ history' = history
         /\ EndSession => pc = "ready" /\ pc' = "gone" /\ history' = history
<1>1. CASE StartSession \/ Plan \/ Dispatch \/ Escalate \/ ChainComplete \/ LogGate \/ LogDegradation
  <2>1. pc' \in {"ready", "gone", "dispatch", "execute", "chain", "gate", "record", "recordDegraded",
                 "degrade", Escape}
    BY <1>1, WriteLeads, Zenon DEF StartSession, Plan, Dispatch, Escalate, ChainComplete, LogGate,
                                   LogDegradation, Write
  <2>2. history' = history /\ pc \notin {"gone", "over"}
    BY <1>1 DEF StartSession, Plan, Dispatch, Escalate, ChainComplete, LogGate, LogDegradation, manager
  <2>3. ~Record /\ ~RecordDegraded /\ ~Quit /\ ~EndSession
    BY <1>1 DEF StartSession, Plan, Dispatch, Escalate, ChainComplete, LogGate, LogDegradation,
                Record, RecordDegraded, Quit, EndSession
  <2>. QED BY <2>1, <2>2, <2>3, EscapeFacts
<1>2. CASE Record \/ RecordDegraded
  <2>1. pc' \in {"signals", "except", "return", "degrade"} /\ history' = Append(history, asked)
    BY <1>2, WriteLeads, Zenon DEF Record, RecordDegraded, AddTurn
  <2>2. pc \in {"record", "recordDegraded"}
    BY <1>2 DEF Record, RecordDegraded
  <2>3. ~Quit /\ ~EndSession
    BY <2>2 DEF Quit, EndSession
  <2>. QED BY <1>2, <2>1, <2>2, <2>3
<1>3. CASE EndSession
  <2>1. pc = "ready" /\ pc' = "gone" /\ history' = history
    BY <1>3, WriteLeads DEF EndSession, manager
  <2>. QED BY <1>3, <2>1 DEF Record, RecordDegraded, Quit
<1>4. CASE Quit
  BY <1>4 DEF Quit, manager, Record, RecordDegraded, EndSession
<1>5. CASE Ask \/ ExecuteReturns \/ ExecuteRaises \/ Context \/ Verify
  <2>1. /\ history' = history /\ pc \in {"ready", "execute", "context", "verify"}
        /\ pc' \notin {"gone", "over"}
    BY <1>5, EscapeFacts DEF Ask, ExecuteReturns, ExecuteRaises, Context, Verify, Onward, AfterReject,
                             manager, ledgers
  <2>2. ~EndSession
    BY <1>5 DEF Ask, ExecuteReturns, ExecuteRaises, Context, Verify, EndSession, manager, ledgers, WriteOr
  <2>. QED BY <2>1, <2>2 DEF Record, RecordDegraded, Quit
<1>6. CASE Signals \/ Consolidate \/ Overlay \/ Return \/ Degrade
  <2>1. /\ history' = history /\ pc' \notin {"gone", "over"}
        /\ pc \in {"signals", "consolidate", "overlay", "return", "degrade"}
    BY <1>6 DEF Signals, Consolidate, Overlay, Return, Degrade, manager, ledgers
  <2>. QED BY <2>1 DEF Record, RecordDegraded, Quit, EndSession
<1>7. CASE UNCHANGED vars
  <2>1. history' = history /\ pc' = pc
    BY <1>7 DEF vars, manager
  <2>2. ~Record /\ ~RecordDegraded /\ ~Quit /\ ~EndSession
    <3>1. ~Quit
      BY <2>1 DEF Quit
    <3>2. ~EndSession
      BY <2>1, WriteLeads DEF EndSession
    <3>3. Record \/ RecordDegraded => pc' # pc
      <4>1. Record => pc = "record" /\ pc' \in {"signals", "except"}
        BY WriteLeads, Zenon DEF Record, AddTurn
      <4>2. RecordDegraded => pc = "recordDegraded" /\ pc' \in {"return", "degrade"}
        BY WriteLeads, Zenon DEF RecordDegraded, AddTurn
      <4>. QED BY <4>1, <4>2
    <3>. QED BY <2>1, <3>1, <3>2, <3>3
  <2>. QED BY <2>1, <2>2
<1>. QED BY Cases, <1>1, <1>2, <1>3, <1>4, <1>5, <1>6, <1>7

LEMMA InOrderStep == Typed /\ InOrder /\ [Next]_vars => InOrder'
<1>. SUFFICES ASSUME Typed, InOrder, [Next]_vars PROVE InOrder'
  OBVIOUS
<1> DEFINE h == Len(history)
<1>0. h \in Nat /\ kept \in Seq(Lines) /\ history \in Seq(Nat)
  BY TypedFacts DEF Typed
<1>1. /\ \A S \in Views : Proper(S, h)
      /\ pc # "over" => Turns(Held) = 1..h
      /\ pc \notin {"gone", "over"} => Sums(Held) = {}
  BY DEF InOrder
<1>2. \A S \in Views : Turns(S) \subseteq Turns(Held) /\ Sums(S) \subseteq Sums(Held)
  BY <1>0, ViewFacts, SumsOfView
<1>3. CASE Quit /\ Held' \subseteq Held /\ Views' \subseteq Views
  <2>1. history' = history /\ pc' = "over"
    BY <1>3, HistoryKept
  <2>. QED BY <1>1, <1>3, <2>1 DEF InOrder
<1>4. ASSUME NEW event \in Events, NEW W \in SUBSET Nat, Enters(event, W), Claims(event, W)
      PROVE  InOrder'
  <2> DEFINE line == {event} \X W
  <2>1. Held' = Held \union line /\ Views' \subseteq Views \union {Held \union line}
    BY <1>4 DEF Enters
  <2>2. /\ Turns(Held') = Turns(Held) \union (IF event = "TURN_RECORDED" THEN W ELSE {})
        /\ Sums(Held') = Sums(Held) \union (IF event = "SESSION_END" THEN W ELSE {})
    <3>1. /\ Turns(Held \union line) = Turns(Held) \union (IF event = "TURN_RECORDED" THEN W ELSE {})
          /\ Sums(Held \union line) = Sums(Held) \union (IF event = "SESSION_END" THEN W ELSE {})
      BY <1>4, LineTurns DEF line
    <3>. QED BY <2>1, <3>1
  <2>3. Proper(Held, h)
    BY <1>0, <1>1, ViewFacts
  <2>4. \A S \in Views' : S \in Views \/ S = Held'
    BY <2>1
  <2>. HIDE DEF line, h
  <2>5. CASE event = "TURN_RECORDED"
    <3>1. W = {h + 1} /\ (Record \/ RecordDegraded)
      BY <1>4, <2>5 DEF Claims, h
    <3>2. history' = Append(history, asked) /\ pc \notin {"gone", "over"}
      BY <3>1, HistoryKept
    <3>3. Len(history') = h + 1
      BY <1>0, <3>2 DEF h
    <3>4. Turns(Held') = 1..h + 1
      BY <1>0, <1>1, <2>2, <2>5, <3>1, <3>2
    <3>5. Sums(Held') = {} /\ Sums(Held) = {}
      BY <1>1, <2>2, <2>5, <3>2
    <3>6. ASSUME NEW S \in Views PROVE Proper(S, h + 1)
      <4>1. Sums(S) = {}
        BY <1>2, <3>5
      <4>2. PICK k \in 0..h : Turns(S) = 1..k
        BY <1>1 DEF Proper
      <4>3. k \in 0..h + 1
        BY <1>0, <4>2
      <4>. QED BY <4>1, <4>2, <4>3 DEF Proper
    <3>7. Proper(Held', h + 1)
      <4>1. h + 1 \in 0..h + 1
        BY <1>0
      <4>. QED BY <3>4, <3>5, <4>1 DEF Proper
    <3>. QED BY <2>4, <3>3, <3>4, <3>5, <3>6, <3>7 DEF InOrder
  <2>6. CASE event = "SESSION_END"
    <3>1. W = {h} /\ EndSession
      BY <1>4, <2>6 DEF Claims, h
    <3>2. history' = history /\ pc = "ready" /\ pc' = "gone"
      BY <3>1, HistoryKept
    <3>3. Turns(Held') = 1..h /\ Sums(Held') = {h}
      BY <1>1, <2>2, <2>6, <3>1, <3>2
    <3>4. Proper(Held', h)
      <4>1. h \in 0..h
        BY <1>0
      <4>. QED BY <3>3, <4>1 DEF Proper
    <3>. QED BY <1>1, <2>4, <3>2, <3>3, <3>4 DEF InOrder, h
  <2>7. CASE event \notin {"TURN_RECORDED", "SESSION_END"}
    <3>1. Turns(Held') = Turns(Held) /\ Sums(Held') = Sums(Held)
      BY <2>2, <2>7
    <3>2. Proper(Held', h)
      BY <2>3, <3>1 DEF Proper
    <3>3. CASE history' = history
      <4>1. pc' # "over" => pc # "over"
        BY HistoryKept
      <4>2. pc' \notin {"gone", "over"} => pc \notin {"gone", "over"}
        BY HistoryKept
      <4>. QED BY <1>1, <2>4, <3>1, <3>2, <3>3, <4>1, <4>2 DEF InOrder, h
    <3>4. CASE Record \/ RecordDegraded
      \* add_turn() writes its own line, so the line above is that of add_turn() too.
      <4>1. \E next, escape : WriteOr({<<"TURN_RECORDED", h + 1>>}, next, escape)
        BY <3>4, Zenon DEF Record, RecordDegraded, AddTurn, h
      <4>2. faults \in 0..MaxFaults
        BY TypedFacts DEF Typed
      <4>3. <<"TURN_RECORDED", h + 1>> \in Held'
        BY <1>0, <4>1, <4>2, WriteFacts
      <4>4. h + 1 \in Turns(Held') /\ h + 1 \notin 1..h
        BY <1>0, <4>3 DEF Turns
      <4>5. Turns(Held) = 1..h
        BY <1>1, <3>4, HistoryKept
      <4>. QED BY <3>1, <4>4, <4>5
    <3>. QED BY <3>3, <3>4, HistoryKept
  <2>. QED BY <2>5, <2>6, <2>7
<1>. QED BY <1>3, <1>4, HeldStep

\* What a proper record means for HO2m.
LEMMA RecordFacts ==
  ASSUME Typed, InOrder
  PROVE  /\ \E k \in 0..Len(history) : Recorded = 1..k
         /\ Recorded = Turns(ho2m)
         /\ Sums(ho2m) \subseteq {Len(history)} /\ Told = Sums(ho2m)
         /\ Sums(ho2m) # {} => Recorded = 1..Len(history)
<1>1. Proper(ho2m, Len(history)) /\ Len(history) \in Nat
  BY ViewFacts, TypedFacts DEF InOrder, Typed
<1>2. PICK k \in 0..Len(history) : Turns(ho2m) = 1..k
  BY <1>1 DEF Proper
<1>3. Recorded = Turns(ho2m)
  <2>1. 1..k \subseteq 1..Len(history)
    BY <1>1, <1>2
  <2>2. Recorded = Turns(ho2m) \intersect (1..Len(history))
    BY DEF Recorded, Turns
  <2>. QED BY <1>2, <2>1, <2>2
<1>4. Sums(ho2m) \subseteq {Len(history)} /\ (Sums(ho2m) # {} => Recorded = 1..Len(history))
  BY <1>1, <1>3 DEF Proper
<1>5. Told = Sums(ho2m)
  <2>1. Told = Sums(ho2m) \intersect (0..Len(history))
    BY <1>1 DEF Told, Sums
  <2>. QED BY <1>1, <1>4, <2>1
<1>. QED BY <1>2, <1>3, <1>4, <1>5

\* NoGap: for every number of turns, HO2m records them in the order they were
\* counted in and none before those it follows, although writes raise and what
\* they kept lands later, or twice.
THEOREM TurnsInOrder == Spec => []NoGap
<1>1. Init => Typed /\ InOrder
  BY TypeInit, InOrderInit
<1>2. Typed /\ InOrder /\ [Next]_vars => (Typed /\ InOrder)'
  BY TypeStep, InOrderStep
<1>3. Typed /\ InOrder => NoGap
  BY RecordFacts DEF NoGap
<1>. QED BY <1>1, <1>2, <1>3, PTL DEF Spec

\* The message at hand is in HO2m.
HasRecord == \E n \in Recorded : history[n] = asked

\* Consolidation and the return from handle_turn() come after add_turn().
Answered ==
  /\ pc = "new" => answer = "none"
  /\ pc \in {"signals", "consolidate", "overlay", "return"} => HasRecord
  /\ kind = "consolidate" => HasRecord
  /\ pc = "ready" /\ answer = "success" => HasRecord

LEMMA AnsweredInit == Init => Answered
BY DEF Init, Answered

\* What is in HO2m stays there.
LEMMA RecordStays ==
  ASSUME Typed, [Next]_vars, asked' = asked, HasRecord
  PROVE  HasRecord'
<1>1. PICK n \in 1..Len(history) : <<"TURN_RECORDED", n>> \in ho2m /\ history[n] = asked
  BY DEF HasRecord, Recorded
<1>2. <<"TURN_RECORDED", n>> \in ho2m'
  BY <1>1, HeldStep
<1>3. history \in Seq(Nat) /\ asked \in Nat
  BY TypedFacts DEF Typed
<1>4. n \in 1..Len(history') /\ history'[n] = history[n]
  <2>1. CASE history' = history
    BY <2>1, <1>1
  <2>2. CASE history' = Append(history, asked)
    BY <2>2, <1>1, <1>3
  <2>. QED BY <2>1, <2>2, HistoryKept
<1>. QED BY <1>1, <1>2, <1>4 DEF HasRecord, Recorded

\* A write of add_turn() that returns has put the message at hand in HO2m.
LEMMA RecordedByAddTurn ==
  ASSUME Typed, NEW next, NEW escape, AddTurn(next, escape), asked' = asked
  PROVE  (pc' # escape => HasRecord') /\ pc' \in {next, escape}
<1>1. /\ history' = Append(history, asked)
      /\ WriteOr({<<"TURN_RECORDED", Len(history) + 1>>}, next, escape)
  BY DEF AddTurn
<1>2. /\ history \in Seq(Nat) /\ asked \in Nat /\ Len(history) \in Nat
      /\ faults \in 0..MaxFaults /\ kept \in Seq(Lines)
  BY TypedFacts DEF Typed
<1>3. pc' \in {next, escape}
  BY <1>1, WriteLeads
<1>4. ASSUME pc' # escape PROVE HasRecord'
  <2>1. <<"TURN_RECORDED", Len(history) + 1>> \in ho2m'
    BY <1>1, <1>2, <1>4, WriteFacts
  <2>2. /\ Len(history) + 1 \in 1..Len(history')
        /\ history'[Len(history) + 1] = asked
    BY <1>1, <1>2
  <2>3. Len(history) + 1 \in Recorded'
    BY <2>1, <2>2 DEF Recorded
  <2>. QED BY <2>2, <2>3 DEF HasRecord
<1>. QED BY <1>3, <1>4

LEMMA AnsweredStep == Typed /\ Answered /\ [Next]_vars => Answered'
<1>. SUFFICES ASSUME Typed, Answered, [Next]_vars PROVE Answered'
  OBVIOUS
<1>0. asked' = asked => (HasRecord => HasRecord')
  BY RecordStays
<1>. USE DEF Answered
<1>1. CASE StartSession
  <2>1. pc' \in {"ready", "gone"}
    BY <1>1, WriteLeads, Zenon DEF StartSession
  <2>. QED BY <1>1, <1>0, <2>1 DEF StartSession, turn
<1>2. CASE Ask
  BY <1>2, <1>0 DEF Ask, ledgers
<1>3. CASE Plan
  <2>1. pc' \in {"dispatch", Escape}
    BY <1>3, WriteLeads, Zenon DEF Plan, Write
  <2>. QED BY <1>3, <1>0, <2>1 DEF Plan, Escape, turn
<1>4. CASE Dispatch
  <2>1. pc' \in {"execute", Escape}
    BY <1>4, WriteLeads, Zenon DEF Dispatch, Write
  <2>. QED BY <1>4, <1>0, <2>1 DEF Dispatch, Escape, turn
<1>5. CASE ExecuteReturns
  <2>1. PICK s \in {"completed", "failed"} : pc' = Onward(s)
    BY <1>5 DEF ExecuteReturns
  <2>2. kind \in {"classify", "synthesize", "consolidate"}
    BY DEF Typed, TypeOK
  <2>3. pc' \in {"context", "verify"} \/ (pc' \in {"overlay", "consolidate"} /\ kind = "consolidate")
    <3>1. CASE kind = "classify"
      BY <2>1, <3>1 DEF Onward
    <3>2. CASE kind = "synthesize"
      BY <2>1, <3>2 DEF Onward
    <3>3. CASE kind = "consolidate"
      BY <2>1, <3>3 DEF Onward
    <3>. QED BY <2>2, <3>1, <3>2, <3>3
  <2>4. asked' = asked /\ kind' = kind
    BY <1>5 DEF ExecuteReturns
  <2>. QED BY <1>0, <2>3, <2>4
<1>6. CASE ExecuteRaises
  BY <1>6, <1>0 DEF ExecuteRaises, Escape, turn
<1>7. CASE Context
  BY <1>7, <1>0 DEF Context, ledgers
<1>8. CASE Verify
  BY <1>8, <1>0 DEF Verify, AfterReject, ledgers
<1>9. CASE Escalate
  <2>1. pc' \in {"chain", Escape}
    BY <1>9, WriteLeads, Zenon DEF Escalate, Write
  <2>. QED BY <1>9, <1>0, <2>1 DEF Escalate, Escape, turn
<1>10. CASE ChainComplete
  <2>1. pc' \in {"gate", Escape}
    BY <1>10, WriteLeads, Zenon DEF ChainComplete, Write
  <2>. QED BY <1>10, <1>0, <2>1 DEF ChainComplete, Escape, turn
<1>11. CASE LogGate
  <2>1. pc' \in {"record", Escape}
    BY <1>11, WriteLeads, Zenon DEF LogGate, Write
  <2>. QED BY <1>11, <1>0, <2>1 DEF LogGate, Escape, turn
<1>12. CASE Record
  <2>1. AddTurn("signals", "except") /\ asked' = asked /\ kind' = kind
    BY <1>12 DEF Record, turn
  <2>. QED BY <1>0, <2>1, RecordedByAddTurn
<1>13. CASE Signals
  BY <1>13, <1>0 DEF Signals, ledgers
<1>14. CASE LogDegradation
  <2>1. pc' \in {"recordDegraded", "degrade"}
    BY <1>14, WriteLeads, Zenon DEF LogDegradation
  <2>. QED BY <1>14, <1>0, <2>1 DEF LogDegradation, Escape, turn
<1>15. CASE RecordDegraded
  <2>1. AddTurn("return", "degrade") /\ asked' = asked /\ kind' = kind
    BY <1>15 DEF RecordDegraded, turn
  <2>. QED BY <1>0, <2>1, RecordedByAddTurn
<1>16. CASE Consolidate
  BY <1>16, <1>0 DEF Consolidate, ledgers
<1>17. CASE Overlay
  BY <1>17, <1>0 DEF Overlay, turn, ledgers
<1>18. CASE Return
  BY <1>18, <1>0 DEF Return, turn, ledgers
<1>19. CASE Degrade
  BY <1>19, <1>0 DEF Degrade, turn, ledgers
<1>20. CASE EndSession
  <2>1. pc' = "gone"
    BY <1>20, WriteLeads DEF EndSession
  <2>. QED BY <1>20, <1>0, <2>1 DEF EndSession, turn
<1>21. CASE UNCHANGED vars
  BY <1>21, <1>0 DEF vars, turn, ledgers
<1>22. CASE Quit
  BY <1>22, <1>0 DEF Quit, turn
<1>. QED
  BY Cases, <1>1, <1>2, <1>3, <1>4, <1>5, <1>6, <1>7, <1>8, <1>9, <1>10, <1>11, <1>12, <1>13,
     <1>14, <1>15, <1>16, <1>17, <1>18, <1>19, <1>20, <1>21, <1>22

\* AnswerRecorded: a turn that HO2 answers is in HO2m before the user sees the
\* answer, through every path of handle_turn() and whatever writes raise.
THEOREM AnswersRecorded == Spec => []AnswerRecorded
<1>1. Init => Typed /\ Answered
  BY TypeInit, AnsweredInit
<1>2. Typed /\ Answered /\ [Next]_vars => (Typed /\ Answered)'
  BY TypeStep, AnsweredStep
<1>3. Answered => AnswerRecorded
  BY DEF Answered, AnswerRecorded, HasRecord
<1>. QED BY <1>1, <1>2, <1>3, PTL DEF Spec

\* Work orders that HO1m knows the end of; those of the turn at hand are
\* counted when the turn is recorded.
Done == {end[2] : end \in ho1m}
Uncounted ==
  kind # "consolidate" /\ pc \in {"plan", "dispatch", "execute", "context", "verify", "escalate",
                                  "chain", "gate", "record"}

Costed ==
  /\ pc \in {"context", "verify", "escalate", "chain", "gate", "record"} => kind # "consolidate"
  /\ chain \subseteq Done
  /\ total <= Cardinality(Done)
  /\ Uncounted => total <= Cardinality(Done \ chain)

LEMMA IdsFinite ==
  ASSUME NEW n \in Nat, NEW entries, entries \subseteq Ends \X (1..n)
  PROVE  LET ids == {end[2] : end \in entries}
         IN  ids \subseteq 1..n /\ IsFiniteSet(ids) /\ Cardinality(ids) \in Nat
<1> DEFINE ids == {end[2] : end \in entries}
<1>1. ids \subseteq 1..n
  <2>. SUFFICES ASSUME NEW end \in entries PROVE end[2] \in 1..n
    OBVIOUS
  <2>1. end \in Ends \X (1..n)
    OBVIOUS
  <2>. QED BY <2>1
<1>2. IsFiniteSet(1..n)
  BY FS_Interval
<1>. HIDE DEF ids
<1>3. IsFiniteSet(ids)
  BY <1>1, <1>2, FS_Subset
<1>4. Cardinality(ids) \in Nat
  BY <1>3, FS_CardinalityType
<1>. QED BY <1>1, <1>3, <1>4 DEF ids

LEMMA CostedInit == Init => Costed
<1>. SUFFICES ASSUME Init PROVE Costed
  OBVIOUS
<1>1. Done = {} /\ chain = {} /\ total = 0
  BY DEF Init, Done
<1>2. Cardinality({}) = 0
  BY FS_EmptySet
<1>3. Done \ chain = {}
  BY <1>1
<1>4. pc = "new"
  BY DEF Init
<1>. QED BY <1>1, <1>2, <1>3, <1>4 DEF Costed

\* Where a step leaves the accounts as they are, it is enough to know where it
\* leads.
LEMMA CostedKept ==
  ASSUME Costed, UNCHANGED <<chain, total, ho1m>>, Uncounted' => Uncounted,
         pc' \in {"context", "verify", "escalate", "chain", "gate", "record"} => kind' # "consolidate"
  PROVE  Costed'
BY DEF Costed, Done

\* What HO1m knows the end of, it does not forget.
LEMMA DoneGrows ==
  ASSUME Typed, [Next]_vars
  PROVE  /\ Done \subseteq Done'
         /\ IsFiniteSet(Done) /\ IsFiniteSet(Done')
         /\ Cardinality(Done) \in Nat /\ Cardinality(Done') \in Nat
         /\ Cardinality(Done) <= Cardinality(Done')
<1>1. Done \subseteq Done'
  BY Writers DEF Done
<1>3. IsFiniteSet(Done) /\ Cardinality(Done) \in Nat
  BY IdsFinite DEF Typed, TypeOK, Done
<1>4. IsFiniteSet(Done') /\ Cardinality(Done') \in Nat
  <2>1. seq' \in Nat /\ ho1m' \subseteq Ends \X (1..seq')
    BY TypeStep DEF Typed, TypeOK
  <2>. QED BY <2>1, IdsFinite DEF Done
<1>5. Cardinality(Done) <= Cardinality(Done')
  BY <1>1, <1>4, FS_Subset, Zenon
<1>. QED BY <1>1, <1>3, <1>4, <1>5

LEMMA CostedStep == Typed /\ Traced /\ Costed /\ [Next]_vars => Costed'
<1>. SUFFICES ASSUME Typed, Traced, Costed, [Next]_vars PROVE Costed'
  OBVIOUS
<1>0. /\ total \in Nat
      /\ IsFiniteSet(Done) /\ Cardinality(Done) \in Nat
      /\ IsFiniteSet(chain) /\ Cardinality(chain) \in Nat
      /\ kind \in {"classify", "synthesize", "consolidate"}
  <2>1. IsFiniteSet(Done) /\ Cardinality(Done) \in Nat
    BY IdsFinite DEF Typed, TypeOK, Done
  <2>. QED BY <2>1, ChainFinite DEF Typed, TypeOK
<1>1. CASE StartSession
  <2>1. pc' \in {"ready", "gone"}
    BY <1>1, WriteLeads, Zenon DEF StartSession, Write
  <2>2. UNCHANGED <<chain, total, ho1m, kind>>
    BY <1>1 DEF StartSession, turn, manager
  <2>3. Uncounted' => Uncounted
    BY <1>1, <2>1, <2>2, EscapeFacts DEF StartSession, Uncounted
  <2>4. pc' \in {"context", "verify", "escalate", "chain", "gate", "record"} => kind' # "consolidate"
    BY <1>1, <2>1, <2>2, EscapeFacts DEF StartSession, Costed
  <2>. QED BY <2>2, <2>3, <2>4, CostedKept
<1>2. CASE Ask
  <2>1. chain' = {} /\ total' = total /\ Done' = Done /\ pc' = "plan"
    BY <1>2 DEF Ask, manager, ledgers, Done
  <2>2. Done' \ chain' = Done
    BY <2>1
  <2>. QED BY <2>1, <2>2 DEF Costed
<1>3. CASE Plan
  <2>1. pc' \in {"dispatch", Escape}
    BY <1>3, WriteLeads, Zenon DEF Plan, Write
  <2>2. UNCHANGED <<chain, total, ho1m, kind>>
    BY <1>3 DEF Plan, turn, manager
  <2>3. Uncounted' => Uncounted
    BY <1>3, <2>1, <2>2, EscapeFacts DEF Plan, Uncounted
  <2>4. pc' \in {"context", "verify", "escalate", "chain", "gate", "record"} => kind' # "consolidate"
    BY <1>3, <2>1, <2>2, EscapeFacts DEF Plan, Costed
  <2>. QED BY <2>2, <2>3, <2>4, CostedKept
<1>4. CASE Dispatch
  <2>1. pc' \in {"execute", Escape}
    BY <1>4, WriteLeads, Zenon DEF Dispatch, Write
  <2>2. UNCHANGED <<chain, total, ho1m, kind>>
    BY <1>4 DEF Dispatch, turn, manager
  <2>3. Uncounted' => Uncounted
    BY <1>4, <2>1, <2>2, EscapeFacts DEF Dispatch, Uncounted
  <2>4. pc' \in {"context", "verify", "escalate", "chain", "gate", "record"} => kind' # "consolidate"
    BY <1>4, <2>1, <2>2, EscapeFacts DEF Dispatch, Costed
  <2>. QED BY <2>2, <2>3, <2>4, CostedKept
<1>5. CASE ExecuteReturns
  <2>0. total' = total /\ kind' = kind /\ pc = "execute"
    BY <1>5 DEF ExecuteReturns, manager
  <2>1. /\ Done \subseteq Done' /\ Cardinality(Done) <= Cardinality(Done')
        /\ IsFiniteSet(Done') /\ Cardinality(Done') \in Nat
    BY DoneGrows
  <2>s. seq \notin Done
    BY <2>0 DEF Traced, Done, Finished
  <2>2. total' <= Cardinality(Done')
    BY <1>0, <2>0, <2>1 DEF Costed
  <2>3. seq \in Done'
    <3>1. PICK s \in {"completed", "failed"} : <<End(s), wo>> \in ho1m'
      BY <1>5 DEF ExecuteReturns, End, Ends
    <3>. QED BY <3>1 DEF Done, wo
  <2>4. chain' = IF kind = "consolidate" THEN chain ELSE chain \union {seq}
    BY <1>5 DEF ExecuteReturns, wo
  <2>5. chain' \subseteq Done'
    BY <2>1, <2>3, <2>4 DEF Costed
  <2>6. pc' \in {"context", "verify", "escalate", "chain", "gate", "record"} => kind' # "consolidate"
    BY <1>5, <2>0 DEF ExecuteReturns, Onward
  <2>7. ASSUME Uncounted' PROVE total' <= Cardinality(Done' \ chain')
    <3>1. Uncounted
      BY <2>0, <2>7 DEF Uncounted
    <3>2. Done \ chain \subseteq Done' \ chain'
      BY <2>1, <2>s, <2>4
    <3>3. IsFiniteSet(Done' \ chain') /\ IsFiniteSet(Done \ chain)
      BY <1>0, <2>1, FS_Subset
    <3>4. /\ Cardinality(Done \ chain) <= Cardinality(Done' \ chain')
          /\ Cardinality(Done \ chain) \in Nat /\ Cardinality(Done' \ chain') \in Nat
      BY <3>2, <3>3, FS_Subset, FS_CardinalityType
    <3>. QED BY <1>0, <2>0, <3>1, <3>4 DEF Costed
  <2>. QED BY <2>2, <2>5, <2>6, <2>7 DEF Costed
<1>6. CASE ExecuteRaises
  <2>0. /\ total' = total /\ chain' = chain /\ pc = "execute"
        /\ pc' \in {"return", "except"}
    BY <1>6, EscapeFacts DEF ExecuteRaises, manager, turn
  <2>1. /\ Done \subseteq Done' /\ Cardinality(Done) <= Cardinality(Done')
        /\ Cardinality(Done') \in Nat
    BY DoneGrows
  <2>2. total' <= Cardinality(Done')
    BY <1>0, <2>0, <2>1 DEF Costed
  <2>3. ~Uncounted'
    BY <2>0 DEF Uncounted
  <2>. QED BY <2>0, <2>1, <2>2, <2>3 DEF Costed
<1>7. CASE Context
  <2>1. UNCHANGED <<chain, total, ho1m>>
    BY <1>7 DEF Context, manager, ledgers
  <2>2. Uncounted' => Uncounted
    BY <1>7, <1>0 DEF Context, Uncounted, Costed, turn
  <2>3. pc' \in {"context", "verify", "escalate", "chain", "gate", "record"} => kind' # "consolidate"
    BY <1>7 DEF Context, Costed, turn
  <2>. QED BY <2>1, <2>2, <2>3, CostedKept
<1>8. CASE Verify
  <2>1. UNCHANGED <<chain, total, ho1m>>
    BY <1>8 DEF Verify, manager, ledgers
  <2>2. Uncounted' => Uncounted
    BY <1>8, <1>0 DEF Verify, AfterReject, Uncounted, Costed, turn
  <2>3. pc' \in {"context", "verify", "escalate", "chain", "gate", "record"} => kind' # "consolidate"
    BY <1>8 DEF Verify, AfterReject, Costed, turn
  <2>. QED BY <2>1, <2>2, <2>3, CostedKept
<1>9. CASE Escalate
  <2>1. pc' \in {"chain", Escape}
    BY <1>9, WriteLeads, Zenon DEF Escalate, Write
  <2>2. UNCHANGED <<chain, total, ho1m, kind>>
    BY <1>9 DEF Escalate, turn, manager
  <2>3. Uncounted' => Uncounted
    BY <1>9, <2>1, <2>2, EscapeFacts DEF Escalate, Uncounted
  <2>4. pc' \in {"context", "verify", "escalate", "chain", "gate", "record"} => kind' # "consolidate"
    BY <1>9, <2>1, <2>2, EscapeFacts DEF Escalate, Costed
  <2>. QED BY <2>2, <2>3, <2>4, CostedKept
<1>10. CASE ChainComplete
  <2>1. pc' \in {"gate", Escape}
    BY <1>10, WriteLeads, Zenon DEF ChainComplete, Write
  <2>2. UNCHANGED <<chain, total, ho1m, kind>>
    BY <1>10 DEF ChainComplete, turn, manager
  <2>3. Uncounted' => Uncounted
    BY <1>10, <2>1, <2>2, EscapeFacts DEF ChainComplete, Uncounted
  <2>4. pc' \in {"context", "verify", "escalate", "chain", "gate", "record"} => kind' # "consolidate"
    BY <1>10, <2>1, <2>2, EscapeFacts DEF ChainComplete, Costed
  <2>. QED BY <2>2, <2>3, <2>4, CostedKept
<1>11. CASE LogGate
  <2>1. pc' \in {"record", Escape}
    BY <1>11, WriteLeads, Zenon DEF LogGate, Write
  <2>2. UNCHANGED <<chain, total, ho1m, kind>>
    BY <1>11 DEF LogGate, turn, manager
  <2>3. Uncounted' => Uncounted
    BY <1>11, <2>1, <2>2, EscapeFacts DEF LogGate, Uncounted
  <2>4. pc' \in {"context", "verify", "escalate", "chain", "gate", "record"} => kind' # "consolidate"
    BY <1>11, <2>1, <2>2, EscapeFacts DEF LogGate, Costed
  <2>. QED BY <2>2, <2>3, <2>4, CostedKept
<1>12. CASE Record
  <2>1. AddTurn("signals", "except")
    BY <1>12 DEF Record
  <2>2. pc' \in {"signals", "except"}
    BY <2>1, WriteLeads, Zenon DEF AddTurn
  <2>3. /\ total' = total + Cardinality(chain) /\ chain' = chain
        /\ Done' = Done /\ pc = "record"
    BY <1>12 DEF Record, turn, Done
  <2>4. total <= Cardinality(Done \ chain)
    BY <2>3 DEF Costed, Uncounted
  <2>5. Cardinality(Done \ chain) = Cardinality(Done) - Cardinality(chain)
    <3>1. Done \intersect chain = chain
      BY DEF Costed
    <3>. QED BY <1>0, <3>1, FS_Difference
  <2>6. total' <= Cardinality(Done')
    BY <1>0, <2>3, <2>4, <2>5
  <2>7. ~Uncounted'
    BY <2>2 DEF Uncounted
  <2>. QED BY <2>2, <2>3, <2>6, <2>7 DEF Costed
<1>13. CASE Signals
  <2>1. UNCHANGED <<chain, total, ho1m>>
    BY <1>13 DEF Signals, manager, ledgers
  <2>2. Uncounted' => Uncounted
    BY <1>13, <1>0 DEF Signals, Uncounted, Costed, turn
  <2>3. pc' \in {"context", "verify", "escalate", "chain", "gate", "record"} => kind' # "consolidate"
    BY <1>13 DEF Signals, Costed, turn
  <2>. QED BY <2>1, <2>2, <2>3, CostedKept
<1>14. CASE LogDegradation
  <2>1. pc' \in {"recordDegraded", "degrade"}
    BY <1>14, WriteLeads, Zenon DEF LogDegradation, Write
  <2>2. UNCHANGED <<chain, total, ho1m, kind>>
    BY <1>14 DEF LogDegradation, turn, manager
  <2>3. Uncounted' => Uncounted
    BY <1>14, <2>1, <2>2, EscapeFacts DEF LogDegradation, Uncounted
  <2>4. pc' \in {"context", "verify", "escalate", "chain", "gate", "record"} => kind' # "consolidate"
    BY <1>14, <2>1, <2>2, EscapeFacts DEF LogDegradation, Costed
  <2>. QED BY <2>2, <2>3, <2>4, CostedKept
<1>15. CASE RecordDegraded
  <2>1. pc' \in {"return", "degrade"}
    BY <1>15, WriteLeads, Zenon DEF RecordDegraded, AddTurn
  <2>. QED BY <1>15, <2>1, CostedKept DEF RecordDegraded, turn, Uncounted
<1>16. CASE Consolidate
  <2>1. UNCHANGED <<chain, total, ho1m>>
    BY <1>16 DEF Consolidate, manager, ledgers
  <2>2. Uncounted' => Uncounted
    BY <1>16, <1>0 DEF Consolidate, Uncounted, Costed, turn
  <2>3. pc' \in {"context", "verify", "escalate", "chain", "gate", "record"} => kind' # "consolidate"
    BY <1>16 DEF Consolidate, Costed, turn
  <2>. QED BY <2>1, <2>2, <2>3, CostedKept
<1>17. CASE Overlay
  <2>1. UNCHANGED <<chain, total, ho1m>>
    BY <1>17 DEF Overlay, manager, turn, ledgers
  <2>2. Uncounted' => Uncounted
    BY <1>17, <1>0 DEF Overlay, Uncounted, Costed, turn
  <2>3. pc' \in {"context", "verify", "escalate", "chain", "gate", "record"} => kind' # "consolidate"
    BY <1>17 DEF Overlay, Costed, turn
  <2>. QED BY <2>1, <2>2, <2>3, CostedKept
<1>18. CASE Return
  <2>1. UNCHANGED <<chain, total, ho1m>>
    BY <1>18 DEF Return, manager, turn, ledgers
  <2>2. Uncounted' => Uncounted
    BY <1>18, <1>0 DEF Return, Uncounted, Costed, turn
  <2>3. pc' \in {"context", "verify", "escalate", "chain", "gate", "record"} => kind' # "consolidate"
    BY <1>18 DEF Return, Costed, turn
  <2>. QED BY <2>1, <2>2, <2>3, CostedKept
<1>19. CASE Degrade
  <2>1. UNCHANGED <<chain, total, ho1m>>
    BY <1>19 DEF Degrade, manager, turn, ledgers
  <2>2. Uncounted' => Uncounted
    BY <1>19, <1>0 DEF Degrade, Uncounted, Costed, turn
  <2>3. pc' \in {"context", "verify", "escalate", "chain", "gate", "record"} => kind' # "consolidate"
    BY <1>19 DEF Degrade, Costed, turn
  <2>. QED BY <2>1, <2>2, <2>3, CostedKept
<1>20. CASE EndSession
  <2>1. pc' \in {"gone"}
    BY <1>20, WriteLeads, Zenon DEF EndSession, Write
  <2>2. UNCHANGED <<chain, total, ho1m, kind>>
    BY <1>20 DEF EndSession, turn, manager
  <2>3. Uncounted' => Uncounted
    BY <1>20, <2>1, <2>2, EscapeFacts DEF EndSession, Uncounted
  <2>4. pc' \in {"context", "verify", "escalate", "chain", "gate", "record"} => kind' # "consolidate"
    BY <1>20, <2>1, <2>2, EscapeFacts DEF EndSession, Costed
  <2>. QED BY <2>2, <2>3, <2>4, CostedKept
<1>21. CASE UNCHANGED vars
  BY <1>21, CostedKept DEF vars, manager, turn, ledgers, Uncounted, Costed
<1>22. CASE Quit
  <2>0. total' = total /\ chain' = chain /\ pc' = "over"
    BY <1>22 DEF Quit, manager, turn
  <2>1. /\ Done \subseteq Done' /\ Cardinality(Done) <= Cardinality(Done')
        /\ Cardinality(Done') \in Nat
    BY DoneGrows
  <2>2. total' <= Cardinality(Done')
    BY <1>0, <2>0, <2>1 DEF Costed
  <2>3. ~Uncounted'
    BY <2>0 DEF Uncounted
  <2>. QED BY <2>0, <2>1, <2>2, <2>3 DEF Costed
<1>. QED
  BY Cases, <1>1, <1>2, <1>3, <1>4, <1>5, <1>6, <1>7, <1>8, <1>9, <1>10, <1>11, <1>12, <1>13,
     <1>14, <1>15, <1>16, <1>17, <1>18, <1>19, <1>20, <1>21, <1>22

\* SummaryHolds: a summary in HO2m counts every turn, misses none there and counts
\* no work order twice, whatever writes raise and whatever they keep.
THEOREM SummariesHold == Spec => []SummaryHolds
<1>1. Init => Typed /\ Traced /\ InOrder /\ Costed
  BY TypeInit, TracedInit, InOrderInit, CostedInit
<1>2. Typed /\ Traced /\ InOrder /\ Costed /\ [Next]_vars => (Typed /\ Traced /\ InOrder /\ Costed)'
  BY TypeStep, TracedStep, InOrderStep, CostedStep
<1>3. Typed /\ InOrder /\ Costed => SummaryHolds
  <2>. SUFFICES ASSUME Typed, InOrder, Costed, NEW e \in ho2m, e[1] = "SESSION_END"
                PROVE  /\ e[2] = Len(history) /\ Recorded = 1..e[2]
                       /\ total <= Cardinality({end[2] : end \in ho1m})
    BY DEF SummaryHolds
  <2>1. e \in Events \X Nat
    BY TypedFacts DEF Typed, Lines
  <2>2. e[2] \in Sums(ho2m)
    <3>1. e = <<"SESSION_END", e[2]>> /\ e[2] \in Nat
      BY <2>1
    <3>. QED BY <3>1 DEF Sums
  <2>3. e[2] = Len(history) /\ Recorded = 1..Len(history)
    BY <2>2, RecordFacts
  <2>. QED BY <2>3 DEF Costed, Done
<1>. QED BY <1>1, <1>2, <1>3, PTL DEF Spec

-----------------------------------------------------------------------------
(* A turn comes to its end.                                                 *)

\* The most steps the turn in progress still takes: the work order at hand, the
\* retries it has left and the candidates to be consolidated after it.
ToConsolidate(c) == 6 * c + 2
ToReturn == 6 * MaxCandidates + 4
ToVerify == ToReturn + 5 + 4 * (MaxRetries - retries)

\* What follows the work order at hand when it has come back.
AfterOrder ==
  CASE kind = "classify" -> ToVerify + 4
    [] kind = "synthesize" -> ToVerify
    [] kind = "consolidate" -> ToConsolidate(candidates) + 1

Left ==
  CASE pc \in {"new", "ready", "gone", "over"} -> 0
    [] pc \in {"degrade", "return"} -> 1
    [] pc = "recordDegraded" -> 2
    [] pc = "except" -> 3
    [] pc = "consolidate" -> ToConsolidate(candidates)
    [] pc = "overlay" -> ToConsolidate(candidates) + 1
    [] pc = "signals" -> ToReturn
    [] pc = "record" -> ToReturn + 1
    [] pc = "gate" -> ToReturn + 2
    [] pc = "chain" -> ToReturn + 3
    [] pc = "escalate" -> ToReturn + 4
    [] pc = "verify" -> ToVerify
    [] pc = "context" -> ToVerify + 4
    [] pc = "execute" -> AfterOrder + 1
    [] pc = "dispatch" -> AfterOrder + 2
    [] pc = "plan" -> AfterOrder + 3

InTurn == pc \notin {"new", "ready", "gone", "over"}

\* The quality gate looks at a synthesis only.
Judged == pc = "verify" => kind = "synthesize"

LeftBounded == Left \in 0..(6 * MaxCandidates + 4 * MaxRetries + 16)
RunsDown == [][InTurn => Left' < Left]_vars

LEMMA Amounts ==
  ASSUME Typed
  PROVE  /\ ToReturn \in Nat /\ ToReturn = 6 * MaxCandidates + 4
         /\ ToConsolidate(candidates) \in Nat /\ ToConsolidate(candidates) >= 2
         /\ ToConsolidate(candidates) + 1 < ToReturn
         /\ ToVerify \in Nat /\ ToVerify >= ToReturn + 5
         /\ ToVerify <= 6 * MaxCandidates + 4 * MaxRetries + 9
         /\ AfterOrder \in Nat
         /\ AfterOrder <= 6 * MaxCandidates + 4 * MaxRetries + 13
         /\ AfterOrder >= 3
<1>1. /\ MaxCandidates \in Nat /\ MaxRetries \in Nat /\ candidates \in 0..MaxCandidates
      /\ retries \in 0..MaxRetries /\ kind \in {"classify", "synthesize", "consolidate"}
  BY SupervisorAssumption DEF Typed, TypeOK
<1>2. /\ ToReturn \in Nat /\ ToReturn = 6 * MaxCandidates + 4
      /\ ToConsolidate(candidates) \in Nat /\ ToConsolidate(candidates) >= 2
      /\ ToConsolidate(candidates) + 1 < ToReturn
  BY <1>1 DEF ToReturn, ToConsolidate
<1>3. /\ ToVerify \in Nat /\ ToVerify >= ToReturn + 5
      /\ ToVerify <= 6 * MaxCandidates + 4 * MaxRetries + 9
  BY <1>1, <1>2 DEF ToVerify
<1>4. AfterOrder \in {ToVerify + 4, ToVerify, ToConsolidate(candidates) + 1}
  BY <1>1 DEF AfterOrder
<1>. QED BY <1>1, <1>2, <1>3, <1>4

LEMMA LeftInRange == Typed => LeftBounded
<1> SUFFICES ASSUME Typed PROVE LeftBounded
  OBVIOUS
<1> DEFINE c == ToConsolidate(candidates)
<1>1. Left \in {0, 1, 2, 3, c, c + 1, ToReturn, ToReturn + 1, ToReturn + 2, ToReturn + 3, ToReturn + 4,
                ToVerify, ToVerify + 4, AfterOrder + 1, AfterOrder + 2, AfterOrder + 3}
  BY DEF Left, Typed, TypeOK
<1>2. MaxCandidates \in Nat /\ MaxRetries \in Nat
  BY SupervisorAssumption
<1>3. /\ c \in Nat /\ c + 1 < ToReturn
  BY Amounts
<1> HIDE DEF c
<1>. QED BY <1>1, <1>2, <1>3, Amounts DEF LeftBounded

LEMMA Ending ==
  ASSUME Typed, pc' \in {"return", "except", "degrade"}, InTurn,
         pc \notin {"degrade", "return", "recordDegraded", "except"},
         pc' = "except" => pc \notin {"consolidate", "overlay"} /\ kind # "consolidate"
  PROVE  Left' < Left
<1> DEFINE c == ToConsolidate(candidates)
<1>1. Left' \in {1, 3} /\ (Left' = 3 => pc' = "except")
  BY DEF Left
<1>2. \/ Left \in {ToReturn, ToReturn + 1, ToReturn + 2, ToReturn + 3, ToReturn + 4, ToVerify, ToVerify + 4}
      \/ Left \in {AfterOrder + 1, AfterOrder + 2, AfterOrder + 3}
      \/ pc \in {"consolidate", "overlay"} /\ Left \in {c, c + 1}
  BY DEF Left, Typed, TypeOK, InTurn
<1>3. c \in Nat /\ c >= 2
  BY Amounts
<1> HIDE DEF c
<1>. QED BY <1>1, <1>2, <1>3, Amounts

\* A step along the turn that keeps what is left to do after it.
LEMMA Along ==
  ASSUME Typed, Typed', UNCHANGED <<kind, candidates, retries>>,
         \/ pc = "plan" /\ pc' = "dispatch"
         \/ pc = "dispatch" /\ pc' = "execute"
         \/ pc = "escalate" /\ pc' = "chain"
         \/ pc = "chain" /\ pc' = "gate"
         \/ pc = "gate" /\ pc' = "record"
         \/ pc = "record" /\ pc' = "signals"
         \/ pc = "verify" /\ pc' \in {"chain", "escalate"}
         \/ pc = "execute" /\ kind = "classify" /\ pc' = "context"
         \/ pc = "execute" /\ kind = "synthesize" /\ pc' = "verify"
         \/ pc = "execute" /\ kind = "consolidate" /\ pc' \in {"overlay", "consolidate"}
         \/ pc = "overlay" /\ pc' = "consolidate"
  PROVE  Left' < Left
<1> DEFINE c == ToConsolidate(candidates)
<1>1. /\ ToReturn \in Nat /\ ToVerify \in Nat /\ AfterOrder \in Nat /\ c \in Nat
      /\ ToVerify >= ToReturn + 5
  BY Amounts
<1>2. ToReturn' = ToReturn /\ ToVerify' = ToVerify /\ AfterOrder' = AfterOrder
      /\ ToConsolidate(candidates') = c
  BY DEF ToReturn, ToVerify, AfterOrder, ToConsolidate
<1>3. /\ kind = "classify" => AfterOrder = ToVerify + 4
      /\ kind = "synthesize" => AfterOrder = ToVerify
      /\ kind = "consolidate" => AfterOrder = c + 1
  BY DEF AfterOrder
<1>4. /\ pc' = "dispatch" => Left' = AfterOrder + 2
      /\ pc' = "execute" => Left' = AfterOrder + 1
      /\ pc' = "chain" => Left' = ToReturn + 3
      /\ pc' = "gate" => Left' = ToReturn + 2
      /\ pc' = "record" => Left' = ToReturn + 1
      /\ pc' = "signals" => Left' = ToReturn
      /\ pc' = "escalate" => Left' = ToReturn + 4
      /\ pc' = "context" => Left' = ToVerify + 4
      /\ pc' = "verify" => Left' = ToVerify
      /\ pc' = "overlay" => Left' = c + 1
      /\ pc' = "consolidate" => Left' = c
  BY <1>2 DEF Left
<1>5. /\ pc = "plan" => Left = AfterOrder + 3
      /\ pc = "dispatch" => Left = AfterOrder + 2
      /\ pc = "execute" => Left = AfterOrder + 1
      /\ pc = "chain" => Left = ToReturn + 3
      /\ pc = "gate" => Left = ToReturn + 2
      /\ pc = "record" => Left = ToReturn + 1
      /\ pc = "escalate" => Left = ToReturn + 4
      /\ pc = "verify" => Left = ToVerify
      /\ pc = "overlay" => Left = c + 1
  BY DEF Left
<1> HIDE DEF c
<1>. QED BY <1>1, <1>3, <1>4, <1>5

\* The next order of the turn: the synthesis, its retry, or a consolidation.
LEMMA Afresh ==
  ASSUME Typed, Typed', pc' = "plan",
         \/ pc = "context" /\ kind' = "synthesize" /\ UNCHANGED <<retries, candidates>>
         \/ /\ pc = "verify" /\ kind = "synthesize" /\ retries' = retries + 1
            /\ UNCHANGED <<kind, candidates>>
         \/ /\ pc = "consolidate" /\ kind' = "consolidate" /\ candidates' = candidates - 1
            /\ retries' = retries
  PROVE  Left' < Left
<1>0. ToReturn \in Nat
  BY Amounts
<1>1. /\ MaxRetries \in Nat /\ retries \in Nat /\ candidates \in Nat /\ candidates' \in Nat
      /\ ToReturn \in Nat
  BY <1>0, SupervisorAssumption DEF Typed, TypeOK
<1>2. Left' = AfterOrder' + 3
  BY DEF Left
<1>3. CASE pc = "context" /\ kind' = "synthesize" /\ UNCHANGED <<retries, candidates>>
  <2>1. AfterOrder' = ToVerify /\ Left = ToVerify + 4 /\ ToVerify \in Nat
    BY <1>3, Amounts DEF AfterOrder, ToVerify, ToReturn, Left
  <2>. QED BY <1>2, <2>1
<1>4. CASE /\ pc = "verify" /\ kind = "synthesize" /\ retries' = retries + 1
           /\ UNCHANGED <<kind, candidates>>
  <2>1. AfterOrder' = ToReturn + 5 + 4 * (MaxRetries - (retries + 1))
    BY <1>4 DEF AfterOrder, ToVerify, ToReturn
  <2>2. Left = ToReturn + 5 + 4 * (MaxRetries - retries)
    BY <1>4 DEF Left, ToVerify
  <2>. QED BY <1>1, <1>2, <2>1, <2>2
<1>5. CASE /\ pc = "consolidate" /\ kind' = "consolidate" /\ candidates' = candidates - 1
           /\ retries' = retries
  <2>1. AfterOrder' = 6 * (candidates - 1) + 3
    BY <1>1, <1>5 DEF AfterOrder, ToConsolidate
  <2>2. Left = 6 * candidates + 2
    BY <1>5 DEF Left, ToConsolidate
  <2>. QED BY <1>1, <1>2, <2>1, <2>2
<1>. QED BY <1>3, <1>4, <1>5

LEMMA WorkRunsDown ==
  ASSUME Typed, Typed', Judged, Work
  PROVE  Left' < Left /\ Judged'
<1>0. pc \in {"execute", "verify", "plan", "dispatch", "escalate", "chain", "gate"} /\ pc' = Escape
        => pc' \in {"return", "except"} /\ (pc' = "except" => kind # "consolidate")
  BY DEF Escape
<1>1. CASE Plan
  <2>1. pc = "plan" /\ pc' \in {"dispatch", Escape} /\ UNCHANGED <<kind, candidates, retries>>
    <3>1. pc' \in {"dispatch", Escape}
      BY <1>1, WriteLeads, Zenon DEF Plan, Write
    <3>. QED BY <1>1, <3>1 DEF Plan, turn
  <2>. QED BY <1>0, <2>1, Along, Ending DEF InTurn, Judged, Escape
<1>2. CASE Dispatch
  <2>1. pc = "dispatch" /\ pc' \in {"execute", Escape} /\ UNCHANGED <<kind, candidates, retries>>
    <3>1. pc' \in {"execute", Escape}
      BY <1>2, WriteLeads, Zenon DEF Dispatch, Write
    <3>. QED BY <1>2, <3>1 DEF Dispatch, turn
  <2>. QED BY <1>0, <2>1, Along, Ending DEF InTurn, Judged, Escape
<1>3. CASE ExecuteReturns
  <2>1. /\ pc = "execute" /\ UNCHANGED <<kind, candidates, retries>>
        /\ \E s \in {"completed", "failed"} : pc' = Onward(s)
    BY <1>3 DEF ExecuteReturns
  <2>2. /\ kind = "consolidate" => pc' \in {"overlay", "consolidate"}
        /\ kind = "classify" => pc' = "context"
        /\ kind = "synthesize" => pc' = "verify"
        /\ kind \in {"classify", "synthesize", "consolidate"}
    BY <2>1 DEF Onward, Typed, TypeOK
  <2>3. Judged'
    BY <2>1, <2>2 DEF Judged
  <2>. QED BY <2>1, <2>2, <2>3, Along
<1>4. CASE ExecuteRaises
  <2>1. pc = "execute" /\ pc' = Escape
    BY <1>4 DEF ExecuteRaises
  <2>. QED BY <1>0, <2>1, Ending DEF InTurn, Judged
<1>5. CASE Context
  <2>1. /\ pc = "context" /\ kind' = "synthesize" /\ UNCHANGED <<retries, candidates>>
        /\ pc' \in {"plan", "except"}
    BY <1>5 DEF Context
  <2>2. CASE pc' = "plan"
    BY <2>1, <2>2, Afresh DEF Judged
  <2>3. CASE pc' = "except"
    <3>1. Left' = 3 /\ Left = ToVerify + 4
      BY <2>1, <2>3 DEF Left
    <3>. QED BY <2>3, <3>1, Amounts DEF Judged
  <2>. QED BY <2>1, <2>2, <2>3
<1>6. CASE Verify
  <2>1. pc = "verify" /\ kind = "synthesize" /\ UNCHANGED <<kind, candidates>>
    BY <1>6 DEF Verify, Judged
  <2>2. \/ pc' \in {"chain", "escalate"} /\ retries' = retries
        \/ pc' = "except"
        \/ pc' = "plan" /\ retries' = retries + 1
    BY <1>6 DEF Verify, AfterReject, MayRetry, Verdicts
  <2>3. Judged'
    BY <2>1, <2>2 DEF Judged
  <2>. QED BY <2>1, <2>2, <2>3, Along, Ending, Afresh DEF InTurn
<1>7. CASE Escalate
  <2>1. pc = "escalate" /\ pc' \in {"chain", Escape} /\ UNCHANGED <<kind, candidates, retries>>
    <3>1. pc' \in {"chain", Escape}
      BY <1>7, WriteLeads, Zenon DEF Escalate, Write
    <3>. QED BY <1>7, <3>1 DEF Escalate, turn
  <2>. QED BY <1>0, <2>1, Along, Ending DEF InTurn, Judged, Escape
<1>8. CASE ChainComplete
  <2>1. pc = "chain" /\ pc' \in {"gate", Escape} /\ UNCHANGED <<kind, candidates, retries>>
    <3>1. pc' \in {"gate", Escape}
      BY <1>8, WriteLeads, Zenon DEF ChainComplete, Write
    <3>. QED BY <1>8, <3>1 DEF ChainComplete, turn
  <2>. QED BY <1>0, <2>1, Along, Ending DEF InTurn, Judged, Escape
<1>9. CASE LogGate
  <2>1. pc = "gate" /\ pc' \in {"record", Escape} /\ UNCHANGED <<kind, candidates, retries>>
    <3>1. pc' \in {"record", Escape}
      BY <1>9, WriteLeads, Zenon DEF LogGate, Write
    <3>. QED BY <1>9, <3>1 DEF LogGate, turn
  <2>. QED BY <1>0, <2>1, Along, Ending DEF InTurn, Judged, Escape
<1>10. CASE Record
  <2>1. pc = "record" /\ pc' \in {"signals", "except"} /\ UNCHANGED <<kind, candidates, retries>>
    <3>1. pc' \in {"signals", "except"}
      BY <1>10, WriteLeads, Zenon DEF Record, AddTurn
    <3>. QED BY <1>10, <3>1 DEF Record, turn
  <2>2. Left = ToReturn + 1 /\ (pc' = "except" => Left' = 3)
    BY <2>1 DEF Left
  <2>. QED BY <2>1, <2>2, Along, Amounts DEF Judged
<1>11. CASE Signals
  <2>1. /\ pc = "signals" /\ pc' \in {"consolidate", "except"}
        /\ candidates' \in 0..MaxCandidates /\ MaxCandidates \in Nat
    BY <1>11, SupervisorAssumption DEF Signals, Typed, TypeOK
  <2>2. /\ Left = 6 * MaxCandidates + 4
        /\ pc' = "except" => Left' = 3
        /\ pc' = "consolidate" => Left' = 6 * candidates' + 2
    BY <2>1 DEF Left, ToReturn, ToConsolidate
  <2>. QED BY <2>1, <2>2 DEF Judged
<1>12. CASE LogDegradation
  <2>1. pc = "except" /\ pc' \in {"recordDegraded", "degrade"}
    BY <1>12, WriteLeads, Zenon DEF LogDegradation
  <2>. QED BY <2>1 DEF Left, Judged
<1>13. CASE RecordDegraded
  <2>1. pc = "recordDegraded" /\ pc' \in {"return", "degrade"}
    BY <1>13, WriteLeads, Zenon DEF RecordDegraded, AddTurn
  <2>. QED BY <2>1 DEF Left, Judged
<1>14. CASE Consolidate
  <2>1. pc = "consolidate" /\ retries' = retries /\ candidates \in Nat /\ candidates' \in Nat
    BY <1>14 DEF Consolidate, Typed, TypeOK
  <2>2. \/ pc' = "return"
        \/ kind' = "consolidate" /\ candidates' = candidates - 1 /\ pc' \in {"consolidate", "plan"}
    BY <1>14 DEF Consolidate
  <2>3. Judged'
    BY <2>2 DEF Judged
  <2>4. CASE pc' = "return"
    BY <2>1, <2>3, <2>4 DEF Left, ToConsolidate
  <2>5. CASE pc' = "consolidate" /\ candidates' = candidates - 1
    BY <2>1, <2>3, <2>5 DEF Left, ToConsolidate
  <2>6. CASE pc' = "plan"
    BY <2>1, <2>2, <2>3, <2>6, Afresh
  <2>. QED BY <2>2, <2>4, <2>5, <2>6
<1>15. CASE Overlay
  <2>1. /\ pc = "overlay" /\ pc' \in {"consolidate", "return"}
        /\ UNCHANGED <<kind, candidates, retries>>
    BY <1>15 DEF Overlay, turn
  <2>. QED BY <2>1, Along, Ending DEF Judged, InTurn
<1>16. CASE Return
  <2>1. pc = "return" /\ pc' = "ready"
    BY <1>16 DEF Return
  <2>. QED BY <2>1 DEF Left, Judged
<1>17. CASE Degrade
  <2>1. pc = "degrade" /\ pc' = "ready"
    BY <1>17 DEF Degrade
  <2>. QED BY <2>1 DEF Left, Judged
<1>. QED
  BY <1>1, <1>2, <1>3, <1>4, <1>5, <1>6, <1>7, <1>8, <1>9, <1>10, <1>11, <1>12, <1>13, <1>14,
     <1>15, <1>16, <1>17 DEF Work

\* Every step of a turn brings its end nearer, and a turn takes no more than that
\* many steps, for every number of retries and candidates: handle_turn() and the
\* consolidation after it cannot run for ever, whatever HO1 answers.
THEOREM TurnsRunDown == Spec => []LeftBounded /\ RunsDown
<1>1. Init => Judged
  BY DEF Init, Judged
<1>2. ASSUME Typed, Typed', Judged, [Next]_vars
      PROVE  Judged' /\ (InTurn /\ vars' # vars => Left' < Left)
  <2>1. CASE Work
    BY <1>2, <2>1, WorkRunsDown
  <2>2. CASE StartSession
    <3>1. pc = "new" /\ pc' \in {"ready", "gone"}
      BY <2>2, WriteLeads, Zenon DEF StartSession
    <3>. QED BY <3>1 DEF Judged, InTurn
  <2>3. CASE Ask
    BY <1>2, <2>3 DEF Ask, Judged, InTurn
  <2>4. CASE EndSession
    <3>1. pc = "ready" /\ pc' = "gone"
      BY <2>4, WriteLeads DEF EndSession
    <3>. QED BY <3>1 DEF Judged, InTurn
  <2>6. CASE Quit
    BY <1>2, <2>6 DEF Quit, Judged, InTurn
  <2>5. CASE UNCHANGED vars
    BY <1>2, <2>5 DEF vars, turn, Judged
  <2>. QED BY <1>2, <2>1, <2>2, <2>3, <2>4, <2>5, <2>6 DEF Next
<1>3. ASSUME Typed, Typed', Judged, [Next]_vars
      PROVE  Judged' /\ [InTurn => Left' < Left]_vars
  BY <1>2, <1>3
<1>4. Typed /\ [Next]_vars => Typed'
  BY TypeStep
<1>5. Init => Typed
  BY TypeInit
<1>6. Typed /\ Typed' /\ Judged /\ [Next]_vars => Judged' /\ [InTurn => Left' < Left]_vars
  BY <1>3
<1>. QED BY <1>1, <1>4, <1>5, <1>6, LeftInRange, PTL DEF Spec, RunsDown

-----------------------------------------------------------------------------
(* The session implements the conversation.                                 *)

Counted == \E i \in 1..Len(history) : history[i] = asked
CountedTwice ==
  \E i, j \in 1..Len(history) : i # j /\ history[i] = asked /\ history[j] = asked

\* Where the turn has not reached add_turn(), and where it has been there once at most.
Before == {"plan", "dispatch", "execute", "context", "verify", "escalate", "chain", "gate", "record"}
Between == {"signals", "except", "recordDegraded"}

\* Only messages that were asked are counted; the one at hand is not counted before
\* the first add_turn() of its turn, and not twice before the second.
Fresh ==
  /\ pc = "new" => history = << >>
  /\ \A i \in 1..Len(history) : history[i] <= asked
  /\ pc \in Before /\ kind # "consolidate" => ~Counted
  /\ pc \in Between => ~CountedTwice
  /\ pc \in {"context", "verify", "escalate", "chain", "gate", "record"} => kind # "consolidate"

LEMMA NotTwiceUnlessCounted == CountedTwice => Counted
BY DEF CountedTwice, Counted

\* The message at hand is counted once more.
LEMMA FreshByAddTurn ==
  ASSUME Typed, Fresh, NEW next, NEW escape, AddTurn(next, escape), asked' = asked
  PROVE  /\ \A i \in 1..Len(history') : history'[i] <= asked'
         /\ ~Counted => ~CountedTwice'
<1>0. asked \in Nat /\ history \in Seq(Nat)
  BY TypedFacts DEF Typed
<1>1. history' = Append(history, asked)
  BY DEF AddTurn
<1>2. /\ Len(history) \in Nat /\ Len(history') = Len(history) + 1
      /\ history'[Len(history) + 1] = asked
      /\ \A i \in 1..Len(history) : history'[i] = history[i]
  BY <1>0, <1>1
<1>3. \A i \in 1..Len(history') : i \in 1..Len(history) \/ i = Len(history) + 1
  BY <1>2
<1>4. \A i \in 1..Len(history') : history'[i] <= asked'
  <2>1. \A i \in 1..Len(history) : history'[i] <= asked
    BY <1>2 DEF Fresh
  <2>2. history'[Len(history) + 1] <= asked
    BY <1>0, <1>2
  <2>. QED BY <1>3, <2>1, <2>2
<1>5. ASSUME ~Counted, NEW i \in 1..Len(history'), NEW j \in 1..Len(history'),
             history'[i] = asked', history'[j] = asked'
      PROVE  i = j
  <2>1. i \notin 1..Len(history) /\ j \notin 1..Len(history)
    BY <1>2, <1>5 DEF Counted
  <2>. QED BY <1>3, <2>1
<1>. QED BY <1>4, <1>5 DEF CountedTwice

LEMMA FreshInit == Init => Fresh
BY DEF Init, Fresh, Before, Between

LEMMA FreshStep == Typed /\ Fresh /\ [Next]_vars => Fresh'
<1> SUFFICES ASSUME Typed, Fresh, [Next]_vars PROVE Fresh'
  OBVIOUS
<1>0. history' = history /\ asked' = asked =>
        /\ \A i \in 1..Len(history') : history'[i] <= asked'
        /\ Counted' <=> Counted
        /\ CountedTwice' <=> CountedTwice
  BY DEF Fresh, Counted, CountedTwice
<1>t. kind \in {"classify", "synthesize", "consolidate"}
  BY DEF Typed, TypeOK
<1>n. ~Counted => ~CountedTwice
  BY NotTwiceUnlessCounted
<1> USE DEF Before, Between
<1>1. CASE StartSession
  <2>1. pc' \in {"ready", "gone"}
    BY <1>1, WriteLeads, Zenon DEF StartSession
  <2>2. history' = history /\ asked' = asked
    BY <1>1 DEF StartSession, manager
  <2>. QED BY <1>0, <2>1, <2>2 DEF Fresh
<1>2. CASE Ask
  <2>1. history' = history /\ asked' = asked + 1 /\ pc' = "plan" /\ asked \in Nat
        /\ history \in Seq(Nat)
    BY <1>2, TypedFacts DEF Ask, manager, Typed
  <2>2. \A i \in 1..Len(history) : history[i] \in Nat /\ history[i] <= asked
    BY <2>1 DEF Fresh
  <2>3. \A i \in 1..Len(history') : history'[i] <= asked' /\ history'[i] # asked'
    BY <2>1, <2>2
  <2>. QED BY <2>1, <2>3 DEF Fresh, Counted
<1>3. CASE Plan
  <2>1. pc' \in {"dispatch", Escape}
    BY <1>3, WriteLeads, Zenon DEF Plan, Write
  <2>2. history' = history /\ asked' = asked /\ kind' = kind /\ pc = "plan"
    BY <1>3 DEF Plan, turn, manager
  <2>. QED BY <1>0, <1>n, <2>1, <2>2 DEF Fresh, Escape
<1>4. CASE Dispatch
  <2>1. pc' \in {"execute", Escape}
    BY <1>4, WriteLeads, Zenon DEF Dispatch, Write
  <2>2. history' = history /\ asked' = asked /\ kind' = kind /\ pc = "dispatch"
    BY <1>4 DEF Dispatch, turn, manager
  <2>. QED BY <1>0, <1>n, <2>1, <2>2 DEF Fresh, Escape
<1>5. CASE ExecuteReturns
  <2>1. /\ pc = "execute" /\ history' = history /\ asked' = asked /\ kind' = kind
        /\ \E s \in {"completed", "failed"} : pc' = Onward(s)
    BY <1>5 DEF ExecuteReturns, manager
  <2>2. \/ pc' \in {"context", "verify"} /\ kind # "consolidate"
        \/ pc' \in {"overlay", "consolidate"}
    BY <1>t, <2>1 DEF Onward
  <2>. QED BY <1>0, <2>1, <2>2 DEF Fresh
<1>6. CASE ExecuteRaises
  <2>1. pc' = Escape /\ history' = history /\ asked' = asked /\ kind' = kind /\ pc = "execute"
    BY <1>6 DEF ExecuteRaises, turn, manager
  <2>. QED BY <1>0, <1>n, <2>1 DEF Fresh, Escape
<1>7. CASE Context
  <2>1. /\ pc' \in {"plan", "except"} /\ history' = history /\ asked' = asked
        /\ kind' = "synthesize" /\ pc = "context"
    BY <1>7 DEF Context, manager
  <2>. QED BY <1>0, <1>n, <2>1 DEF Fresh
<1>8. CASE Verify
  <2>1. /\ pc' \in {"chain", "except", "plan", "escalate"} /\ history' = history /\ asked' = asked
        /\ kind' = kind /\ pc = "verify"
    BY <1>8 DEF Verify, AfterReject, manager
  <2>. QED BY <1>0, <1>n, <2>1 DEF Fresh
<1>9. CASE Escalate
  <2>1. pc' \in {"chain", Escape}
    BY <1>9, WriteLeads, Zenon DEF Escalate, Write
  <2>2. history' = history /\ asked' = asked /\ kind' = kind /\ pc = "escalate"
    BY <1>9 DEF Escalate, turn, manager
  <2>. QED BY <1>0, <1>n, <2>1, <2>2 DEF Fresh, Escape
<1>10. CASE ChainComplete
  <2>1. pc' \in {"gate", Escape}
    BY <1>10, WriteLeads, Zenon DEF ChainComplete, Write
  <2>2. history' = history /\ asked' = asked /\ kind' = kind /\ pc = "chain"
    BY <1>10 DEF ChainComplete, turn, manager
  <2>. QED BY <1>0, <1>n, <2>1, <2>2 DEF Fresh, Escape
<1>11. CASE LogGate
  <2>1. pc' \in {"record", Escape}
    BY <1>11, WriteLeads, Zenon DEF LogGate, Write
  <2>2. history' = history /\ asked' = asked /\ kind' = kind /\ pc = "gate"
    BY <1>11 DEF LogGate, turn, manager
  <2>. QED BY <1>0, <1>n, <2>1, <2>2 DEF Fresh, Escape
<1>12. CASE Record
  <2>1. AddTurn("signals", "except") /\ asked' = asked /\ kind' = kind /\ pc = "record"
    BY <1>12 DEF Record, turn
  <2>2. pc' \in {"signals", "except"}
    BY <2>1, WriteLeads, Zenon DEF AddTurn
  <2>3. ~Counted
    BY <2>1 DEF Fresh
  <2>. QED BY <2>1, <2>2, <2>3, FreshByAddTurn DEF Fresh
<1>13. CASE Signals
  <2>1. /\ pc' \in {"consolidate", "except"} /\ history' = history /\ asked' = asked
        /\ pc = "signals"
    BY <1>13 DEF Signals, manager
  <2>. QED BY <1>0, <2>1 DEF Fresh
<1>14. CASE LogDegradation
  <2>1. pc' \in {"recordDegraded", "degrade"}
    BY <1>14, WriteLeads, Zenon DEF LogDegradation
  <2>2. history' = history /\ asked' = asked /\ pc = "except"
    BY <1>14 DEF LogDegradation, manager
  <2>. QED BY <1>0, <2>1, <2>2 DEF Fresh
<1>15. CASE RecordDegraded
  <2>1. AddTurn("return", "degrade") /\ asked' = asked
    BY <1>15 DEF RecordDegraded
  <2>2. pc' \in {"return", "degrade"}
    BY <2>1, WriteLeads, Zenon DEF AddTurn
  <2>. QED BY <2>1, <2>2, FreshByAddTurn DEF Fresh
<1>16. CASE Consolidate
  <2>1. /\ history' = history /\ asked' = asked
        /\ pc' = "return" \/ (kind' = "consolidate" /\ pc' \in {"consolidate", "plan"})
    BY <1>16 DEF Consolidate, manager
  <2>. QED BY <1>0, <2>1 DEF Fresh
<1>17. CASE Overlay
  <2>1. pc' \in {"consolidate", "return"} /\ history' = history /\ asked' = asked
    BY <1>17 DEF Overlay, manager
  <2>. QED BY <1>0, <2>1 DEF Fresh
<1>18. CASE Return
  BY <1>0, <1>18 DEF Return, manager, Fresh
<1>19. CASE Degrade
  BY <1>0, <1>19 DEF Degrade, manager, Fresh
<1>20. CASE EndSession
  <2>1. pc' = "gone" /\ history' = history /\ asked' = asked
    BY <1>20, WriteLeads DEF EndSession, manager
  <2>. QED BY <1>0, <2>1 DEF Fresh
<1>21. CASE UNCHANGED vars
  BY <1>0, <1>21 DEF vars, turn, manager, Fresh
<1>22. CASE Quit
  BY <1>0, <1>22 DEF Quit, manager, Fresh
<1>. QED
  BY Cases, <1>1, <1>2, <1>3, <1>4, <1>5, <1>6, <1>7, <1>8, <1>9, <1>10, <1>11, <1>12, <1>13,
     <1>14, <1>15, <1>16, <1>17, <1>18, <1>19, <1>20, <1>21, <1>22

\* Whatever a step does, turns land in order, and while a message is answered
\* there is no summary.
LEMMA LandsStep ==
  ASSUME Typed, Typed', InOrder, InOrder', [Next]_vars
  PROVE  /\ Promise!Lands
         /\ Told \subseteq Told' \/ history' # history
         /\ Told' \subseteq {Len(history')}
         /\ Told' # {} => Recorded' = 1..Len(history')
         /\ pc \notin {"gone", "over"} => Told = {}
         /\ pc' \notin {"gone", "over"} => Told' = {}
<1>0. /\ Recorded = Turns(ho2m) /\ Told = Sums(ho2m)
      /\ Recorded' = Turns(ho2m') /\ Told' = Sums(ho2m')
      /\ \E k \in 0..Len(history') : Recorded' = 1..k
      /\ Told' \subseteq {Len(history')}
      /\ Told' # {} => Recorded' = 1..Len(history')
  <2>1. Recorded = Turns(ho2m) /\ Told = Sums(ho2m)
    BY RecordFacts
  <2>2. /\ \E k \in 0..Len(history') : Recorded' = 1..k
        /\ Recorded' = Turns(ho2m')
        /\ Sums(ho2m') \subseteq {Len(history')} /\ Told' = Sums(ho2m')
        /\ Sums(ho2m') # {} => Recorded' = 1..Len(history')
    <3>1. Typed /\ InOrder =>
            /\ \E k \in 0..Len(history) : Recorded = 1..k
            /\ Recorded = Turns(ho2m)
            /\ Sums(ho2m) \subseteq {Len(history)} /\ Told = Sums(ho2m)
            /\ Sums(ho2m) # {} => Recorded = 1..Len(history)
      BY RecordFacts
    <3>2. (Typed /\ InOrder)' =>
            (/\ \E k \in 0..Len(history) : Recorded = 1..k
             /\ Recorded = Turns(ho2m)
             /\ Sums(ho2m) \subseteq {Len(history)} /\ Told = Sums(ho2m)
             /\ Sums(ho2m) # {} => Recorded = 1..Len(history))'
      BY RecordFacts, PTL
    <3>. QED BY <3>2
  <2>. QED BY <2>1, <2>2
<1>1. ho2m \subseteq ho2m'
  BY HeldStep
<1>2. Recorded \subseteq Recorded' /\ Told \subseteq Told'
  BY <1>0, <1>1, SumsOfView
<1>3. /\ pc \notin {"gone", "over"} => Told = {}
      /\ pc' \notin {"gone", "over"} => Told' = {}
  <2>1. ho2m \subseteq Held /\ ho2m' \subseteq Held'
    BY HeldStep, ViewFacts, TypedFacts DEF Typed
  <2>2. Sums(ho2m) \subseteq Sums(Held) /\ Sums(ho2m') \subseteq Sums(Held')
    BY <2>1, SumsOfView
  <2>3. /\ pc \notin {"gone", "over"} => Sums(Held) = {}
        /\ pc' \notin {"gone", "over"} => Sums(Held') = {}
    BY DEF InOrder
  <2>. QED BY <1>0, <2>2, <2>3
<1>. QED BY <1>0, <1>2, <1>3 DEF Promise!Lands

\* add_turn() is what the session promises of it.
LEMMA NoteByAddTurn ==
  ASSUME pc \in {"record", "recordDegraded"}, ~CountedTwice, NEW next, NEW escape,
         AddTurn(next, escape), {next, escape} \subseteq {"signals", "except", "return", "degrade"},
         UNCHANGED <<asked, answer>>, Told' = Told, Promise!Lands
  PROVE  Promise!Note
<1>1. pc' \in {next, escape} /\ history' = Append(history, asked)
  BY WriteLeads, Zenon DEF AddTurn
<1>2. Phase = "busy" /\ Phase' = "busy"
  BY <1>1 DEF Phase
<1>3. ~Promise!NotedTwice
  BY DEF CountedTwice, Promise!NotedTwice
<1>. QED BY <1>1, <1>2, <1>3 DEF Promise!Note

\* Steps of a turn that its user does not see: entries that were late may land.
LEMMA Unseen ==
  ASSUME pc \notin {"new", "ready", "gone", "over"}, pc' \notin {"new", "ready", "gone", "over"},
         UNCHANGED <<asked, answer, history>>, Told' = Told, Promise!Lands
  PROVE  Promise!CatchUp
<1>1. Phase = "busy" /\ Phase' = "busy"
  BY DEF Phase
<1>. QED BY <1>1 DEF Promise!CatchUp

\* Steps that leave HO2m alone.
LEMMA SameRecord ==
  ASSUME UNCHANGED <<ho2m, history>>
  PROVE  Recorded' = Recorded /\ Told' = Told
BY DEF Recorded, Told

LEMMA PromiseStep ==
  ASSUME Typed, Typed', InOrder, InOrder', Fresh, Answered, [Next]_vars
  PROVE  [Promise!Next]_(Promise!vars)
<1>e. Escape \in {"return", "except"}
  BY EscapeFacts
<1>l. Promise!Lands
  BY LandsStep
<1>o. pc \notin {"gone", "over"} /\ pc' \notin {"gone", "over"} => Told = {} /\ Told' = {}
  BY LandsStep
<1>1. CASE StartSession
  <2>1. pc' \in {"ready", "gone"}
    BY <1>1, WriteLeads, Zenon DEF StartSession
  <2>2. pc = "new" /\ UNCHANGED <<asked, answer, history>>
    BY <1>1 DEF StartSession, manager
  <2>3. Recorded' = Recorded /\ Told' = Told
    \* Nothing has been counted, so nothing of it can land, and there is no summary.
    <3>1. Recorded = {} /\ Recorded' = {}
      BY <2>2 DEF Fresh, Recorded
    <3>2. Held' = Held \union {<<"SESSION_START", 0>>} /\ ho2m' \subseteq Held'
      <4>1. WriteOr({<<"SESSION_START", 0>>}, "ready", "gone")
        BY <1>1 DEF StartSession
      <4>2. faults \in 0..MaxFaults /\ kept \in Seq(Lines)
        BY TypedFacts DEF Typed
      <4>. QED BY <4>1, <4>2, WriteFacts
    <3>3. Sums(Held) = {} /\ Told = {}
      BY <2>2, LandsStep DEF InOrder
    <3>4. Told' = {}
      <4>1. \A n \in Nat : <<"SESSION_END", n>> \notin ho2m'
        BY <3>2, <3>3 DEF Sums
      <4>2. Len(history') \in Nat
        BY TypedFacts DEF Typed
      <4>. QED BY <4>1, <4>2 DEF Told
    <3>. QED BY <3>1, <3>3, <3>4
  <2>4. Promise!Start
    BY <2>1, <2>2, <2>3 DEF Promise!Start, Phase
  <2>. QED BY <2>4 DEF Promise!Next
<1>2. CASE Ask
  <2>1. /\ pc = "ready" /\ pc' = "plan" /\ asked' = asked + 1 /\ answer' = "none"
        /\ UNCHANGED <<history, ho2m>>
    BY <1>2 DEF Ask, manager, ledgers
  <2>2. Promise!Ask
    BY <2>1, SameRecord DEF Promise!Ask, Phase
  <2>. QED BY <2>2 DEF Promise!Next
<1>3. CASE Plan \/ Dispatch \/ Escalate \/ ChainComplete \/ LogGate
  <2>1. pc' \in {"dispatch", "execute", "chain", "gate", "record", Escape}
    BY <1>3, WriteLeads, Zenon DEF Plan, Dispatch, Escalate, ChainComplete, LogGate, Write
  <2>2. pc \notin {"new", "ready", "gone", "over"} /\ UNCHANGED <<asked, answer, history>>
    BY <1>3 DEF Plan, Dispatch, Escalate, ChainComplete, LogGate, manager
  <2>3. Promise!CatchUp
    BY <1>e, <1>l, <1>o, <2>1, <2>2, Unseen
  <2>. QED BY <2>3 DEF Promise!Next
<1>4. CASE ExecuteReturns \/ ExecuteRaises
  <2>1. /\ pc \notin {"new", "ready", "gone", "over"}
        /\ pc' \in {"overlay", "consolidate", "context", "verify", Escape}
        /\ UNCHANGED <<asked, answer, history>>
    BY <1>4 DEF ExecuteReturns, ExecuteRaises, Onward, manager
  <2>2. Promise!CatchUp
    BY <1>e, <1>l, <1>o, <2>1, Unseen
  <2>. QED BY <2>2 DEF Promise!Next
<1>5. CASE Context \/ Verify
  <2>1. /\ pc \notin {"new", "ready", "gone", "over"}
        /\ pc' \in {"plan", "except", "chain", "escalate"}
        /\ UNCHANGED <<asked, answer, history>>
    BY <1>5 DEF Context, Verify, AfterReject, manager
  <2>2. Promise!CatchUp
    BY <1>l, <1>o, <2>1, Unseen
  <2>. QED BY <2>2 DEF Promise!Next
<1>6. CASE Record
  <2>1. pc = "record" /\ AddTurn("signals", "except") /\ UNCHANGED <<asked, answer, kind>>
    BY <1>6 DEF Record, turn
  <2>2. ~CountedTwice
    BY <2>1, NotTwiceUnlessCounted DEF Fresh, Before
  <2>3. pc' \in {"signals", "except"}
    BY <2>1, WriteLeads, Zenon DEF AddTurn
  <2>4. Told' = Told
    BY <1>o, <2>1, <2>3
  <2>5. Promise!Note
    BY <1>l, <2>1, <2>2, <2>4, NoteByAddTurn
  <2>. QED BY <2>5 DEF Promise!Next
<1>7. CASE RecordDegraded
  <2>1. pc = "recordDegraded" /\ AddTurn("return", "degrade") /\ UNCHANGED <<asked, answer>>
    BY <1>7 DEF RecordDegraded
  <2>2. ~CountedTwice
    BY <2>1 DEF Fresh, Between
  <2>3. pc' \in {"return", "degrade"}
    BY <2>1, WriteLeads, Zenon DEF AddTurn
  <2>4. Told' = Told
    BY <1>o, <2>1, <2>3
  <2>5. Promise!Note
    BY <1>l, <2>1, <2>2, <2>4, NoteByAddTurn
  <2>. QED BY <2>5 DEF Promise!Next
<1>8. CASE Signals \/ Consolidate \/ Overlay
  <2>1. /\ pc \notin {"new", "ready", "gone", "over"}
        /\ pc' \in {"consolidate", "except", "return", "plan"}
        /\ UNCHANGED <<asked, answer, history>>
    BY <1>8 DEF Signals, Consolidate, Overlay, manager
  <2>2. Promise!CatchUp
    BY <1>l, <1>o, <2>1, Unseen
  <2>. QED BY <2>2 DEF Promise!Next
<1>9. CASE LogDegradation
  <2>1. pc' \in {"recordDegraded", "degrade"}
    BY <1>9, WriteLeads, Zenon DEF LogDegradation
  <2>2. pc = "except" /\ UNCHANGED <<asked, answer, history>>
    BY <1>9 DEF LogDegradation, manager
  <2>3. Promise!CatchUp
    BY <1>l, <1>o, <2>1, <2>2, Unseen
  <2>. QED BY <2>3 DEF Promise!Next
<1>10. CASE Return
  <2>1. /\ pc = "return" /\ pc' = "ready" /\ answer' = "success"
        /\ UNCHANGED <<asked, history, ho2m>>
    BY <1>10 DEF Return, manager, ledgers
  <2>2. \E n \in Recorded : history[n] = asked
    BY <2>1 DEF Answered, HasRecord
  <2>3. Promise!Reply
    BY <2>1, <2>2, SameRecord DEF Promise!Reply, Promise!Answers, Phase
  <2>. QED BY <2>3 DEF Promise!Next
<1>11. CASE Degrade
  <2>1. /\ pc = "degrade" /\ pc' = "ready" /\ answer' \in {"degraded", "error"}
        /\ UNCHANGED <<asked, history, ho2m>>
    BY <1>11 DEF Degrade, manager, ledgers
  <2>2. Promise!Reply
    BY <2>1, SameRecord DEF Promise!Reply, Promise!Answers, Phase
  <2>. QED BY <2>2 DEF Promise!Next
<1>12. CASE EndSession
  <2>1. pc = "ready" /\ pc' = "gone" /\ UNCHANGED <<asked, answer, history>>
    BY <1>12, WriteLeads DEF EndSession, manager
  <2>2. Promise!Tell
    BY <2>1, LandsStep DEF Promise!Tell
  <2>3. Promise!End
    BY <2>1, <2>2 DEF Promise!End, Phase
  <2>. QED BY <2>3 DEF Promise!Next
<1>13. CASE Quit
  <2>1. pc = "gone" /\ pc' = "over" /\ UNCHANGED <<asked, answer, history>>
    BY <1>13 DEF Quit, manager
  <2>2. Promise!Tell
    BY <2>1, LandsStep DEF Promise!Tell
  <2>3. Promise!Leave
    BY <2>1, <2>2 DEF Promise!Leave, Phase
  <2>. QED BY <2>3 DEF Promise!Next
<1>14. CASE UNCHANGED vars
  <2>1. UNCHANGED <<pc, asked, answer, history, ho2m>>
    BY <1>14 DEF vars, manager, ledgers
  <2>. QED BY <2>1, SameRecord DEF Promise!vars, Phase
<1>. QED
  BY Cases, <1>1, <1>2, <1>3, <1>4, <1>5, <1>6, <1>7, <1>8, <1>9, <1>10, <1>11, <1>12, <1>13, <1>14

\* The session implements the conversation: for every number of retries, messages,
\* signals and writes that raise, what goes on inside a turn is a stutter to its user,
\* entries of add_turn() that land in order, then or later, or the answer.
THEOREM Implementation == Spec => ImplementsConversation
<1>1. Init => Fresh /\ Promise!Init
  <2>. SUFFICES ASSUME Init PROVE Fresh /\ Promise!Init
    OBVIOUS
  <2>1. Recorded = {} /\ Told = {} /\ Phase = "closed"
    BY DEF Init, Recorded, Told, Phase
  <2>. QED BY <2>1, FreshInit DEF Init, Promise!Init
<1>2. Typed /\ InOrder /\ Fresh /\ Answered /\ [Next]_vars
        => (Typed /\ InOrder /\ Fresh /\ Answered)'
  BY TypeStep, InOrderStep, FreshStep, AnsweredStep
<1>3. Typed /\ Typed' /\ InOrder /\ InOrder' /\ Fresh /\ Answered /\ [Next]_vars
        => [Promise!Next]_(Promise!vars)
  BY PromiseStep
<1>4. Init => Typed /\ InOrder /\ Answered
  BY TypeInit, InOrderInit, AnsweredInit
<1>. QED BY <1>1, <1>2, <1>3, <1>4, PTL DEF Spec, ImplementsConversation, Promise!Spec

=============================================================================
