------------------------- MODULE TokenBudgeterProofs -------------------------
(* Proofs about the token budgeter, for every tree of scopes, every limit   *)
(* and every number of calls.                                               *)
EXTENDS TokenBudgeter, FiniteSetTheorems, TLAPS

USE DEF Budget

-----------------------------------------------------------------------------
(* Facts about scope keys.                                                  *)

\* A scope around a scope around key is itself around key.
LEMMA AboveAbove ==
  ASSUME NEW key \in Seq(STRING), NEW k \in Above(key)
  PROVE  Above(k) \subseteq Above(key)
<1>1. PICK i \in 1..(Len(key) - 1) : k = SubSeq(key, 1, i)
  BY DEF Above
<1>2. k \in Seq(STRING) /\ Len(k) = i
  BY <1>1
<1>3. ASSUME NEW j \in 1..(Len(k) - 1)
      PROVE  SubSeq(k, 1, j) = SubSeq(key, 1, j)
  BY <1>1, <1>2, <1>3
<1>. QED BY <1>2, <1>3 DEF Above

\* A nonempty set of keys has a longest one.
LEMMA LongestExists ==
  ASSUME NEW S \in SUBSET Keys, S # {}
  PROVE  Longest(S) \in S
<1>1. \A key \in S : Len(key) \in 1..3
  BY BudgetAssumption
<1>2. \E key \in S : \A other \in S : Len(other) <= Len(key)
  <2>1. CASE \E key \in S : Len(key) = 3
    <3>1. PICK key \in S : Len(key) = 3
      BY <2>1
    <3>2. \A other \in S : Len(other) <= Len(key)
      BY <1>1, <3>1
    <3>. QED BY <3>2
  <2>2. CASE (\A key \in S : Len(key) # 3) /\ \E key \in S : Len(key) = 2
    BY <1>1, <2>2
  <2>3. CASE \A key \in S : Len(key) = 1
    BY <2>3
  <2>. QED BY <1>1, <2>1, <2>2, <2>3
<1>. QED BY <1>2 DEF Longest
-----------------------------------------------------------------------------
(* Types.                                                                   *)

Budgets == UNION {[keys -> Budget] : keys \in SUBSET Keys}

\* The lines of the buffer.
Lines ==
  [event : {"BUDGET_ALLOCATE"}, key : Keys, limit : Limits, turns : TurnLimits, before : Budgets]
  \union [event : {"BUDGET_DEBIT"}, charged : SUBSET Keys, usage : Nat, before : Budgets]

LEMMA BudgetsAre ==
  ASSUME NEW budgets
  PROVE  budgets \in Budgets <=> IsBudgets(budgets)
BY DEF Budgets, IsBudgets

\* A call is under way and there is a scope to charge.
LEMMA Pending ==
  ASSUME TypeOK, pending # NoRequest, Candidates(pending.key) # {}
  PROVE  /\ pending.key \in Keys /\ pending.tokens \in Requests
         /\ Candidates(pending.key) \subseteq Keys
         /\ Resolved(pending.key) \in Candidates(pending.key)
<1>1. pending \in [key : Keys, tokens : Requests, granted : BOOLEAN]
  BY DEF TypeOK
<1>2. Candidates(pending.key) \subseteq Keys /\ Candidates(pending.key) # {}
  BY DEF TypeOK, Candidates, IsBudgets
<1>3. Resolved(pending.key) \in Candidates(pending.key)
  BY <1>2, LongestExists DEF Resolved
<1>. QED BY <1>1, <1>2, <1>3

LEMMA AllocatedType ==
  ASSUME NEW budgets, IsBudgets(budgets),
         NEW key \in Keys, NEW limit \in Limits, NEW turns \in TurnLimits
  PROVE  /\ DOMAIN Allocated(budgets, key, limit, turns) = DOMAIN budgets \union {key}
         /\ IsBudgets(Allocated(budgets, key, limit, turns))
<1>1. limit \in Nat /\ turns \in Nat \union {NoTurnLimit}
  BY BudgetAssumption
<1>. QED BY <1>1 DEF Allocated, IsBudgets

LEMMA ChargeType ==
  ASSUME NEW budgets, IsBudgets(budgets), NEW charged, NEW usage \in Nat
  PROVE  /\ DOMAIN Charge(budgets, charged, usage) = DOMAIN budgets
         /\ IsBudgets(Charge(budgets, charged, usage))
<1>1. ASSUME NEW k \in DOMAIN budgets
      PROVE  [budgets[k] EXCEPT !.used = @ + usage, !.count = @ + 1] \in Budget
  <2>. DEFINE b == budgets[k]
  <2>1. b \in Budget
    BY DEF IsBudgets
  <2>. HIDE DEF b
  <2>2. b.used + usage \in Nat /\ b.count + 1 \in Nat
    BY <2>1
  <2>3. [b EXCEPT !.used = b.used + usage, !.count = b.count + 1] \in Budget
    BY <2>1, <2>2
  <2>. QED BY <2>3 DEF b
<1>. QED BY <1>1 DEF Charge, IsBudgets

LEMMA ReplayedType ==
  ASSUME NEW budgets, IsBudgets(budgets), NEW line \in Lines
  PROVE  IsBudgets(Replayed(line, budgets))
<1>1. CASE line.event = "BUDGET_ALLOCATE"
  <2>1. line.key \in Keys /\ line.limit \in Limits /\ line.turns \in TurnLimits
    BY <1>1 DEF Lines
  <2>. QED BY <1>1, <2>1, AllocatedType DEF Replayed
<1>2. CASE line.event # "BUDGET_ALLOCATE"
  <2>1. line.usage \in Nat
    BY <1>2 DEF Lines
  <2>. QED BY <1>2, <2>1, ChargeType DEF Replayed
<1>. QED BY <1>1, <1>2

\* The requests there may be: debits are numbered and happen by the clock.
Stamps == [number : 0..MaxDebits - 1, time : 0..MaxNow]

Typed == TypeOK /\ kept \in Seq(Lines)

\* What a write makes of the buffer.
LEMMA WriteType ==
  ASSUME Typed, NEW line \in Lines, Write(line), ~flushing
  PROVE  /\ kept' \in Seq(Lines) /\ flushing' = TRUE /\ landed' = 0 /\ Len(kept) + 1 = Len(kept')
         /\ \A i \in 1..Len(kept)' : IsBudgets(kept'[i].before)
<1>1. kept' = Append(kept, line) /\ kept' \in Seq(Lines) /\ Len(kept') = Len(kept) + 1
  BY DEF Write, Typed
<1>2. flushing' = TRUE /\ landed' = 0
  BY DEF Write, Typed, TypeOK
<1>3. ASSUME NEW i \in 1..Len(kept') PROVE IsBudgets(kept'[i].before)
  <2>1. kept'[i] \in Lines
    BY <1>1, <1>3
  <2>2. kept'[i].before \in Budgets
    BY <2>1 DEF Lines
  <2>. QED BY <2>2, BudgetsAre
<1>. QED BY <1>1, <1>2, <1>3

LEMMA TypedAlways == Spec => []Typed
<1>1. Init => Typed
  <2>. SUFFICES ASSUME Init PROVE Typed
    OBVIOUS
  <2>1. stamps \in [Keys -> SUBSET Stamps]
    BY DEF Init
  <2>2. limited \in BOOLEAN /\ now \in 0..MaxNow /\ errors \in 0..MaxErrors /\ debits \in 0..MaxDebits
    BY BudgetAssumption DEF Init
  <2>3. IsBudgets(scopes) /\ disk = scopes
    BY DEF Init, Empty, IsBudgets
  <2>4. kept \in Seq(Lines) /\ Len(kept) = 0
    BY DEF Init
  <2>5. ~pending.granted /\ pending = NoRequest
    BY DEF Init, NoRequest
  <2>6. flushing = FALSE /\ twice = FALSE /\ landed = 0 /\ waived = {} /\ mode \in Modes
    BY DEF Init
  <2>7. ~pending.granted /\ pending = NoRequest /\ kept \in Seq(Lines) /\ IsBudgets(disk)
    BY <2>3, <2>4, <2>5
  <2>8. /\ landed \in Nat /\ waived \subseteq Keys /\ flushing \in BOOLEAN /\ twice \in BOOLEAN
        /\ IF flushing THEN landed < Len(kept) ELSE landed = 0
        /\ \A i \in 1..Len(kept) : IsBudgets(kept[i].before)
    <3>1. flushing \in BOOLEAN /\ twice \in BOOLEAN /\ ~flushing
      BY <2>6
    <3>2. \A i \in 1..Len(kept) : IsBudgets(kept[i].before)
      BY <2>4
    <3>3. landed \in Nat /\ landed = 0 /\ waived \subseteq Keys
      BY <2>6
    <3>. QED BY <3>1, <3>2, <3>3
  <2>9. /\ pending \in {NoRequest} \union [key : Keys, tokens : Requests, granted : BOOLEAN]
        /\ pending.granted => Candidates(pending.key) # {}
        /\ mode = "enforce" => waived = {} /\ (pending # NoRequest => pending.granted)
    BY <2>6, <2>7
  <2>10. IsBudgets(scopes) /\ IsBudgets(disk) /\ kept \in Seq(Lines)
    BY <2>3, <2>7
  <2>. QED BY <2>1, <2>2, <2>6, <2>8, <2>9, <2>10 DEF TypeOK, Stamps, Typed
<1>2. Typed /\ [Next]_vars => Typed'
  <2>. SUFFICES ASSUME Typed, [Next]_vars PROVE Typed'
    OBVIOUS
  <2>0. /\ now \in Nat /\ errors \in Nat /\ debits \in Nat /\ landed \in Nat
        /\ MaxNow \in Nat /\ MaxErrors \in Nat /\ MaxDebits \in Nat /\ TypeOK /\ kept \in Seq(Lines)
    BY BudgetAssumption DEF Typed, TypeOK
  <2>1. ASSUME NEW key \in Keys, NEW limit \in Limits, NEW turns \in TurnLimits,
               Allocate(key, limit, turns)
        PROVE  Typed'
    <3>. DEFINE line == [event |-> "BUDGET_ALLOCATE", key |-> key, limit |-> limit,
                         turns |-> turns, before |-> scopes]
    <3>1. line \in Lines
      BY <2>0, BudgetsAre DEF TypeOK, Lines
    <3>2. Write(line) /\ ~flushing
      BY <2>1 DEF Allocate
    <3>. HIDE DEF line
    <3>3. /\ kept' \in Seq(Lines) /\ flushing' = TRUE /\ landed' = 0 /\ Len(kept) + 1 = Len(kept')
          /\ \A i \in 1..Len(kept)' : IsBudgets(kept'[i].before)
      BY <3>1, <3>2, WriteType
    <3>4. IsBudgets(scopes')
      BY <2>0, <2>1, AllocatedType DEF Allocate, TypeOK
    <3>5. stamps' \in [Keys -> SUBSET Stamps]
      BY <2>0, <2>1 DEF Allocate, TypeOK, Stamps
    <3>6. pending = NoRequest /\ pending' = pending /\ ~pending'.granted
      BY <2>1 DEF Allocate, NoRequest
    <3>7. Len(kept) \in Nat
      BY <2>0
    <3>8. UNCHANGED <<limited, mode, debits, now, waived, disk, errors, twice>>
      BY <2>1, <3>2 DEF Allocate, Write
    <3>. QED BY <2>0, <3>3, <3>4, <3>5, <3>6, <3>7, <3>8 DEF Typed, TypeOK, Stamps
  <2>2. ASSUME NEW key \in Keys, NEW tokens \in Requests,
               Check(key, tokens) \/ Unchecked(key, tokens)
        PROVE  Typed'
    <3>1. Recent(key) \in SUBSET Stamps
      BY <2>0 DEF Recent, TypeOK, Stamps
    <3>2. stamps' \in [Keys -> SUBSET Stamps]
      BY <2>0, <2>2, <3>1 DEF Check, Unchecked, memory, TypeOK, Stamps
    <3>3. UNCHANGED <<scopes, disk, kept, landed, errors, twice, mode, debits, now, waived, limited>>
      BY <2>2 DEF Check, Unchecked, OtherWrite, memory, client
    <3>4. \/ pending' = NoRequest
          \/ \E granted \in BOOLEAN : /\ pending' = [key |-> key, tokens |-> tokens, granted |-> granted]
                                      /\ granted => Allowed(key, tokens)
                                      /\ mode = "enforce" => granted
      BY <2>2 DEF Check, Unchecked, Goes, Allowed
    <3>5. /\ pending' \in {NoRequest} \union [key : Keys, tokens : Requests, granted : BOOLEAN]
          /\ pending'.granted => Candidates(pending'.key) # {}
          /\ mode = "enforce" /\ pending' # NoRequest => pending'.granted
      <4>1. CASE pending' = NoRequest
        BY <4>1 DEF NoRequest
      <4>2. ASSUME NEW granted \in BOOLEAN, granted => Allowed(key, tokens),
                   mode = "enforce" => granted,
                   pending' = [key |-> key, tokens |-> tokens, granted |-> granted]
            PROVE  /\ pending' \in [key : Keys, tokens : Requests, granted : BOOLEAN]
                   /\ pending'.granted => Candidates(pending'.key) # {}
                   /\ mode = "enforce" /\ pending' # NoRequest => pending'.granted
        BY <4>2 DEF Allowed
      <4>. QED BY <3>4, <4>1, <4>2
    <3>6. (pending.granted => Candidates(pending.key) # {})'
      BY <3>3, <3>5 DEF Candidates
    <3>7. /\ flushing' \in BOOLEAN
          /\ IF flushing' THEN landed < Len(kept) ELSE landed = 0
      <4>1. landed = 0 /\ (flushing' => kept # <<>>) /\ flushing' \in BOOLEAN
        <5>1. ~flushing /\ (flushing' = (kept # <<>>) \/ flushing' = flushing)
          BY <2>2 DEF Check, Unchecked, OtherWrite, client
        <5>2. ASSUME flushing' = (kept # <<>>)
              PROVE  (flushing' => kept # <<>>) /\ flushing' \in BOOLEAN
          BY ZenonT(20), <5>2
        <5>3. ASSUME flushing' = flushing
              PROVE  (flushing' => kept # <<>>) /\ flushing' \in BOOLEAN
          BY ZenonT(20), <2>0, <5>1, <5>3 DEF TypeOK
        <5>4. (flushing' => kept # <<>>) /\ flushing' \in BOOLEAN
          BY ZenonT(20), <5>1, <5>2, <5>3
        <5>. QED BY <2>0, <5>1, <5>4 DEF TypeOK
      <4>2. kept # <<>> => Len(kept) > 0
        BY <2>0
      <4>. QED BY <4>1, <4>2
    <3>. QED BY <2>0, <3>2, <3>3, <3>5, <3>6, <3>7 DEF Typed, TypeOK, Stamps
  <2>3. ASSUME NEW usage \in 0..(pending.tokens + Extra), Debit(usage)
        PROVE  Typed'
    <3>. DEFINE line == [event |-> "BUDGET_DEBIT", charged |-> Recorded(pending.key),
                         usage |-> usage, before |-> scopes]
    <3>1. /\ pending.key \in Keys /\ pending.tokens \in Requests
          /\ Resolved(pending.key) \in Keys /\ Parents(pending.key) \subseteq Keys
      BY <2>0, <2>3, Pending DEF Debit, Parents, TypeOK, IsBudgets
    <3>2. usage \in Nat
      BY <3>1, BudgetAssumption
    <3>3. Recorded(pending.key) \subseteq Keys /\ Charged(pending.key) \subseteq Keys
      BY <3>1, LongestExists DEF Recorded, Charged
    <3>4. line \in Lines
      BY <2>0, <3>2, <3>3, BudgetsAre DEF TypeOK, Lines
    <3>5. Write(line) /\ ~flushing
      BY <2>3 DEF Debit
    <3>. HIDE DEF line
    <3>6. /\ kept' \in Seq(Lines) /\ flushing' = TRUE /\ landed' = 0 /\ Len(kept) + 1 = Len(kept')
          /\ \A i \in 1..Len(kept)' : IsBudgets(kept'[i].before)
      BY <3>4, <3>5, WriteType
    <3>7. IsBudgets(scopes')
      BY <2>0, <2>3, <3>2, ChargeType DEF Debit, TypeOK
    <3>8. stamps' \in [Keys -> SUBSET Stamps]
      <4>1. [number |-> debits, time |-> now] \in Stamps
        BY <2>0, <2>3 DEF Debit, TypeOK, Stamps
      <4>. QED BY <2>0, <2>3, <4>1 DEF Debit, TypeOK, Stamps
    <3>9. pending' = NoRequest /\ ~pending'.granted /\ debits' \in 0..MaxDebits
      BY <2>0, <2>3 DEF Debit, NoRequest, TypeOK
    <3>10. waived' \subseteq Keys /\ (mode = "enforce" => waived' = {})
      BY <2>0, <2>3, <3>3 DEF Debit, TypeOK
    <3>11. UNCHANGED <<limited, mode, now, disk, errors, twice>> /\ Len(kept) \in Nat
      BY <2>0, <2>3, <3>5 DEF Debit, Write
    <3>. QED BY <2>0, <3>6, <3>7, <3>8, <3>9, <3>10, <3>11 DEF Typed, TypeOK, Stamps
  <2>4. ASSUME GiveUp \/ Flush \/ Tick \/ UNCHANGED vars
        PROVE  Typed'
    <3>1. UNCHANGED <<scopes, stamps, limited, disk, kept, landed, errors, twice, mode, debits, waived>>
      BY <2>4 DEF GiveUp, Flush, OtherWrite, Tick, vars, memory, client
    <3>2. now' \in 0..MaxNow /\ (pending' = pending \/ pending' = NoRequest)
      BY <2>0, <2>4 DEF GiveUp, Flush, Tick, vars, TypeOK
    <3>3. flushing' \in BOOLEAN /\ IF flushing' THEN landed < Len(kept) ELSE landed = 0
      <4>1. CASE flushing' = flushing
        BY <2>0, <4>1 DEF TypeOK
      <4>2. CASE Flush
        <5>1. kept # <<>> => Len(kept) > 0
          BY <2>0
        <5>. QED BY <2>0, <4>2, <5>1 DEF Flush, OtherWrite, TypeOK
      <4>. QED BY <2>4, <4>1, <4>2 DEF GiveUp, Tick, vars, client
    <3>4. ~NoRequest.granted
      BY DEF NoRequest
    <3>. QED BY <2>0, <3>1, <3>2, <3>3, <3>4 DEF Typed, TypeOK, Candidates
  <2>5. ASSUME Land \/ \E one \in BOOLEAN : Raised(one)
        PROVE  Typed'
    <3>1. flushing /\ landed + 1 \in 1..Len(kept) /\ kept[landed + 1] \in Lines
      BY <2>0, <2>5 DEF Land, Raised, TypeOK
    <3>2. IsBudgets(disk')
      <4>1. disk' = disk \/ disk' = Replayed(kept[landed + 1], disk)
        BY <2>5 DEF Land, Raised
      <4>2. IsBudgets(disk)
        BY <2>0 DEF TypeOK
      <4>. QED BY <3>1, <4>1, <4>2, ReplayedType
    <3>3. /\ UNCHANGED <<scopes, stamps, limited, mode, debits, now, waived>>
          /\ pending' = pending \/ pending' = NoRequest
          /\ errors' \in 0..MaxErrors /\ twice' \in BOOLEAN
      BY <2>0, <2>5 DEF Land, Raised, memory, TypeOK
    <3>4. /\ kept' = kept \/ (kept' = <<>> /\ landed' = 0 /\ ~flushing')
          /\ flushing' \in BOOLEAN
          /\ IF flushing' THEN landed' < Len(kept) /\ landed' \in Nat ELSE landed' = 0
      <4>1. CASE Land
        <5>1. CASE landed + 1 < Len(kept)
          <6>1. landed' = landed + 1 /\ kept' = kept /\ flushing' = flushing
            BY <4>1, <5>1 DEF Land
          <6>. QED BY <2>0, <3>1, <5>1, <6>1 DEF TypeOK
        <5>2. CASE ~(landed + 1 < Len(kept))
          <6>1. landed' = 0 /\ kept' = <<>> /\ flushing' = FALSE
            BY <4>1, <5>2 DEF Land, FlushEnds
          <6>. QED BY <6>1
        <5>. QED BY <5>1, <5>2
      <4>2. CASE \E one \in BOOLEAN : Raised(one)
        BY <4>2 DEF Raised, FlushEnds
      <4>. QED BY <2>5, <4>1, <4>2
    <3>5. /\ kept' \in Seq(Lines) /\ landed' \in Nat
          /\ IF flushing' THEN landed' < Len(kept') ELSE landed' = 0
          /\ \A i \in 1..Len(kept') : IsBudgets(kept'[i].before)
      <4>1. CASE kept' = kept
        BY <2>0, <3>4, <4>1 DEF TypeOK
      <4>2. CASE kept' = <<>> /\ landed' = 0 /\ ~flushing'
        BY <4>2
      <4>. QED BY <3>4, <4>1, <4>2
    <3>6. ~NoRequest.granted
      BY DEF NoRequest
    <3>. QED BY <2>0, <3>2, <3>3, <3>4, <3>5, <3>6 DEF Typed, TypeOK, Candidates
  <2>6. CASE ColdStart
    <3>1. /\ kept' = <<>> /\ landed' = 0 /\ flushing' = FALSE /\ scopes' = disk /\ disk' = disk
          /\ limited' = FALSE /\ pending' = NoRequest /\ stamps' = [k \in Keys |-> {}]
          /\ UNCHANGED <<errors, twice, mode, debits, now, waived>>
      BY <2>6 DEF ColdStart, FlushEnds
    <3>2. ~NoRequest.granted /\ kept' \in Seq(Lines) /\ Len(kept') = 0
      BY <3>1 DEF NoRequest
    <3>3. stamps' \in [Keys -> SUBSET Stamps]
      BY <3>1
    <3>4. IsBudgets(scopes') /\ IsBudgets(disk') /\ ~pending'.granted /\ pending' = NoRequest
      BY <2>0, <3>1, <3>2 DEF TypeOK
    <3>5. /\ limited' \in BOOLEAN /\ flushing' \in BOOLEAN /\ twice' \in BOOLEAN /\ mode' \in Modes
          /\ landed' \in Nat /\ landed' = 0 /\ ~flushing'
          /\ debits' \in 0..MaxDebits /\ now' \in 0..MaxNow /\ errors' \in 0..MaxErrors
          /\ waived' \subseteq Keys /\ (mode' = "enforce" => waived' = {})
      BY <2>0, <3>1 DEF TypeOK
    <3>. QED BY <3>1, <3>2, <3>3, <3>4, <3>5 DEF Typed, TypeOK, Stamps
  <2>. QED BY <2>1, <2>2, <2>3, <2>4, <2>5, <2>6 DEF Next
<1>. QED BY <1>1, <1>2, PTL DEF Spec

\* Every reachable state is well typed, a request whose check has passed has a
\* budget, and in mode "enforce" there is no other.
THEOREM TypeCorrect == Spec => []TypeOK
<1>1. Typed => TypeOK
  BY DEF Typed
<1>. QED BY <1>1, TypedAlways, PTL

-----------------------------------------------------------------------------
(* The ledger follows memory: what has landed, and the lines still kept, one *)
(* after the other, rebuild what memory held before and after each of them.  *)

FlatIn(S) == \A k \in S : \A p, q \in Above(k) \intersect S : p = q

\* What a replay has rebuilt when memory held this: the same scopes and limits,
\* nothing used that was not used, and on a flat tree exactly the same.
Mirrors(rebuilt, held) ==
  /\ DOMAIN rebuilt = DOMAIN held
  /\ \A k \in DOMAIN held : rebuilt[k].limit = held[k].limit /\ rebuilt[k].used <= held[k].used
  /\ FlatIn(DOMAIN held) => rebuilt = held

\* What memory held after the first n lines of the buffer.
Held(lines, budgets, n) == IF n < Len(lines) THEN lines[n + 1].before ELSE budgets

Advances(line, after) ==
  \A rebuilt : IsBudgets(rebuilt) /\ Mirrors(rebuilt, line.before)
                 => Mirrors(Replayed(line, rebuilt), after)

Follows(lines, budgets, rebuilt, n) ==
  /\ Mirrors(rebuilt, Held(lines, budgets, n))
  /\ \A i \in 1..Len(lines) : Advances(lines[i], Held(lines, budgets, i))

Faithful == ~twice => Follows(kept, scopes, disk, landed)

LEMMA MirrorsItself ==
  ASSUME NEW budgets, IsBudgets(budgets)
  PROVE  Mirrors(budgets, budgets)
<1>1. ASSUME NEW k \in DOMAIN budgets PROVE budgets[k].used <= budgets[k].used
  <2>1. budgets[k].used \in Nat
    BY DEF IsBudgets
  <2>. QED BY <2>1
<1>. QED BY <1>1 DEF Mirrors

\* One more line in the buffer.
LEMMA Appended ==
  ASSUME NEW lines \in Seq(Lines), NEW line \in Lines, NEW after, NEW rebuilt,
         Follows(lines, line.before, rebuilt, 0), Advances(line, after)
  PROVE  Follows(Append(lines, line), after, rebuilt, 0)
<1>. DEFINE more == Append(lines, line)
<1>1. /\ Len(more) = Len(lines) + 1 /\ Len(lines) \in Nat /\ more[Len(lines) + 1] = line
      /\ \A i \in 1..Len(lines) : more[i] = lines[i]
  OBVIOUS
<1>. HIDE DEF more
<1>2. ASSUME NEW i \in 0..Len(lines)
      PROVE  Held(more, after, i) = Held(lines, line.before, i)
  <2>1. CASE i < Len(lines)
    BY <1>1, <1>2, <2>1 DEF Held
  <2>2. CASE i = Len(lines)
    BY <1>1, <2>2 DEF Held
  <2>. QED BY <1>1, <1>2, <2>1, <2>2
<1>3. Held(more, after, Len(lines) + 1) = after
  BY <1>1 DEF Held
<1>4. ASSUME NEW i \in 1..Len(more)
      PROVE  Advances(more[i], Held(more, after, i))
  <2>1. CASE i = Len(lines) + 1
    BY <1>1, <1>3, <2>1
  <2>2. CASE i # Len(lines) + 1
    <3>1. i \in 1..Len(lines) /\ more[i] = lines[i] /\ Held(more, after, i) = Held(lines, line.before, i)
      BY <1>1, <1>2, <1>4, <2>2
    <3>. QED BY <3>1 DEF Follows
  <2>. QED BY <2>1, <2>2
<1>5. Mirrors(rebuilt, Held(more, after, 0))
  BY <1>1, <1>2 DEF Follows
<1>. QED BY <1>4, <1>5 DEF Follows, more

\* One more line has landed.
LEMMA Landed ==
  ASSUME NEW lines \in Seq(Lines), NEW budgets, NEW rebuilt, IsBudgets(rebuilt), NEW n \in Nat,
         n < Len(lines), Follows(lines, budgets, rebuilt, n)
  PROVE  /\ Follows(lines, budgets, Replayed(lines[n + 1], rebuilt), n + 1)
         /\ n + 1 = Len(lines) => Follows(<<>>, budgets, Replayed(lines[n + 1], rebuilt), 0)
<1>1. n + 1 \in 1..Len(lines) /\ Len(lines) \in Nat
  OBVIOUS
<1>2. Mirrors(rebuilt, lines[n + 1].before)
  BY DEF Follows, Held
<1>3. Mirrors(Replayed(lines[n + 1], rebuilt), Held(lines, budgets, n + 1))
  BY <1>1, <1>2 DEF Follows, Advances
<1>4. n + 1 = Len(lines) => Held(lines, budgets, n + 1) = budgets
  BY <1>1 DEF Held
<1>5. Held(<<>>, budgets, 0) = budgets /\ Len(<<>>) = 0
  BY DEF Held
<1>. QED BY <1>1, <1>3, <1>4, <1>5 DEF Follows

\* The line of an allocation.
LEMMA AllocationAdvances ==
  ASSUME NEW line \in Lines, line.event = "BUDGET_ALLOCATE",
         IsBudgets(line.before)
  PROVE  Advances(line, Allocated(line.before, line.key, line.limit, line.turns))
<1>. DEFINE held == line.before
            After(budgets) == Allocated(budgets, line.key, line.limit, line.turns)
<1>1. line.limit \in Nat
  BY BudgetAssumption DEF Lines
<1>2. ASSUME NEW rebuilt, IsBudgets(rebuilt), Mirrors(rebuilt, held)
      PROVE  Mirrors(After(rebuilt), After(held))
  <2>1. DOMAIN After(rebuilt) = DOMAIN After(held) /\ DOMAIN After(held) = DOMAIN held \union {line.key}
    BY <1>2 DEF Mirrors, Allocated
  <2>2. FlatIn(DOMAIN After(held)) => FlatIn(DOMAIN held)
    BY <2>1 DEF FlatIn
  <2>3. ASSUME NEW k \in DOMAIN After(held)
        PROVE  After(rebuilt)[k].limit = After(held)[k].limit
               /\ After(rebuilt)[k].used <= After(held)[k].used
    <3>1. CASE k = line.key
      BY <2>1, <2>3, <3>1 DEF Allocated
    <3>2. CASE k # line.key
      <4>1. k \in DOMAIN held /\ After(rebuilt)[k] = rebuilt[k] /\ After(held)[k] = held[k]
        BY <1>2, <2>1, <2>3, <3>2 DEF Allocated, Mirrors
      <4>. QED BY <1>2, <4>1 DEF Mirrors
    <3>. QED BY <3>1, <3>2
  <2>4. FlatIn(DOMAIN held) => After(rebuilt) = After(held)
    BY <1>2 DEF Mirrors
  <2>. QED BY <2>1, <2>2, <2>3, <2>4 DEF Mirrors
<1>. QED BY <1>2 DEF Advances, Replayed

\* The line of a debit, which names a part of the scopes that memory has charged and
\* on a flat tree all of them.
LEMMA DebitAdvances ==
  ASSUME NEW line \in Lines, line.event = "BUDGET_DEBIT", IsBudgets(line.before),
         NEW charged, line.charged \subseteq charged,
         FlatIn(DOMAIN line.before) => line.charged = charged
  PROVE  Advances(line, Charge(line.before, charged, line.usage))
<1>. DEFINE held == line.before
            usage == line.usage
<1>1. usage \in Nat
  BY DEF Lines
<1>2. ASSUME NEW rebuilt, IsBudgets(rebuilt), Mirrors(rebuilt, held)
      PROVE  Mirrors(Charge(rebuilt, line.charged, usage), Charge(held, charged, usage))
  <2>1. /\ DOMAIN Charge(rebuilt, line.charged, usage) = DOMAIN held
        /\ DOMAIN Charge(held, charged, usage) = DOMAIN held
    BY <1>2 DEF Mirrors, Charge
  <2>2. ASSUME NEW k \in DOMAIN held
        PROVE  /\ Charge(rebuilt, line.charged, usage)[k].limit = Charge(held, charged, usage)[k].limit
               /\ Charge(rebuilt, line.charged, usage)[k].used <= Charge(held, charged, usage)[k].used
    <3>1. /\ k \in DOMAIN rebuilt /\ rebuilt[k] \in Budget /\ held[k] \in Budget
          /\ rebuilt[k].limit = held[k].limit /\ rebuilt[k].used <= held[k].used
      BY <1>2, <2>2 DEF Mirrors, IsBudgets
    <3>2. /\ Charge(rebuilt, line.charged, usage)[k].limit = rebuilt[k].limit
          /\ Charge(rebuilt, line.charged, usage)[k].used
               = IF k \in line.charged THEN rebuilt[k].used + usage ELSE rebuilt[k].used
      BY <3>1 DEF Charge
    <3>3. /\ Charge(held, charged, usage)[k].limit = held[k].limit
          /\ Charge(held, charged, usage)[k].used
               = IF k \in charged THEN held[k].used + usage ELSE held[k].used
      BY <2>2, <3>1 DEF Charge
    <3>4. rebuilt[k].used \in Nat /\ held[k].used \in Nat
      BY <3>1
    <3>. QED BY <1>1, <3>1, <3>2, <3>3, <3>4
  <2>3. FlatIn(DOMAIN held) => Charge(rebuilt, line.charged, usage) = Charge(held, charged, usage)
    BY <1>2 DEF Mirrors
  <2>. QED BY <2>1, <2>2, <2>3 DEF Mirrors
<1>3. line.event # "BUDGET_ALLOCATE"
  OBVIOUS
<1>. QED BY <1>2, <1>3 DEF Advances, Replayed

\* What a debit records of what it charges.
LEMMA Recording ==
  ASSUME TypeOK, pending # NoRequest, Candidates(pending.key) # {}
  PROVE  /\ Recorded(pending.key) \subseteq Charged(pending.key)
         /\ FlatIn(DOMAIN scopes) => Recorded(pending.key) = Charged(pending.key)
<1>1. Resolved(pending.key) \in DOMAIN scopes
  BY Pending DEF Candidates
<1>2. Parents(pending.key) \subseteq Keys
  BY DEF Parents, TypeOK, IsBudgets
<1>3. CASE Parents(pending.key) = {}
  BY <1>3 DEF Charged, Recorded
<1>4. CASE Parents(pending.key) # {}
  <2>1. Longest(Parents(pending.key)) \in Parents(pending.key)
    BY <1>2, <1>4, LongestExists
  <2>2. ASSUME FlatIn(DOMAIN scopes)
        PROVE  Parents(pending.key) = {Longest(Parents(pending.key))}
    <3>1. \A p, q \in Parents(pending.key) : p = q
      BY <1>1, <2>2 DEF FlatIn, Parents
    <3>. QED BY <2>1, <3>1
  <2>. QED BY <1>4, <2>1, <2>2 DEF Charged, Recorded
<1>. QED BY <1>3, <1>4

LEMMA FaithfulStep ==
  ASSUME Typed, Faithful, [Next]_vars
  PROVE  Faithful'
<1>. SUFFICES ASSUME ~twice' PROVE Follows(kept, scopes, disk, landed)'
  BY DEF Faithful
<1>0. TypeOK /\ kept \in Seq(Lines) /\ IsBudgets(scopes) /\ IsBudgets(disk) /\ landed \in Nat
  BY DEF Typed, TypeOK
<1>1. ~twice /\ Follows(kept, scopes, disk, landed)
  <2>1. ~twice
    BY <1>0 DEF Next, Allocate, Check, Unchecked, Debit, GiveUp, Land, Raised, Flush, ColdStart,
                Tick, Write, OtherWrite, client, vars, TypeOK
  <2>. QED BY <2>1 DEF Faithful
<1>2. ASSUME NEW key \in Keys, NEW limit \in Limits, NEW turns \in TurnLimits,
             Allocate(key, limit, turns)
      PROVE  Follows(kept, scopes, disk, landed)'
  <2>. DEFINE line == [event |-> "BUDGET_ALLOCATE", key |-> key, limit |-> limit,
                       turns |-> turns, before |-> scopes]
  <2>1. /\ line \in Lines /\ line.event = "BUDGET_ALLOCATE" /\ line.before = scopes
        /\ line.key = key /\ line.limit = limit /\ line.turns = turns
    BY <1>0, BudgetsAre DEF Lines
  <2>2. Write(line) /\ ~flushing /\ scopes' = Allocated(scopes, key, limit, turns)
    BY <1>2 DEF Allocate
  <2>. HIDE DEF line
  <2>3. kept' = Append(kept, line) /\ disk' = disk /\ landed = 0 /\ landed' = 0
    BY <1>0, <2>2 DEF Write, TypeOK
  <2>4. Advances(line, scopes')
    BY <1>0, <2>1, <2>2, AllocationAdvances
  <2>5. Follows(kept, line.before, disk, 0)
    BY <1>1, <2>1, <2>3
  <2>6. Follows(Append(kept, line), scopes', disk, 0)
    BY <1>0, <2>1, <2>4, <2>5, Appended
  <2>. QED BY <2>3, <2>6
<1>3. ASSUME NEW usage \in 0..(pending.tokens + Extra), Debit(usage)
      PROVE  Follows(kept, scopes, disk, landed)'
  <2>. DEFINE line == [event |-> "BUDGET_DEBIT", charged |-> Recorded(pending.key),
                       usage |-> usage, before |-> scopes]
  <2>1. usage \in Nat /\ Recorded(pending.key) \subseteq Keys
    <3>1. /\ pending.key \in Keys /\ pending.tokens \in Requests
          /\ Resolved(pending.key) \in Keys /\ Parents(pending.key) \subseteq Keys
      BY <1>0, <1>3, Pending DEF Debit, Parents, IsBudgets
    <3>2. Recorded(pending.key) \subseteq Keys
      BY <3>1, LongestExists DEF Recorded
    <3>. QED BY <3>1, <3>2, BudgetAssumption
  <2>2. /\ line \in Lines /\ line.event = "BUDGET_DEBIT" /\ line.before = scopes
        /\ line.charged = Recorded(pending.key) /\ line.usage = usage
    BY <1>0, <2>1, BudgetsAre DEF Lines
  <2>3. Write(line) /\ ~flushing /\ scopes' = Charge(scopes, Charged(pending.key), usage)
    BY <1>3 DEF Debit
  <2>. HIDE DEF line
  <2>4. kept' = Append(kept, line) /\ disk' = disk /\ landed = 0 /\ landed' = 0
    BY <1>0, <2>3 DEF Write, TypeOK
  <2>5. /\ line.charged \subseteq Charged(pending.key)
        /\ FlatIn(DOMAIN line.before) => line.charged = Charged(pending.key)
    BY <1>0, <1>3, <2>2, Recording DEF Debit
  <2>6. Advances(line, scopes')
    BY <1>0, <2>2, <2>3, <2>5, DebitAdvances
  <2>7. Follows(kept, line.before, disk, 0)
    BY <1>1, <2>2, <2>4
  <2>8. Follows(Append(kept, line), scopes', disk, 0)
    BY <1>0, <2>2, <2>6, <2>7, Appended
  <2>. QED BY <2>4, <2>8
<1>4. CASE Land
  <2>1. landed < Len(kept) /\ disk' = Replayed(kept[landed + 1], disk) /\ scopes' = scopes
    BY <1>0, <1>4 DEF Land, memory, TypeOK
  <2>2. \/ kept' = kept /\ landed' = landed + 1
        \/ kept' = <<>> /\ landed' = 0 /\ landed + 1 = Len(kept)
    <3>1. CASE landed + 1 < Len(kept)
      BY <1>4, <3>1 DEF Land
    <3>2. CASE ~(landed + 1 < Len(kept))
      <4>1. landed' = 0 /\ kept' = <<>>
        BY <1>4, <3>2 DEF Land, FlushEnds
      <4>. QED BY <1>0, <2>1, <3>2, <4>1
    <3>. QED BY <3>1, <3>2
  <2>3. /\ Follows(kept, scopes, disk', landed + 1)
        /\ landed + 1 = Len(kept) => Follows(<<>>, scopes, disk', 0)
    BY <1>0, <1>1, <2>1, Landed
  <2>. QED BY <2>1, <2>2, <2>3
<1>5. ASSUME NEW one \in BOOLEAN, Raised(one)
      PROVE  Follows(kept, scopes, disk, landed)'
  <2>1. landed = 0 /\ landed' = 0 /\ UNCHANGED <<kept, scopes, disk>>
    <3>1. ~one /\ ~(landed > 0)
      BY ZenonT(20), <1>5 DEF Raised
    <3>2. landed' = 0 /\ UNCHANGED <<kept, scopes>> /\ disk' = IF one THEN Replayed(kept[landed + 1], disk) ELSE disk
      BY <1>5 DEF Raised, FlushEnds, memory
    <3>. QED BY <1>0, <3>1, <3>2
  <2>. QED BY <1>1, <2>1
<1>6. CASE ColdStart
  <2>1. kept' = <<>> /\ landed' = 0 /\ scopes' = disk /\ disk' = disk
    BY <1>6 DEF ColdStart, FlushEnds
  <2>2. Held(<<>>, disk, 0) = disk /\ Len(<<>>) = 0
    BY DEF Held
  <2>3. Follows(<<>>, disk, disk, 0)
    BY <1>0, <2>2, MirrorsItself DEF Follows
  <2>. QED BY <2>1, <2>3
<1>7. ASSUME \/ \E key \in Keys, tokens \in Requests : Check(key, tokens) \/ Unchecked(key, tokens)
             \/ GiveUp \/ Flush \/ Tick \/ UNCHANGED vars
      PROVE  Follows(kept, scopes, disk, landed)'
  <2>1. UNCHANGED <<kept, scopes, disk, landed>>
    BY <1>7 DEF Check, Unchecked, GiveUp, Flush, OtherWrite, Tick, vars, memory, client
  <2>. QED BY <1>1, <2>1
<1>. QED BY <1>2, <1>3, <1>4, <1>5, <1>6, <1>7 DEF Next

LEMMA FaithfulInit ==
  ASSUME Init
  PROVE  Faithful
<1>1. kept = <<>> /\ landed = 0 /\ scopes = disk /\ IsBudgets(disk)
  BY DEF Init, Empty, IsBudgets
<1>2. Held(<<>>, disk, 0) = disk /\ Len(<<>>) = 0
  BY DEF Held
<1>. QED BY <1>1, <1>2, MirrorsItself DEF Follows, Faithful

\* Through any number of allocations, debits, refused writes and cold starts, the
\* ledger rebuilds the budgets of the running budgeter.
THEOREM ReplayIsExact == Spec => []ReplayMatches
<1>1. Typed /\ Faithful => ReplayMatches
  <2>. SUFFICES ASSUME Typed, Faithful, kept = <<>>, ~twice, Flat PROVE disk = scopes
    BY DEF ReplayMatches
  <2>1. landed = 0 /\ Len(kept) = 0
    BY DEF Typed, TypeOK
  <2>2. Mirrors(disk, scopes)
    BY <2>1 DEF Faithful, Follows, Held
  <2>. QED BY <2>2 DEF Mirrors, FlatIn, Flat
<1>. QED BY TypedAlways, FaithfulInit, FaithfulStep, <1>1, PTL DEF Spec

-----------------------------------------------------------------------------
(* No scope is overspent by calls whose checks have passed, as long as no    *)
(* line is there twice and no check asks for nothing: such a check passes    *)
(* whatever is left.                                                         *)

Asking == 0 \notin Requests

Within(budgets) == \A k \in DOMAIN budgets \ waived : budgets[k].used <= budgets[k].limit + Extra

\* Memory is within its limits now and was before each line that is kept, and the
\* request under way fits into every scope it will be charged to.
Affordable ==
  ~twice =>
    /\ \A n \in 0..Len(kept) : Within(Held(kept, scopes, n))
    /\ pending.granted =>
         \A k \in Charged(pending.key) : scopes[k].used + pending.tokens <= scopes[k].limit

\* A check covers every scope that the debit will charge.
LEMMA CheckCoversCharged ==
  ASSUME Asking, TypeOK, NEW key \in Keys, NEW tokens \in Requests, Allowed(key, tokens),
         NEW k \in Charged(key)
  PROVE  k \in DOMAIN scopes /\ scopes[k].used + tokens <= scopes[k].limit
<1>1. Candidates(key) \subseteq Keys /\ Candidates(key) # {}
  BY DEF Allowed, Candidates, TypeOK, IsBudgets
<1>2. Resolved(key) \in Candidates(key)
  BY <1>1, LongestExists DEF Resolved
<1>3. key \in Seq(STRING)
  BY BudgetAssumption
<1>4. Above(Resolved(key)) \subseteq Above(key)
  BY <1>2, <1>3, AboveAbove DEF Candidates
<1>5. k \in DOMAIN scopes /\ ~Exceeds(tokens, scopes[k])
  BY <1>2, <1>4 DEF Charged, Parents, Candidates, Allowed, HierarchyDenied
<1>6. scopes[k] \in Budget /\ tokens \in Nat /\ tokens > 0
  BY <1>5, BudgetAssumption DEF TypeOK, Asking, IsBudgets
<1>. QED BY <1>5, <1>6 DEF Exceeds, Remaining

\* What memory held along the buffer, before and after one more line.
LEMMA HeldAppended ==
  ASSUME NEW lines \in Seq(Lines), NEW line \in Lines, NEW after,
         NEW n \in 0..Len(Append(lines, line))
  PROVE  \/ Held(Append(lines, line), after, n) = after
         \/ n \in 0..Len(lines) /\ Held(Append(lines, line), after, n) = Held(lines, line.before, n)
<1>. DEFINE more == Append(lines, line)
<1>1. /\ Len(more) = Len(lines) + 1 /\ Len(lines) \in Nat /\ more[Len(lines) + 1] = line
      /\ \A i \in 1..Len(lines) : more[i] = lines[i]
  OBVIOUS
<1>2. n \in 0..Len(lines) \/ n = Len(lines) + 1
  BY <1>1
<1>. HIDE DEF more
<1>3. CASE n = Len(lines) + 1
  BY <1>1, <1>3 DEF Held, more
<1>4. CASE n \in 0..Len(lines)
  <2>1. CASE n < Len(lines)
    BY <1>1, <1>4, <2>1 DEF Held, more
  <2>2. CASE n = Len(lines)
    BY <1>1, <2>2 DEF Held, more
  <2>. QED BY <1>1, <1>4, <2>1, <2>2
<1>. QED BY <1>2, <1>3, <1>4

\* A budget that another mirrors is within its limits if that one is.
LEMMA MirrorWithin ==
  ASSUME NEW rebuilt, NEW held, IsBudgets(rebuilt), IsBudgets(held), Mirrors(rebuilt, held),
         Within(held)
  PROVE  Within(rebuilt)
<1>. SUFFICES ASSUME NEW k \in DOMAIN rebuilt \ waived
              PROVE  rebuilt[k].used <= rebuilt[k].limit + Extra
  BY DEF Within
<1>1. /\ k \in DOMAIN held /\ rebuilt[k].limit = held[k].limit /\ rebuilt[k].used <= held[k].used
      /\ held[k].used <= held[k].limit + Extra
  BY DEF Mirrors, Within
<1>2. /\ rebuilt[k].used \in Nat /\ held[k].used \in Nat /\ held[k].limit \in Nat /\ Extra \in Nat
  BY <1>1, BudgetAssumption DEF IsBudgets
<1>. QED BY <1>1, <1>2

LEMMA AffordableStep ==
  ASSUME Asking, Typed, Faithful, Affordable, [Next]_vars
  PROVE  Affordable'
<1>. SUFFICES ASSUME ~twice'
              PROVE  /\ \A n \in 0..Len(kept') : Within(Held(kept, scopes, n))'
                     /\ pending'.granted =>
                          (\A k \in Charged(pending.key) :
                             scopes[k].used + pending.tokens <= scopes[k].limit)'
  BY DEF Affordable
<1>0. /\ TypeOK /\ kept \in Seq(Lines) /\ IsBudgets(scopes) /\ IsBudgets(disk) /\ landed \in Nat
      /\ Extra \in Nat /\ Len(kept) \in Nat
  BY BudgetAssumption DEF Typed, TypeOK
<1>1. /\ ~twice /\ Mirrors(disk, Held(kept, scopes, landed))
      /\ \A n \in 0..Len(kept) : Within(Held(kept, scopes, n))
      /\ pending.granted =>
           \A k \in Charged(pending.key) : scopes[k].used + pending.tokens <= scopes[k].limit
  <2>1. ~twice
    BY <1>0 DEF Next, Allocate, Check, Unchecked, Debit, GiveUp, Land, Raised, Flush, ColdStart,
                Tick, Write, OtherWrite, client, vars, TypeOK
  <2>. QED BY <2>1 DEF Faithful, Follows, Affordable
<1>2. Within(scopes)
  <2>1. Len(kept) \in 0..Len(kept) /\ Held(kept, scopes, Len(kept)) = scopes
    BY <1>0 DEF Held
  <2>. QED BY <1>1, <2>1
<1>3. ~NoRequest.granted
  BY DEF NoRequest
<1>4. ASSUME NEW key \in Keys, NEW limit \in Limits, NEW turns \in TurnLimits,
             Allocate(key, limit, turns)
      PROVE  /\ \A n \in 0..Len(kept') : Within(Held(kept, scopes, n))'
             /\ ~pending'.granted
  <2>. DEFINE line == [event |-> "BUDGET_ALLOCATE", key |-> key, limit |-> limit,
                       turns |-> turns, before |-> scopes]
  <2>1. line \in Lines /\ line.before = scopes
    BY <1>0, BudgetsAre DEF Lines
  <2>2. /\ Write(line) /\ scopes' = Allocated(scopes, key, limit, turns)
        /\ pending' = NoRequest /\ waived' = waived
    BY <1>4 DEF Allocate
  <2>. HIDE DEF line
  <2>3. kept' = Append(kept, line)
    BY <2>2 DEF Write
  <2>4. Within(scopes')
    <3>. SUFFICES ASSUME NEW k \in DOMAIN scopes' \ waived
                  PROVE  scopes'[k].used <= scopes'[k].limit + Extra
      BY DEF Within
    <3>1. CASE k = key
      BY <1>0, <2>2, <3>1, BudgetAssumption DEF Allocated
    <3>2. CASE k # key
      BY <1>2, <2>2, <3>2 DEF Allocated, Within
    <3>. QED BY <3>1, <3>2
  <2>5. ASSUME NEW n \in 0..Len(kept') PROVE Within(Held(kept', scopes', n))
    <3>1. Held(kept', scopes', n) = scopes' \/ (n \in 0..Len(kept) /\ Held(kept', scopes', n) = Held(kept, scopes, n))
      BY <1>0, <2>1, <2>3, <2>5, HeldAppended
    <3>. QED BY <1>1, <2>4, <3>1
  <2>6. \A n \in 0..Len(kept') : Within(Held(kept, scopes, n))'
    BY <2>2, <2>5 DEF Within, Held
  <2>. QED BY <1>3, <2>2, <2>6
<1>5. ASSUME NEW usage \in 0..(pending.tokens + Extra), Debit(usage)
      PROVE  /\ \A n \in 0..Len(kept') : Within(Held(kept, scopes, n))'
             /\ ~pending'.granted
  <2>. DEFINE line == [event |-> "BUDGET_DEBIT", charged |-> Recorded(pending.key),
                       usage |-> usage, before |-> scopes]
  <2>1. /\ Recorded(pending.key) \subseteq Keys /\ pending.tokens \in Nat /\ usage \in Nat
        /\ usage <= pending.tokens + Extra
    <3>1. /\ pending.key \in Keys /\ pending.tokens \in Requests
          /\ Resolved(pending.key) \in Keys /\ Parents(pending.key) \subseteq Keys
      BY <1>0, <1>5, Pending DEF Debit, Parents, IsBudgets
    <3>2. Recorded(pending.key) \subseteq Keys
      BY <3>1, LongestExists DEF Recorded
    <3>3. pending.tokens \in Nat
      BY <3>1, BudgetAssumption
    <3>. QED BY <1>0, <3>2, <3>3
  <2>2. line \in Lines /\ line.before = scopes
    BY <1>0, <2>1, BudgetsAre DEF Lines
  <2>3. /\ Write(line) /\ scopes' = Charge(scopes, Charged(pending.key), usage)
        /\ pending' = NoRequest
        /\ waived' = IF pending.granted THEN waived ELSE waived \union Charged(pending.key)
    BY <1>5 DEF Debit
  <2>. HIDE DEF line
  <2>4. kept' = Append(kept, line)
    BY <2>3 DEF Write
  <2>5. ASSUME NEW k \in DOMAIN scopes' \ waived'
        PROVE  scopes'[k].used <= scopes'[k].limit + Extra
    <3>1. k \in DOMAIN scopes /\ k \notin waived /\ scopes[k] \in Budget
      BY <1>0, <2>3, <2>5 DEF Charge, IsBudgets
    <3>2. scopes[k].used \in Nat /\ scopes[k].limit \in Nat /\ scopes[k].used <= scopes[k].limit + Extra
      BY <1>2, <3>1 DEF Within
    <3>3. CASE k \in Charged(pending.key)
      <4>1. pending.granted
        BY <2>3, <2>5, <3>3
      <4>2. scopes[k].used + pending.tokens <= scopes[k].limit
        BY <1>1, <3>3, <4>1
      <4>3. scopes'[k].limit = scopes[k].limit /\ scopes'[k].used = scopes[k].used + usage
        BY <2>3, <3>1, <3>3 DEF Charge
      <4>. QED BY <1>0, <2>1, <3>2, <4>2, <4>3
    <3>4. CASE k \notin Charged(pending.key)
      <4>1. scopes'[k] = scopes[k]
        BY <2>3, <3>1, <3>4 DEF Charge
      <4>. QED BY <3>2, <4>1
    <3>. QED BY <3>3, <3>4
  <2>6. ASSUME NEW n \in 0..Len(kept'), NEW k \in DOMAIN Held(kept', scopes', n) \ waived'
        PROVE  Held(kept', scopes', n)[k].used <= Held(kept', scopes', n)[k].limit + Extra
    <3>1. Held(kept', scopes', n) = scopes' \/ (n \in 0..Len(kept) /\ Held(kept', scopes', n) = Held(kept, scopes, n))
      BY <1>0, <2>2, <2>4, <2>6, HeldAppended
    <3>2. k \notin waived
      BY <2>3, <2>6
    <3>. QED BY <1>1, <2>5, <2>6, <3>1, <3>2 DEF Within
  <2>7. \A n \in 0..Len(kept') : Within(Held(kept, scopes, n))'
    BY <2>6 DEF Within, Held
  <2>. QED BY <1>3, <2>3, <2>7
<1>6. ASSUME NEW key \in Keys, NEW tokens \in Requests,
             Check(key, tokens) \/ Unchecked(key, tokens)
      PROVE  /\ UNCHANGED <<kept, scopes, waived>>
             /\ pending'.granted =>
                  (\A k \in Charged(pending.key) :
                     scopes[k].used + pending.tokens <= scopes[k].limit)'
  <2>1. UNCHANGED <<kept, scopes, waived>>
    BY <1>6 DEF Check, Unchecked, OtherWrite, memory, client
  <2>2. ASSUME pending'.granted
        PROVE  Allowed(key, tokens) /\ pending'.key = key /\ pending'.tokens = tokens
    BY <1>3, <1>6, <2>2 DEF Check, Unchecked, Goes, Allowed
  <2>3. ASSUME pending'.granted
        PROVE  \A k \in Charged(key) : scopes[k].used + tokens <= scopes[k].limit
    BY <1>0, <2>2, <2>3, CheckCoversCharged
  <2>4. ASSUME pending'.granted
        PROVE  Charged(pending.key)' = Charged(key)
    BY <2>1, <2>2, <2>4 DEF Charged, Parents, Resolved, Candidates
  <2>. QED BY <2>1, <2>2, <2>3, <2>4
<1>7. ASSUME GiveUp \/ Flush \/ Tick \/ UNCHANGED vars \/ \E one \in BOOLEAN : Raised(one)
      PROVE  /\ UNCHANGED <<kept, scopes, waived>>
             /\ pending' = pending \/ pending' = NoRequest
  BY <1>7 DEF GiveUp, Flush, OtherWrite, Tick, vars, memory, client, Raised
<1>8. ASSUME Land
      PROVE  /\ UNCHANGED <<scopes, waived, pending>>
             /\ kept' = kept \/ kept' = <<>>
  BY <1>8 DEF Land, memory
<1>9. ASSUME ColdStart
      PROVE  /\ \A n \in 0..Len(kept') : Within(Held(kept, scopes, n))'
             /\ ~pending'.granted
  <2>1. kept' = <<>> /\ scopes' = disk /\ pending' = NoRequest /\ waived' = waived
    BY <1>9 DEF ColdStart
  <2>2. landed \in 0..Len(kept)
    BY <1>0 DEF TypeOK
  <2>3. IsBudgets(Held(kept, scopes, landed))
    <3>1. landed < Len(kept) => landed + 1 \in 1..Len(kept)
      BY <1>0
    <3>. QED BY <1>0, <3>1 DEF Held, TypeOK
  <2>4. Within(disk)
    BY <1>0, <1>1, <2>2, <2>3, MirrorWithin
  <2>5. ASSUME NEW n \in 0..Len(kept') PROVE Held(kept', scopes', n) = disk
    <3>1. ~(n < Len(kept'))
      BY <2>1, <2>5
    <3>. QED BY <2>1, <3>1 DEF Held
  <2>6. \A n \in 0..Len(kept') : Within(Held(kept, scopes, n))'
    BY <2>1, <2>4, <2>5 DEF Within, Held
  <2>. QED BY <1>3, <2>1, <2>6
<1>10. ASSUME UNCHANGED <<scopes, waived>>, kept' = kept \/ kept' = <<>>
       PROVE  \A n \in 0..Len(kept') : Within(Held(kept, scopes, n))'
  <2>1. ASSUME kept' = <<>>, NEW n \in 0..Len(kept') PROVE Held(kept', scopes', n) = scopes
    BY <1>10, <2>1 DEF Held
  <2>2. CASE kept' = <<>>
    BY <1>2, <1>10, <2>1, <2>2 DEF Within, Held
  <2>3. CASE kept' = kept
    BY <1>1, <1>10, <2>3 DEF Within, Held
  <2>. QED BY <1>10, <2>2, <2>3
<1>11. ASSUME UNCHANGED scopes, pending' = pending \/ pending' = NoRequest
       PROVE  pending'.granted =>
                (\A k \in Charged(pending.key) :
                   scopes[k].used + pending.tokens <= scopes[k].limit)'
  <2>1. CASE pending' = NoRequest
    BY <1>3, <2>1
  <2>2. CASE pending' = pending
    BY <1>1, <1>11, <2>2 DEF Charged, Parents, Resolved, Candidates
  <2>. QED BY <1>11, <2>1, <2>2
<1>12. CASE \E key \in Keys, tokens \in Requests : Check(key, tokens) \/ Unchecked(key, tokens)
  BY <1>6, <1>10, <1>12
<1>13. CASE GiveUp \/ Flush \/ Tick \/ UNCHANGED vars \/ \E one \in BOOLEAN : Raised(one)
  BY <1>7, <1>10, <1>11, <1>13
<1>14. CASE Land
  BY <1>8, <1>10, <1>11, <1>14
<1>. QED BY <1>4, <1>5, <1>9, <1>12, <1>13, <1>14 DEF Next

\* No scope is charged beyond its limit by more than what one call may use on top of
\* the tokens it asked for, at any depth of scopes, in any mode of the gateway, and
\* through refused writes and cold starts.
THEOREM BudgetsHold ==
  ASSUME Asking
  PROVE  Spec => []WithinBudget
<1>1. ASSUME Init PROVE Affordable
  <2>1. kept = <<>> /\ DOMAIN scopes = {} /\ ~pending.granted
    BY <1>1 DEF Init, Empty, NoRequest
  <2>2. ASSUME NEW n \in 0..Len(kept) PROVE Held(kept, scopes, n) = scopes
    BY <2>1, <2>2 DEF Held
  <2>. QED BY <2>1, <2>2 DEF Affordable, Within
<1>2. Typed /\ Affordable => WithinBudget
  <2>. SUFFICES ASSUME Typed, Affordable, ~twice PROVE Within(scopes)
    BY DEF WithinBudget, Within
  <2>1. Len(kept) \in 0..Len(kept) /\ Held(kept, scopes, Len(kept)) = scopes
    BY DEF Held, Typed
  <2>. QED BY <2>1 DEF Affordable
<1>3. Typed /\ Faithful /\ Affordable /\ [Next]_vars => Affordable'
  BY AffordableStep
<1>. QED BY TypedAlways, FaithfulInit, FaithfulStep, <1>1, <1>2, <1>3, PTL DEF Spec

-----------------------------------------------------------------------------
(* The rate limit holds where requests are checked and charged at one scope. *)

\* No scope lies in k.
Leaf(k) == \A l \in Keys : k \notin Above(l)

\* Every scope without a scope in it is within its burst, with room for the
\* request under way if that is charged to it.
Room ==
  limited =>
    /\ Burst > 0
    /\ \A k \in DOMAIN scopes \ waived : Leaf(k) =>
         /\ Cardinality(Recent(k)) <= Burst
         /\ pending.granted /\ k \in Charged(pending.key) => Cardinality(Recent(k)) < Burst

\* A scope has had finitely many requests.
Finite == \A k \in Keys : IsFiniteSet(stamps[k])

LEMMA RecentFinite ==
  ASSUME Finite, NEW k \in Keys
  PROVE  IsFiniteSet(Recent(k)) /\ Cardinality(Recent(k)) \in Nat
<1>1. IsFiniteSet(Recent(k))
  BY FS_Subset DEF Finite, Recent
<1>. QED BY <1>1, FS_CardinalityType

LEMMA FiniteStep ==
  ASSUME TypeOK, Finite, [Next]_vars
  PROVE  Finite'
<1>0. DOMAIN stamps = Keys
  BY DEF TypeOK
<1>1. ASSUME NEW key \in Keys, stamps' = [stamps EXCEPT ![key] = {}]
      PROVE  Finite'
  BY <1>0, <1>1, FS_EmptySet DEF Finite
<1>2. ASSUME NEW key \in Keys, NEW tokens \in Requests,
             Check(key, tokens) \/ Unchecked(key, tokens)
      PROVE  Finite'
  <2>1. IsFiniteSet(Recent(key))
    BY RecentFinite
  <2>. QED BY <1>0, <1>2, <2>1 DEF Check, Unchecked, memory, Finite
<1>3. ASSUME NEW usage \in 0..(pending.tokens + Extra), Debit(usage)
      PROVE  Finite'
  <2>. DEFINE stamp == [number |-> debits, time |-> now]
  <2>1. \A k \in Keys : stamps'[k] = stamps[k] \/ stamps'[k] = stamps[k] \union {stamp}
    BY <1>3 DEF Debit
  <2>2. \A k \in Keys : IsFiniteSet(stamps[k] \union {stamp})
    BY FS_AddElement DEF Finite
  <2>. QED BY <2>1, <2>2 DEF Finite
<1>4. CASE ColdStart
  BY <1>4, FS_EmptySet DEF ColdStart, Finite
<1>5. CASE GiveUp \/ Land \/ Flush \/ Tick \/ UNCHANGED vars \/ \E one \in BOOLEAN : Raised(one)
  BY <1>5 DEF GiveUp, Land, Flush, Raised, Tick, vars, memory, Finite
<1>. QED BY <1>1, <1>2, <1>3, <1>4, <1>5 DEF Next, Allocate

\* A call checked at one scope and charged at a leaf was checked at that leaf.
LEMMA LeafCharged ==
  ASSUME TypeOK, NEW key \in Keys, Candidates(key) # {}, NEW k \in Charged(key), Leaf(k)
  PROVE  k = key /\ k \in DOMAIN scopes
<1>1. Resolved(key) \in Candidates(key)
  BY LongestExists DEF Resolved, Candidates, TypeOK, IsBudgets
<1>2. key \in Seq(STRING)
  BY BudgetAssumption
<1>3. Above(Resolved(key)) \subseteq Above(key)
  BY <1>1, <1>2, AboveAbove DEF Candidates
<1>. QED BY <1>1, <1>3 DEF Charged, Parents, Candidates, Leaf

\* A set that loses elements holds no more.
LEMMA Fewer ==
  ASSUME NEW S, NEW T, S \subseteq T, IsFiniteSet(T)
  PROVE  /\ Cardinality(S) \in Nat /\ Cardinality(T) \in Nat
         /\ Cardinality(S) <= Cardinality(T)
BY FS_Subset, FS_CardinalityType

LEMMA RoomStep ==
  ASSUME TypeOK, TypeOK', Finite, Finite', Room, [Next]_vars
  PROVE  Room'
<1>. SUFFICES ASSUME limited' PROVE Room'
  BY DEF Room
<1>0. /\ DOMAIN stamps = Keys /\ DOMAIN scopes \subseteq Keys /\ Burst \in Nat /\ now \in Nat
      /\ Window \in Nat
  BY BudgetAssumption DEF TypeOK, IsBudgets
<1>1. limited /\ Burst > 0
  BY DEF Next, Allocate, Check, Unchecked, Debit, GiveUp, Land, Raised, Flush, ColdStart, Tick,
         memory, vars, Room
<1>2. \A k \in DOMAIN scopes \ waived : Leaf(k) =>
         /\ Cardinality(Recent(k)) <= Burst
         /\ pending.granted /\ k \in Charged(pending.key) => Cardinality(Recent(k)) < Burst
  BY <1>1 DEF Room
<1>3. ASSUME NEW key \in Keys, NEW limit \in Limits, NEW turns \in TurnLimits,
             Allocate(key, limit, turns)
      PROVE  Room'
  <2>1. /\ DOMAIN scopes' = DOMAIN scopes \union {key} /\ pending' = NoRequest /\ now' = now
        /\ waived' = waived /\ ~pending'.granted
        /\ stamps'[key] = {} /\ \A k \in Keys \ {key} : stamps'[k] = stamps[k]
    BY <1>0, <1>3 DEF Allocate, Allocated, NoRequest
  <2>2. Recent(key)' = {}
    BY <2>1 DEF Recent
  <2>3. \A k \in Keys \ {key} : Recent(k)' = Recent(k)
    BY <2>1 DEF Recent
  <2>4. Cardinality({}) = 0
    BY FS_EmptySet
  <2>5. ASSUME NEW k \in DOMAIN scopes' \ waived, Leaf(k)
        PROVE  Cardinality(Recent(k))' <= Burst
    <3>1. CASE k = key
      BY <1>0, <2>2, <2>4, <3>1
    <3>2. CASE k # key
      BY <1>0, <1>2, <2>1, <2>3, <2>5, <3>2
    <3>. QED BY <3>1, <3>2
  <2>. QED BY <1>1, <2>1, <2>5 DEF Room, Leaf
<1>4. ASSUME NEW key \in Keys, NEW tokens \in Requests,
             Check(key, tokens) \/ Unchecked(key, tokens)
      PROVE  Room'
  <2>1. /\ scopes' = scopes /\ now' = now /\ limited' = limited /\ waived' = waived
        /\ stamps' = stamps \/ stamps' = [stamps EXCEPT ![key] = Recent(key)]
        /\ pending'.granted => Allowed(key, tokens) /\ pending'.key = key
    <3>1. /\ scopes' = scopes /\ now' = now /\ limited' = limited /\ waived' = waived
          /\ stamps' = stamps \/ stamps' = [stamps EXCEPT ![key] = Recent(key)]
      BY <1>4 DEF Check, Unchecked, memory
    <3>2. Goes(key, tokens, Allowed(key, tokens)) \/ Goes(key, tokens, FALSE)
      BY <1>4 DEF Check, Unchecked
    <3>3. pending'.granted => Allowed(key, tokens) /\ pending'.key = key
      BY <3>2 DEF Goes, NoRequest
    <3>. QED BY <3>1, <3>3
  <2>2. \A k \in Keys : Recent(k)' = Recent(k)
    <3>1. \A k \in Keys : stamps'[k] = stamps[k] \/ (k = key /\ stamps'[k] = Recent(k))
      BY <1>0, <2>1
    <3>. QED BY <2>1, <3>1 DEF Recent
  <2>3. ASSUME NEW k \in DOMAIN scopes, Leaf(k), pending'.granted, k \in Charged(pending.key)'
        PROVE  Cardinality(Recent(k)) < Burst
    <3>1. Allowed(key, tokens) /\ pending'.key = key
      BY <2>1, <2>3
    <3>2. Charged(pending.key)' = Charged(key)
      BY <2>1, <3>1 DEF Charged, Parents, Resolved, Candidates
    <3>3. k = key /\ k \in DOMAIN scopes
      BY <2>3, <3>1, <3>2, LeafCharged DEF Allowed
    <3>4. ~ RateDenied(key) /\ RateApplies(key)
      BY <1>1, <3>1, <3>3 DEF Allowed, RateApplies
    <3>5. Cardinality(Recent(key)) \in Nat
      BY RecentFinite
    <3>. QED BY <1>0, <3>3, <3>4, <3>5 DEF RateDenied
  <2>. QED BY <1>0, <1>1, <1>2, <2>1, <2>2, <2>3 DEF Room, Leaf
<1>5. ASSUME NEW usage \in 0..(pending.tokens + Extra), Debit(usage)
      PROVE  Room'
  <2>. DEFINE stamp == [number |-> debits, time |-> now]
  <2>1. /\ DOMAIN scopes' = DOMAIN scopes /\ now' = now /\ limited' = limited
        /\ ~pending'.granted
        /\ waived' = IF pending.granted THEN waived ELSE waived \union Charged(pending.key)
        /\ \A k \in Keys : stamps'[k] = IF k \in Charged(pending.key) THEN stamps[k] \union {stamp}
                                        ELSE stamps[k]
    BY <1>5 DEF Debit, Charge, NoRequest
  <2>2. ASSUME NEW k \in DOMAIN scopes \ waived', Leaf(k)
        PROVE  Cardinality(Recent(k))' <= Burst
    <3>1. CASE k \in Charged(pending.key)
      <4>1. Cardinality(Recent(k)) < Burst
        <5>1. pending.granted /\ k \in DOMAIN scopes \ waived
          BY <2>1, <2>2, <3>1
        <5>. QED BY <1>2, <2>2, <3>1, <5>1
      <4>2. Recent(k)' \subseteq Recent(k) \union {stamp}
        BY <1>0, <2>1 DEF Recent
      <4>3. IsFiniteSet(Recent(k)) /\ Cardinality(Recent(k)) \in Nat
        BY <1>0, RecentFinite
      <4>4. /\ IsFiniteSet(Recent(k) \union {stamp})
            /\ \/ Cardinality(Recent(k) \union {stamp}) = Cardinality(Recent(k))
               \/ Cardinality(Recent(k) \union {stamp}) = Cardinality(Recent(k)) + 1
        BY <4>3, FS_AddElement
      <4>5. Cardinality(Recent(k)') <= Cardinality(Recent(k) \union {stamp})
            /\ Cardinality(Recent(k)') \in Nat
        BY <4>2, <4>4, Fewer
      <4>. QED BY <1>0, <4>1, <4>3, <4>4, <4>5
    <3>2. CASE k \notin Charged(pending.key)
      <4>1. Recent(k)' = Recent(k)
        BY <1>0, <2>1, <3>2 DEF Recent
      <4>2. k \in DOMAIN scopes \ waived
        BY <2>1, <2>2
      <4>. QED BY <1>2, <2>2, <4>1, <4>2
    <3>. QED BY <3>1, <3>2
  <2>. QED BY <1>1, <2>1, <2>2 DEF Room, Leaf
<1>6. CASE Tick
  <2>1. /\ UNCHANGED <<scopes, stamps, limited, pending, waived>> /\ now' = now + 1
    BY <1>6 DEF Tick, memory
  <2>2. Charged(pending.key)' = Charged(pending.key)
    BY <2>1 DEF Charged, Parents, Resolved, Candidates
  <2>3. ASSUME NEW k \in Keys
        PROVE  /\ Cardinality(Recent(k))' \in Nat /\ Cardinality(Recent(k)) \in Nat
               /\ Cardinality(Recent(k))' <= Cardinality(Recent(k))
    <3>1. Recent(k)' \subseteq Recent(k)
      <4>1. \A stamp \in stamps[k] : stamp.time \in Nat
        BY <1>0 DEF TypeOK
      <4>. QED BY <1>0, <2>1, <4>1 DEF Recent
    <3>2. IsFiniteSet(Recent(k))
      BY RecentFinite
    <3>. QED BY <3>1, <3>2, Fewer
  <2>. QED BY <1>0, <1>1, <1>2, <2>1, <2>2, <2>3 DEF Room, Leaf
<1>7. CASE ColdStart
  BY <1>7 DEF ColdStart
<1>8. CASE GiveUp \/ Land \/ Flush \/ UNCHANGED vars \/ \E one \in BOOLEAN : Raised(one)
  <2>1. /\ UNCHANGED <<scopes, stamps, limited, now, waived>>
        /\ pending' = pending \/ ~pending'.granted
    <3>1. ~NoRequest.granted
      BY DEF NoRequest
    <3>2. CASE GiveUp \/ Flush \/ UNCHANGED vars
      BY <3>1, <3>2 DEF GiveUp, Flush, vars, memory
    <3>3. CASE Land
      BY <3>3 DEF Land, memory
    <3>4. ASSUME NEW one \in BOOLEAN, Raised(one)
          PROVE  /\ UNCHANGED <<scopes, stamps, limited, now, waived>>
                 /\ pending' = NoRequest
      BY <3>4 DEF Raised, memory
    <3>. QED BY <1>8, <3>1, <3>2, <3>3, <3>4
  <2>. QED BY <1>1, <1>2, <2>1 DEF Room, Leaf, Recent, Charged, Parents, Resolved, Candidates
<1>. QED BY <1>3, <1>4, <1>5, <1>6, <1>7, <1>8 DEF Next

\* Until a cold start, a scope with no scope in it makes no more requests than the
\* burst in any window, for every window, burst, number of scopes and mode of the
\* gateway, if each call charged to it had passed its check: such checks and the
\* debits that follow alternate, whatever time lies between the two.
THEOREM RateHolds == Spec => []RateRespected
<1>1. ASSUME Init
      PROVE  Finite /\ Room
  <2>1. \A k \in Keys : stamps[k] = {}
    BY <1>1 DEF Init
  <2>2. DOMAIN scopes = {} /\ (limited => Burst > 0)
    BY <1>1 DEF Init, Empty
  <2>. QED BY <2>1, <2>2, FS_EmptySet DEF Finite, Room
<1>2. ASSUME TypeOK, TypeOK', Finite /\ Room, [Next]_vars
      PROVE  (Finite /\ Room)'
  <2>1. Finite'
    BY <1>2, FiniteStep
  <2>. QED BY <1>2, <2>1, RoomStep
<1>3. ASSUME Room
      PROVE  RateRespected
  BY <1>3 DEF Room, Leaf, RateRespected
<1>. QED BY TypeCorrect, <1>1, <1>2, <1>3, PTL DEF Spec
=============================================================================
