------------------------- MODULE VerificationProofs -------------------------
(***************************************************************************)
(* Proofs about Verification, for every set of modules, command lines and  *)
(* planes and for any number of changes of the plane during a check: its   *)
(* types, that a success is earned, and that the exit code of verify.py    *)
(* agrees with its report.                                                 *)
(***************************************************************************)
EXTENDS Verification, SequenceTheorems, FiniteSetTheorems, TLAPS

AfterStart == {"tests", "imports", "e2e", "report", "exit"}
Judging == pc \in AfterStart \/ (pc = "done" /\ exit = 0)
Levels == {"tests", "imports", "e2e"}
ChildType == [state : {"none", "running", "ended"}, cmd : Commands \cup {AsAll},
              list : Seq(GateNames), done : Lines, lines : Lines]

Typed == TypeOK /\ child \in ChildType

\* What is right now has been right at some moment since the check began.
Watched == pc # "idle" => /\ Defects \ plane \subseteq absent
                          /\ "validator" \in plane => waived

Place ==
  /\ pc = "idle" => /\ child = NoChild /\ gates = <<>> /\ imported = {}
                    /\ \A l \in Levels : level[l] = "SKIPPED"
  /\ pc = "wait" => who # "verify"
  /\ pc \in AfterStart \cup {"validate", "gates"} => who = "verify"
  /\ child.state = "running" => pc \in {"wait", "gates"}

\* The gates of the command line are those done, in order, and those still to do,
\* unless one of those done has failed.
CoverOf(all, done, list) ==
  \/ \E i \in DOMAIN done : done[i].result = "FAIL"
  \/ /\ Len(all) = Len(done) + Len(list)
     /\ \A k \in 1..Len(done) : done[k].gate = all[k]
     /\ \A k \in 1..Len(list) : list[k] = all[Len(done) + k]
Covered == CoverOf(child.cmd.list, child.done, child.list)

Printing ==
  /\ child.state = "running" => child.lines = <<>> /\ Covered
  /\ child.lines # <<>> => child.lines = child.done /\ child.list = <<>> /\ Covered

\* A gate that has passed has read what it vouches for when it was right.
Looked == \A i \in DOMAIN child.done :
            child.done[i].result = "PASS" => VouchedBy(child.done[i].gate) \subseteq absent

Levelled ==
  /\ level["tests"] = "PASS" => "tests" \in absent
  /\ level["imports"] # "FAIL" => imported \subseteq absent
  /\ level["e2e"] = "PASS" => "main" \in absent

\* No level that was asked for is left out.
Reached ==
  Judging /\ who = "verify" /\ ~opts.gatesOnly =>
    /\ pc # "tests" => level["tests"] # "SKIPPED"
    /\ pc \notin {"tests", "imports"} => imported = Modules
    /\ pc \notin {"tests", "imports", "e2e"} /\ opts.e2e /\ opts.key => level["e2e"] # "SKIPPED"

Judged == Judging /\ who = "verify" /\ Passed(gates) => gates = child.lines

Verdict ==
  pc = "done" /\ exit = 0 =>
    /\ Passed(child.lines)
    /\ who = "verify" => \A l \in Levels : level[l] # "FAIL"

Reported ==
  who = "verify" /\ (pc = "exit" \/ (pc = "done" /\ exit \in {0, 1})) =>
    /\ report = "PASS" <=> GatesStatus = "PASS" /\ \A l \in Levels : level[l] # "FAIL"
    /\ pc = "done" => exit = ExitCode

Earned == Watched /\ Place /\ Printing /\ Looked /\ Levelled /\ Reached /\ Judged /\ Verdict
Inv == Typed /\ Earned /\ Reported

-----------------------------------------------------------------------------
\* A command line is a list of gates and the rest.
LEMMA CommandType ==
  /\ AsAll.list \in Seq(GateNames)
  /\ \A c \in Commands \cup {AsAll} : c.list \in Seq(GateNames)
<1>1. AllGates \in Seq(GateNames)
  BY DEF AllGates, GateNames
<1>. QED BY <1>1, VerificationAssumption DEF AsAll

LEMMA Finding == \A d : Finds(d) \in Outcomes /\ (Finds(d) = "PASS" => d \notin plane)
BY DEF Finds, Outcomes

\* run_gates() answers every name, and a gate that passes has found what it
\* vouches for to be right.
LEMMA Outcoming ==
  ASSUME Typed, Watched, pc # "idle", NEW g \in GateNames
  PROVE  /\ Outcome(g) \in Outcomes \cup {"raise"}
         /\ Outcome(g) = "PASS" => VouchedBy(g) \subseteq absent
<1>0. \A d \in Defects : d \notin plane => d \in absent
  BY DEF Watched
<1>1. {"config", "files", "manifest", "chain", "wiring", "ledger"} \subseteq Defects
  BY DEF Defects
<1>2. CASE g \in {"G0", "G0B"}
  BY <1>0, <1>1, <1>2, Finding DEF Outcome, PlaneOwnership, RootsKnown, VouchedBy, Outcomes
<1>3. CASE g = "G1"
  BY <1>0, <1>1, <1>3, Finding DEF Outcome, Chain, VouchedBy, Outcomes
<1>4. CASE g = "G1-COMPLETE"
  BY <1>0, <1>1, <1>4, Finding DEF Outcome, Completeness, VouchedBy, Outcomes, Watched
<1>5. CASE g = "G6"
  BY <1>0, <1>1, <1>5 DEF Outcome, LedgerGate, VouchedBy, Outcomes
<1>6. CASE g \notin {"G0", "G0B", "G1", "G1-COMPLETE", "G6"}
  BY <1>6 DEF Outcome, PackageDeclaration, WorkOrderGate, Constraints, Acceptance, Signature,
     VouchedBy, Outcomes
<1>. QED BY <1>2, <1>3, <1>4, <1>5, <1>6

\* What may change while a check is on its way, but for what RunGate does.
LEMMA Growth ==
  ASSUME Typed, Watched, absent \subseteq absent', waived => waived',
         NEW g
  PROVE  VouchedBy(g) \subseteq absent => VouchedBy(g)' \subseteq absent'
BY DEF VouchedBy, Typed, TypeOK

-----------------------------------------------------------------------------
LEMMA InitInv == Init => Inv
<1> SUFFICES ASSUME Init PROVE Inv
  OBVIOUS
<1>0. /\ plane \subseteq Defects /\ absent = {} /\ waived = FALSE /\ pc = "idle" /\ who = "hand"
      /\ opts = NoOptions /\ child = NoChild /\ gates = <<>> /\ imported = {}
      /\ level = [l \in Levels |-> "SKIPPED"] /\ report = "SKIPPED" /\ exit = NoCode /\ changes = 0
  BY PlanesAssumption DEF Init, Levels
<1>1. NoChild \in ChildType
  BY CommandType DEF NoChild, ChildType, Lines
<1>2. Typed
  <2>1. opts \in Options
    BY <1>0 DEF NoOptions, Options
  <2>2. gates \in Lines /\ child.lines \in Lines /\ child.done \in Lines
    BY <1>0, <1>1 DEF ChildType, Lines
  <2>3. /\ level \in [Levels -> Status] /\ who \in Callers /\ report \in Status
        /\ exit \in {NoCode, 0, 1, 2, 3} /\ changes \in 0..MaxChanges
    BY <1>0, VerificationAssumption DEF Status, Callers, Levels
  <2>. QED BY <1>0, <1>1, <2>1, <2>2, <2>3 DEF Typed, TypeOK, Levels
<1>3. Earned
  <2>1. child.state = "none" /\ child.done = <<>> /\ child.lines = <<>>
    BY <1>0 DEF NoChild
  <2>. QED
    BY <1>0, <2>1 DEF Earned, Watched, Place, Printing, Looked, Levelled, Reached, Judged, Verdict,
       Judging, AfterStart, Levels
<1>4. Reported
  BY <1>0 DEF Reported
<1>. QED BY <1>2, <1>3, <1>4 DEF Inv

-----------------------------------------------------------------------------
(* Types                                                                    *)

LEMMA SpawnType ==
  ASSUME NEW c \in Commands \cup {AsAll}, Spawn(c)
  PROVE  /\ child' \in ChildType
         /\ child' = [state |-> "running", cmd |-> c, list |-> c.list, done |-> <<>>, lines |-> <<>>]
<1>1. child' = [state |-> "running", cmd |-> c, list |-> c.list, done |-> <<>>, lines |-> <<>>]
  BY DEF Spawn, NoChild
<1>. QED BY <1>1, CommandType DEF ChildType, Lines

LEMMA RunGateChild ==
  ASSUME Typed, RunGate
  PROVE  \/ child' = [child EXCEPT !.state = "ended", !.list = <<>>]
         \/ \E r \in Outcomes :
              /\ Outcome(Head(child.list)) = r
              /\ child' = [child EXCEPT
                            !.done = Append(@, [gate |-> Head(child.list), result |-> r]),
                            !.list = IF r = "FAIL" /\ child.cmd.enforce THEN <<>> ELSE Tail(@)]
<1>0. Head(child.list) \in GateNames
  BY DEF RunGate, Typed, ChildType
<1>1. Outcome(Head(child.list)) \in Outcomes \cup {"raise"}
  BY <1>0, Finding DEF Outcome, PlaneOwnership, PackageDeclaration, Chain, Completeness, WorkOrderGate,
     Constraints, Acceptance, Signature, LedgerGate, Outcomes
<1>. QED BY <1>1 DEF RunGate

LEMMA TypedStep ==
  ASSUME Typed, [Next]_vars
  PROVE  Typed'
<1>0. TypeOK /\ child \in ChildType
  BY DEF Typed
<1>1. ASSUME child' \in ChildType
      PROVE  child'.lines \in Lines /\ child'.done \in Lines
  BY <1>1 DEF ChildType
<1>2. CASE RunGate
  <2>1. child' \in ChildType
    <3>1. Head(child.list) \in GateNames /\ Tail(child.list) \in Seq(GateNames) /\ <<>> \in Seq(GateNames)
      BY <1>0, <1>2 DEF RunGate, ChildType
    <3>2. \A r \in Outcomes : Append(child.done, [gate |-> Head(child.list), result |-> r]) \in Lines
      BY <1>0, <3>1 DEF ChildType, Lines
    <3>. QED BY ZenonT(30), <1>0, <1>2, <3>1, <3>2, RunGateChild DEF ChildType
  <2>. QED BY <1>0, <1>1, <1>2, <2>1 DEF RunGate, Typed, TypeOK
<1>3. CASE PrintGates
  <2>1. child' \in ChildType
    BY <1>0, <1>3 DEF PrintGates, ChildType
  <2>. QED BY <1>0, <1>1, <1>3, <2>1 DEF PrintGates, Typed, TypeOK
<1>4. ASSUME NEW d \in Defects, Change(d)
      PROVE  Typed'
  BY <1>0, <1>4, VerificationAssumption DEF Change, Typed, TypeOK
<1>5. ASSUME NEW c \in Commands, ByHand(c)
      PROVE  Typed'
  BY <1>0, <1>1, <1>5, SpawnType DEF ByHand, Begin, Go, Typed, TypeOK, Callers
<1>6. CASE ByInstall
  <2>1. child' \in ChildType
    <3>1. NoChild \in ChildType
      BY CommandType DEF NoChild, ChildType, Lines
    <3>. QED BY <1>6, <3>1, SpawnType DEF ByInstall, ChildType
  <2>. QED BY <1>0, <1>1, <1>6, <2>1 DEF ByInstall, Begin, Go, Typed, TypeOK, Callers
<1>7. ASSUME NEW o \in Options, ByVerify(o)
      PROVE  Typed'
  BY <1>0, <1>7 DEF ByVerify, Begin, Go, Typed, TypeOK, Callers
<1>8. CASE HandExits \/ InstallExits \/ Exit
  BY <1>0, <1>8 DEF HandExits, InstallExits, Exit, ExitCode, Return, Typed, TypeOK
<1>9. CASE ValidateRoot
  <2>1. child' \in ChildType
    BY <1>0, <1>9, SpawnType DEF ValidateRoot
  <2>. QED BY <1>0, <1>1, <1>9, <2>1 DEF ValidateRoot, Return, Go, Typed, TypeOK
<1>10. CASE ParseGates
  BY <1>0, <1>10 DEF ParseGates, AfterGates, Go, Typed, TypeOK
<1>11. CASE GatesTimeOut
  <2>1. child' \in ChildType
    BY <1>0, <1>11 DEF GatesTimeOut, ChildType
  <2>2. gates' \in Lines
    <3>1. [gate |-> "TIMEOUT", result |-> "FAIL"] \in [gate : GateNames \cup {"TIMEOUT"}, result : Outcomes]
      BY DEF Outcomes
    <3>. QED BY <1>11, <3>1 DEF GatesTimeOut, Lines
  <2>. QED BY <1>0, <1>1, <1>11, <2>1, <2>2 DEF GatesTimeOut, AfterGates, Go, Typed, TypeOK
<1>12. ASSUME NEW late \in BOOLEAN, RunTests(late) \/ RunE2E(late)
       PROVE  Typed'
  BY <1>0, <1>12, Finding DEF RunTests, RunE2E, PytestStatus, E2EStatus, Go, Typed, TypeOK, Status, Outcomes
<1>13. ASSUME NEW late \in BOOLEAN, NEW m \in Modules, Import(m, late)
       PROVE  Typed'
  BY <1>0, <1>13 DEF Import, Typed, TypeOK, Status, Outcomes
<1>14. CASE ImportsDone \/ BuildReport
  BY <1>0, <1>14 DEF ImportsDone, AfterImports, BuildReport, Go, Typed, TypeOK, Status, Outcomes
<1>15. CASE UNCHANGED vars
  BY <1>0, <1>15 DEF vars, Typed, TypeOK
<1>. QED BY <1>2, <1>3, <1>4, <1>5, <1>6, <1>7, <1>8, <1>9, <1>10, <1>11, <1>12, <1>13, <1>14, <1>15
     DEF Next, GateCheck, Verify

\* Every reachable state of a check is well typed.
THEOREM TypeCorrect == FairSpec => []TypeOK
<1>1. Init => Typed
  BY InitInv DEF Inv
<1>2. Typed /\ [Next]_vars => Typed'
  BY TypedStep
<1>3. Typed => TypeOK
  BY DEF Typed
<1>. QED BY <1>1, <1>2, <1>3, PTL DEF FairSpec

-----------------------------------------------------------------------------
(* The gates                                                                *)

LEMMA Finishing ==
  ASSUME Typed, Printing, child.lines # <<>>, Passed(child.lines), Looked
  PROVE  \A i \in DOMAIN child.cmd.list : VouchedBy(child.cmd.list[i]) \subseteq absent
<1>1. child.list = <<>> /\ Covered /\ child.lines = child.done
  BY DEF Printing
<1>2. child.cmd.list \in Seq(GateNames) /\ child.done \in Lines
  BY CommandType DEF Typed, ChildType
<1>3. ~ \E i \in DOMAIN child.done : child.done[i].result = "FAIL"
  BY <1>1 DEF Passed
<1>4. /\ Len(child.cmd.list) = Len(child.done)
      /\ \A k \in 1..Len(child.done) : child.done[k].gate = child.cmd.list[k]
  BY <1>1, <1>2, <1>3 DEF Covered, CoverOf, Lines
<1>. QED BY <1>1, <1>2, <1>4 DEF Passed, Looked, Lines

\* One gate: what is done and what is still to do remain the command line.
LEMMA CoveredStep ==
  ASSUME NEW all \in Seq(GateNames), NEW done \in Lines, NEW list \in Seq(GateNames),
         NEW line, NEW left, list # <<>>, CoverOf(all, done, list),
         line.gate = Head(list), line.result = "FAIL" \/ left = Tail(list)
  PROVE  CoverOf(all, Append(done, line), left)
<1> DEFINE more == Append(done, line)
<1>1. /\ Len(more) = Len(done) + 1 /\ more[Len(done) + 1] = line
      /\ \A k \in 1..Len(done) : more[k] = done[k]
      /\ DOMAIN more = 1..(Len(done) + 1) /\ DOMAIN done = 1..Len(done)
      /\ Len(done) \in Nat
  BY DEF Lines
<1> HIDE DEF more
<1>2. CASE line.result = "FAIL"
  BY SMTT(30), <1>1, <1>2 DEF CoverOf
<1>3. CASE \E i \in DOMAIN done : done[i].result = "FAIL"
  BY <1>1, <1>3 DEF CoverOf
<1>4. CASE /\ line.result # "FAIL"
           /\ ~ \E i \in DOMAIN done : done[i].result = "FAIL"
  <2>0. /\ Len(all) = Len(done) + Len(list)
        /\ \A k \in 1..Len(done) : done[k].gate = all[k]
        /\ \A k \in 1..Len(list) : list[k] = all[Len(done) + k]
    BY <1>4 DEF CoverOf
  <2>1. /\ Len(list) \in Nat \ {0} /\ Len(left) = Len(list) - 1 /\ Head(list) = list[1]
        /\ \A k \in 1..Len(left) : left[k] = list[k + 1]
    BY <1>4
  <2>2. Len(all) = Len(more) + Len(left)
    BY <1>1, <2>0, <2>1
  <2>3. \A k \in 1..Len(more) : more[k].gate = all[k]
    BY <1>1, <2>0, <2>1
  <2>4. \A k \in 1..Len(left) : left[k] = all[Len(more) + k]
    <3> SUFFICES ASSUME NEW k \in 1..Len(left) PROVE left[k] = all[Len(more) + k]
      OBVIOUS
    <3>1. k + 1 \in 1..Len(list) /\ left[k] = list[k + 1]
      BY <2>1
    <3>2. list[k + 1] = all[Len(done) + (k + 1)]
      BY <2>0, <3>1
    <3>3. Len(done) + (k + 1) = Len(more) + k
      BY <1>1, <2>1
    <3>. QED BY <3>1, <3>2, <3>3
  <2>5. CoverOf(all, more, left)
    BY <2>2, <2>3, <2>4 DEF CoverOf
  <2>. QED BY <2>5 DEF more
<1>. QED BY <1>2, <1>3, <1>4

LEMMA RunGateKeeps ==
  ASSUME Typed, Earned, Typed', RunGate
  PROVE  Printing' /\ Looked' /\ Place'
<1>0. /\ child \in ChildType /\ child' \in ChildType /\ child.list # <<>>
      /\ child.state = "running" /\ child.lines = <<>> /\ Covered
      /\ pc' = pc /\ who' = who /\ gates' = gates /\ imported' = imported /\ level' = level
      /\ absent' = absent /\ waived' = waived /\ plane' = plane
      /\ pc \in {"wait", "gates"} /\ Looked
  BY DEF Typed, Earned, Printing, Place, RunGate
<1>1. child'.lines = <<>> /\ child'.state \in {"running", "ended"}
  BY <1>0, RunGateChild DEF ChildType
<1>2. child'.state = "running" => Covered'
  <2> SUFFICES ASSUME child'.state = "running" PROVE Covered'
    OBVIOUS
  <2>1. child' # [child EXCEPT !.state = "ended", !.list = <<>>]
    BY <1>0 DEF ChildType
  <2>2. PICK r \in Outcomes :
          child' = [child EXCEPT
                      !.done = Append(@, [gate |-> Head(child.list), result |-> r]),
                      !.list = IF r = "FAIL" /\ child.cmd.enforce THEN <<>> ELSE Tail(@)]
    BY <2>1, RunGateChild
  <2> DEFINE line == [gate |-> Head(child.list), result |-> r]
  <2>3. /\ child'.cmd = child.cmd /\ child'.done = Append(child.done, line)
        /\ child'.list = IF r = "FAIL" /\ child.cmd.enforce THEN <<>> ELSE Tail(child.list)
        /\ child.cmd.list \in Seq(GateNames) /\ child.done \in Lines /\ child.list \in Seq(GateNames)
    BY <1>0, <2>2, CommandType DEF ChildType
  <2>4. line.gate = Head(child.list) /\ line.result = r
    OBVIOUS
  <2>5. CoverOf(child.cmd.list, child.done, child.list)
    BY <1>0 DEF Covered
  <2> HIDE DEF line
  <2>6. CoverOf(child.cmd.list, Append(child.done, line), child'.list)
    BY <1>0, <2>3, <2>4, <2>5, CoveredStep
  <2>. QED BY <2>3, <2>6 DEF Covered
<1>3. Looked'
  <2>1. CASE child' = [child EXCEPT !.state = "ended", !.list = <<>>]
    <3>1. child'.done = child.done
      BY <1>0, <2>1 DEF ChildType
    <3>. QED BY <1>0, <3>1 DEF Looked, VouchedBy
  <2>2. ASSUME NEW r \in Outcomes, Outcome(Head(child.list)) = r,
               child' = [child EXCEPT
                          !.done = Append(@, [gate |-> Head(child.list), result |-> r]),
                          !.list = IF r = "FAIL" /\ child.cmd.enforce THEN <<>> ELSE Tail(@)]
        PROVE  Looked'
    <3> DEFINE line == [gate |-> Head(child.list), result |-> r]
    <3>1. child'.done = Append(child.done, line) /\ child.done \in Lines
      BY <1>0, <2>2 DEF ChildType
    <3>2. Head(child.list) \in GateNames
      BY <1>0 DEF ChildType
    <3>3. r = "PASS" => VouchedBy(line.gate) \subseteq absent
      BY <1>0, <2>2, <3>2, Outcoming DEF Earned
    <3>4. \A g : VouchedBy(g)' = VouchedBy(g)
      BY <1>0 DEF VouchedBy
    <3>5. \A i \in DOMAIN child'.done :
            \/ i \in DOMAIN child.done /\ child'.done[i] = child.done[i]
            \/ child'.done[i] = line
      BY <3>1 DEF Lines
    <3>6. line.result = r
      OBVIOUS
    <3>7. \A i \in DOMAIN child'.done :
            child'.done[i].result = "PASS" => VouchedBy(child'.done[i].gate) \subseteq absent
      BY <1>0, <3>3, <3>5, <3>6 DEF Looked
    <3>. QED BY <1>0, <3>4, <3>7 DEF Looked
  <2>. QED BY <2>1, <2>2, RunGateChild
<1>4. Printing'
  BY <1>1, <1>2 DEF Printing
<1>5. Place'
  BY <1>0, <1>1 DEF Earned, Place, AfterStart
<1>. QED BY <1>3, <1>4, <1>5

-----------------------------------------------------------------------------
(* The other steps                                                          *)

\* What has been right once remains so, and a waiver stays one.
LEMMA Growing ==
  ASSUME Typed, Earned, [Next]_vars, pc # "idle"
  PROVE  Watched' /\ absent \subseteq absent' /\ (waived => waived')
<1>1. ASSUME NEW d \in Defects, Change(d)
      PROVE  Watched' /\ absent \subseteq absent' /\ (waived => waived')
  BY <1>1 DEF Change, Watched, Earned
<1>2. CASE UNCHANGED <<plane, absent, waived, vars>> \/ RunGate \/ PrintGates \/ HandExits \/ InstallExits
  BY <1>2 DEF RunGate, PrintGates, HandExits, InstallExits, vars, Watched, Earned
<1>3. CASE Verify
  BY <1>3 DEF Verify, ValidateRoot, ParseGates, GatesTimeOut, RunTests, RunE2E, Import, ImportsDone,
     BuildReport, Exit, Watched, Earned
<1>4. ~ \E w \in Callers : Begin(w)
  BY DEF Begin
<1>. QED BY <1>1, <1>2, <1>3, <1>4 DEF Next, GateCheck, ByHand, ByInstall, ByVerify, vars, Callers

\* Steps that leave the child, and what it has printed, alone.
LEMMA StillLooked ==
  ASSUME Typed, Earned, absent \subseteq absent', waived => waived', UNCHANGED child
  PROVE  Printing' /\ Looked' /\ (\A d : d \in absent => d \in absent')
<1>1. Printing'
  BY DEF Earned, Printing, Covered, CoverOf
<1>2. \A g : VouchedBy(g) \subseteq absent => VouchedBy(g)' \subseteq absent'
  BY Growth, Zenon DEF Earned
<1>3. Looked'
  BY <1>2 DEF Earned, Looked
<1>. QED BY <1>1, <1>3

\* The parts of Earned that the steps after the gates may disturb.
Sum == Place /\ Levelled /\ Reached /\ Judged /\ Verdict

LEMMA Starting ==
  ASSUME Typed, Earned, Typed', pc = "idle", [Next]_vars
  PROVE  Earned'
<1>0. /\ child = NoChild /\ gates = <<>> /\ imported = {} /\ \A l \in Levels : level[l] = "SKIPPED"
  BY DEF Earned, Place
<1>1. NoChild.state = "none" /\ NoChild.done = <<>> /\ NoChild.lines = <<>>
  BY DEF NoChild
<1>2. CASE UNCHANGED vars
  BY ZenonT(30), <1>2 DEF vars, Earned, Watched, Place, Printing, Covered, Looked, Levelled, Reached, Judged, Verdict,
     Judging, VouchedBy, Passed, CoverOf
<1>3. CASE (\E c \in Commands : ByHand(c)) \/ ByInstall \/ (\E o \in Options : ByVerify(o))
  <2>1. /\ absent' = Defects \ plane' /\ waived' = ("validator" \in plane')
        /\ pc' \in {"wait", "validate"}
        /\ pc' = "wait" => who' # "verify"
        /\ pc' = "validate" => who' = "verify"
        /\ gates' = gates /\ level' = level /\ imported' = imported /\ exit' = exit
    BY <1>3 DEF ByHand, ByInstall, ByVerify, Begin, Go
  <2>2. \/ pc' = "wait" /\ \E c \in Commands \cup {AsAll} : Spawn(c)
        \/ child' = [NoChild EXCEPT !.state = "ended"]
        \/ child' = NoChild
    BY <1>0, <1>3 DEF ByHand, ByInstall, ByVerify, Go, Begin
  <2>3. /\ child'.done = <<>> /\ child'.lines = <<>>
        /\ child'.state = "running" => Covered' /\ pc' = "wait"
    <3>1. CASE pc' = "wait" /\ \E c \in Commands \cup {AsAll} : Spawn(c)
      <4>1. PICK c \in Commands \cup {AsAll} : Spawn(c)
        BY <3>1
      <4>2. child' = [state |-> "running", cmd |-> c, list |-> c.list, done |-> <<>>, lines |-> <<>>]
        BY <4>1, SpawnType
      <4>3. c.list \in Seq(GateNames)
        BY CommandType
      <4>4. CoverOf(c.list, <<>>, c.list)
        BY <4>3 DEF CoverOf
      <4>. QED BY <3>1, <4>2, <4>4 DEF Covered
    <3>2. CASE child' = [NoChild EXCEPT !.state = "ended"] \/ child' = NoChild
      BY <3>2 DEF NoChild
    <3>. QED BY <2>2, <3>1, <3>2
  <2>4. Watched' /\ Place'
    BY <2>1, <2>3 DEF Watched, Place, AfterStart
  <2>5. Printing' /\ Looked'
    BY <2>3 DEF Printing, Looked
  <2>6. ~Judging' /\ Levelled' /\ Verdict'
    BY <1>0, <2>1 DEF Judging, AfterStart, Levelled, Verdict, Levels
  <2>. QED BY <2>4, <2>5, <2>6 DEF Earned, Reached, Judged
<1>4. CASE RunGate \/ PrintGates
  BY <1>0, <1>1, <1>4 DEF RunGate, PrintGates
<1>5. ~ \E d \in Defects : Change(d)
  BY DEF Change
<1>6. CASE HandExits \/ InstallExits \/ Verify
  BY <1>6 DEF HandExits, InstallExits, Verify, ValidateRoot, ParseGates, GatesTimeOut, RunTests, RunE2E,
     Import, ImportsDone, BuildReport, Exit
<1>. QED BY <1>2, <1>3, <1>4, <1>5, <1>6 DEF Next, GateCheck

LEMMA SumStep ==
  ASSUME Typed, Earned, Typed', pc # "idle", Watched', absent \subseteq absent',
         \/ \E d \in Defects : Change(d)
         \/ HandExits \/ InstallExits \/ ParseGates \/ ImportsDone \/ BuildReport \/ Exit
         \/ \E late \in BOOLEAN : RunTests(late) \/ RunE2E(late) \/ \E m \in Modules : Import(m, late)
         \/ UNCHANGED vars
  PROVE  Sum' /\ UNCHANGED child
<1>0. /\ Place /\ Levelled /\ Reached /\ Judged /\ Verdict /\ Watched /\ TypeOK /\ TypeOK'
  BY DEF Earned, Typed
<1>a. \A i \in DOMAIN child.lines : child.lines[i].result \in Outcomes
  <2> DEFINE S == [gate : GateNames \cup {"TIMEOUT"}, result : Outcomes]
  <2>1. child.lines \in Seq(S)
    BY DEF Typed, ChildType, Lines
  <2>2. \A e \in S : e.result \in Outcomes
    OBVIOUS
  <2> HIDE DEF S
  <2>3. \A i \in DOMAIN child.lines : child.lines[i] \in S
    BY <2>1
  <2>. QED BY <2>2, <2>3
<1>1. \A d \in Defects : Finds(d) = "PASS" => d \in absent
  BY <1>0, Finding DEF Watched
<1>2. "tests" \in Defects /\ "main" \in Defects /\ Modules \subseteq Defects
  BY DEF Defects
<1>3. ASSUME NEW d \in Defects, Change(d)
      PROVE  Sum' /\ UNCHANGED child
  BY <1>0, <1>3 DEF Change, Sum, Place, Levelled, Reached, Judged, Verdict, Judging, Passed, AfterStart
<1>4. CASE HandExits
  BY <1>0, <1>4 DEF HandExits, Return, Sum, Place, Levelled, Reached, Judged, Verdict, Judging, Passed, AfterStart
<1>5. CASE InstallExits
  <2>1. ~Counted(child.lines) => Passed(child.lines)
    BY <1>a DEF Counted, Passed, Outcomes
  <2>. QED BY <1>0, <1>5, <2>1
    DEF InstallExits, Return, Sum, Place, Levelled, Reached, Judged, Verdict, Judging, Passed, AfterStart
<1>6. CASE ParseGates
  BY <1>0, <1>6 DEF ParseGates, AfterGates, Go, Sum, Place, Levelled, Reached, Judged, Verdict, Judging,
     Passed, AfterStart
<1>7. CASE ImportsDone \/ BuildReport
  BY <1>0, <1>7 DEF ImportsDone, AfterImports, BuildReport, Go, Sum, Place, Levelled, Reached, Judged,
     Verdict, Judging, Passed, AfterStart
<1>8. CASE Exit
  <2>1. exit' = 0 => Passed(gates) /\ \A l \in Levels : level[l] # "FAIL"
    BY <1>0, <1>8 DEF Exit, Return, ExitCode, TypeOK, Levels
  <2>2. pc = "exit" /\ who = "verify" /\ pc' = "done"
    BY <1>0, <1>8 DEF Exit, Return, Place, AfterStart
  <2>3. Passed(gates) => gates = child.lines
    <3>1. Judging
      BY <2>2 DEF Judging, AfterStart
    <3>. QED BY <1>0, <2>2, <3>1 DEF Judged
  <2>5. /\ UNCHANGED <<plane, absent, waived, who, opts, child, gates, level, imported>>
        /\ pc' = "done"
    BY <1>8 DEF Exit, Return
  <2>6. Place' /\ Levelled'
    BY <1>0, <2>2, <2>5 DEF Place, Levelled, AfterStart
  <2>7. Reached' /\ Judged' /\ Verdict'
    BY <1>0, <2>1, <2>2, <2>3, <2>5 DEF Reached, Judged, Verdict, Judging, AfterStart, Passed
  <2>. QED BY <2>5, <2>6, <2>7 DEF Sum
<1>9. ASSUME NEW late \in BOOLEAN, RunTests(late)
      PROVE  Sum' /\ UNCHANGED child
  <2>1. level'["tests"] \in Outcomes /\ (level'["tests"] = "PASS" => "tests" \in absent')
    BY <1>0, <1>1, <1>2, <1>9, Finding DEF RunTests, PytestStatus, TypeOK, Outcomes
  <2>2. level'["imports"] = level["imports"] /\ level'["e2e"] = level["e2e"]
    BY <1>0, <1>9 DEF RunTests, TypeOK
  <2>. QED BY <1>0, <1>9, <2>1, <2>2 DEF RunTests, Go, Sum, Place, Levelled, Reached, Judged, Verdict,
     Judging, Passed, AfterStart, Outcomes
<1>10. ASSUME NEW late \in BOOLEAN, RunE2E(late)
       PROVE  Sum' /\ UNCHANGED child
  <2>1. /\ opts.key => level'["e2e"] \in Outcomes
        /\ level'["e2e"] = "PASS" => "main" \in absent'
    BY <1>0, <1>1, <1>2, <1>10, Finding DEF RunE2E, E2ESkipped, E2EStatus, TypeOK, Outcomes
  <2>2. level'["imports"] = level["imports"] /\ level'["tests"] = level["tests"]
    BY <1>0, <1>10 DEF RunE2E, TypeOK
  <2>. QED BY <1>0, <1>10, <2>1, <2>2 DEF RunE2E, Go, Sum, Place, Levelled, Reached, Judged, Verdict,
     Judging, Passed, AfterStart, Outcomes
<1>11. ASSUME NEW late \in BOOLEAN, NEW m \in Modules, Import(m, late)
       PROVE  Sum' /\ UNCHANGED child
  <2>1. level'["imports"] # "FAIL" => m \in absent' /\ level["imports"] # "FAIL"
    BY <1>0, <1>2, <1>11 DEF Import, Failed, Watched, TypeOK
  <2>2. level'["e2e"] = level["e2e"] /\ level'["tests"] = level["tests"] /\ imported' = imported \cup {m}
    BY <1>0, <1>11 DEF Import, TypeOK
  <2>. QED BY <1>0, <1>11, <2>1, <2>2 DEF Import, Sum, Place, Levelled, Reached, Judged, Verdict,
     Judging, Passed, AfterStart
<1>12. CASE UNCHANGED vars
  BY <1>0, <1>12 DEF vars, Sum, Place, Levelled, Reached, Judged, Verdict, Judging, Passed, AfterStart
<1>. QED BY <1>3, <1>4, <1>5, <1>6, <1>7, <1>8, <1>9, <1>10, <1>11, <1>12

LEMMA ChildSteps ==
  ASSUME Typed, Earned, Typed', pc # "idle", Watched', ValidateRoot \/ PrintGates \/ GatesTimeOut
  PROVE  Sum' /\ Printing' /\ Looked'
<1>0. /\ Place /\ Levelled /\ Reached /\ Judged /\ Verdict /\ Printing /\ Looked
      /\ child \in ChildType
  BY DEF Earned, Typed
<1>1. CASE ValidateRoot
  <2>1. \/ pc' = "done" /\ exit' = 2 /\ UNCHANGED child
        \/ pc' = "gates" /\ Spawn(AsAll)
    BY <1>1 DEF ValidateRoot, Return, Go
  <2>2. /\ UNCHANGED <<plane, absent, waived, who, opts, gates, level, imported>>
        /\ pc = "validate" /\ who = "verify" /\ child.state # "running"
    BY <1>0, <1>1 DEF ValidateRoot, Place
  <2>3. CASE pc' = "done" /\ exit' = 2 /\ UNCHANGED child
    <3>1. Sum'
      BY <1>0, <2>2, <2>3 DEF Sum, Place, Levelled, Reached, Judged, Verdict, Judging, AfterStart
    <3>2. Printing' /\ Looked'
      BY <1>0, <2>2, <2>3 DEF Printing, Looked, Covered, CoverOf, VouchedBy
    <3>. QED BY <3>1, <3>2
  <2>4. CASE pc' = "gates" /\ Spawn(AsAll)
    <3>1. child' = [state |-> "running", cmd |-> AsAll, list |-> AsAll.list, done |-> <<>>, lines |-> <<>>]
      BY <2>4, SpawnType
    <3>2. CoverOf(AsAll.list, <<>>, AsAll.list)
      BY CommandType DEF CoverOf
    <3>3. Printing' /\ Looked'
      BY <3>1, <3>2 DEF Printing, Looked, Covered
    <3>4. Sum'
      BY <1>0, <2>2, <2>4 DEF Sum, Place, Levelled, Reached, Judged, Verdict, Judging, AfterStart
    <3>. QED BY <3>3, <3>4
  <2>. QED BY <2>1, <2>3, <2>4
<1>2. CASE PrintGates
  <2>1. /\ UNCHANGED <<plane, absent, waived, pc, who, opts, gates, level, imported, exit>>
        /\ child.state = "running" /\ child.list = <<>> /\ Covered /\ pc \in {"wait", "gates"}
    BY <1>0, <1>2 DEF PrintGates, Place, Printing
  <2>2. /\ child'.state = "ended" /\ child'.lines = child.done /\ child'.done = child.done
        /\ child'.list = <<>> /\ child'.cmd = child.cmd
    BY <1>0, <1>2, <2>1 DEF PrintGates, ChildType
  <2>3. Printing' /\ Looked'
    BY <1>0, <2>1, <2>2 DEF Printing, Looked, Covered, CoverOf, VouchedBy
  <2>4. Sum'
    BY <1>0, <2>1, <2>2 DEF Sum, Place, Levelled, Reached, Judged, Verdict, Judging, AfterStart
  <2>. QED BY <2>3, <2>4
<1>3. CASE GatesTimeOut
  <2>1. /\ UNCHANGED <<plane, absent, waived, who, opts, level, imported, exit>>
        /\ child.state = "running" /\ child.lines = <<>> /\ pc = "gates" /\ who = "verify"
    BY <1>0, <1>3 DEF GatesTimeOut, Place, Printing, AfterStart
  <2>2. pc' \in {"report", "tests"} /\ (pc' = "report" => opts.gatesOnly)
    BY <1>3 DEF GatesTimeOut, AfterGates, Go
  <2>3. child'.state = "ended" /\ child'.lines = <<>> /\ child'.done = child.done
    BY <1>0, <1>3, <2>1 DEF GatesTimeOut, ChildType
  <2>4. ~Passed(gates)'
    BY <1>3 DEF GatesTimeOut, Passed
  <2>5. Printing' /\ Looked'
    BY <1>0, <2>1, <2>3 DEF Printing, Looked, VouchedBy
  <2>6. Sum'
    BY <1>0, <2>1, <2>2, <2>3, <2>4 DEF Sum, Place, Levelled, Reached, Judged, Verdict, Judging, AfterStart
  <2>. QED BY <2>5, <2>6
<1>. QED BY <1>1, <1>2, <1>3

LEMMA EarnedStep ==
  ASSUME Typed, Earned, [Next]_vars
  PROVE  Earned'
<1>0. Typed'
  BY TypedStep
<1>1. CASE pc = "idle"
  BY <1>0, <1>1, Starting
<1> SUFFICES ASSUME pc # "idle" PROVE Earned'
  BY <1>1
<1>2. Watched' /\ absent \subseteq absent' /\ (waived => waived')
  BY Growing
<1>3. CASE RunGate
  <2>1. Printing' /\ Looked' /\ Place'
    BY <1>0, <1>3, RunGateKeeps
  <2>2. /\ UNCHANGED <<absent, pc, who, opts, gates, level, imported, exit>>
        /\ pc \in {"wait", "gates"}
    BY <1>3 DEF RunGate, Earned, Place
  <2>3. Levelled' /\ ~Judging' /\ pc' # "done"
    BY <2>2 DEF Earned, Levelled, Judging, AfterStart
  <2>. QED BY <1>2, <2>1, <2>3 DEF Earned, Reached, Judged, Verdict
<1>4. CASE ValidateRoot \/ PrintGates \/ GatesTimeOut
  BY <1>0, <1>2, <1>4, ChildSteps DEF Sum, Earned
<1>5. CASE \/ \E d \in Defects : Change(d)
           \/ HandExits \/ InstallExits \/ ParseGates \/ ImportsDone \/ BuildReport \/ Exit
           \/ \E late \in BOOLEAN : RunTests(late) \/ RunE2E(late) \/ \E m \in Modules : Import(m, late)
           \/ UNCHANGED vars
  <2>1. Sum' /\ UNCHANGED child
    BY <1>0, <1>2, <1>5, SumStep, Zenon
  <2>2. Printing' /\ Looked'
    BY <1>2, <2>1, StillLooked
  <2>. QED BY <1>2, <2>1, <2>2 DEF Sum, Earned
<1>6. ~ \E w \in Callers : Begin(w)
  BY DEF Begin
<1>. QED BY <1>3, <1>4, <1>5, <1>6 DEF Next, GateCheck, Verify, ByHand, ByInstall, ByVerify, Callers

LEMMA ReportedStep ==
  ASSUME Typed, Earned, Reported, [Next]_vars
  PROVE  Reported'
<1> SUFFICES ASSUME who' = "verify", pc' = "exit" \/ (pc' = "done" /\ exit' \in {0, 1})
             PROVE  /\ report' = "PASS" <=> GatesStatus' = "PASS" /\ \A l \in Levels : level'[l] # "FAIL"
                    /\ pc' = "done" => exit' = ExitCode'
  BY DEF Reported
<1>0. Place /\ TypeOK
  BY DEF Earned, Typed
<1>1. CASE BuildReport
  BY <1>0, <1>1 DEF BuildReport, Go, GatesStatus, Passed, TypeOK, Levels
<1>2. CASE Exit
  <2>1. pc = "exit" /\ UNCHANGED <<who, gates, level, report>> /\ exit' = ExitCode
    BY <1>2 DEF Exit, Return
  <2>2. ExitCode' = ExitCode /\ GatesStatus' = GatesStatus
    BY <2>1 DEF ExitCode, GatesStatus, Passed
  <2>. QED BY <2>1, <2>2 DEF Reported
<1>3. CASE \/ \E d \in Defects : Change(d)
           \/ RunGate \/ PrintGates \/ UNCHANGED vars
  <2>1. /\ UNCHANGED <<pc, who, gates, level, report, exit>>
    BY <1>3 DEF Change, RunGate, PrintGates, vars
  <2>2. ExitCode' = ExitCode /\ GatesStatus' = GatesStatus
    BY <2>1 DEF ExitCode, GatesStatus, Passed
  <2>. QED BY <2>1, <2>2 DEF Reported
<1>4. CASE \/ \E c \in Commands : ByHand(c)
           \/ ByInstall
           \/ \E o \in Options : ByVerify(o)
  BY <1>4 DEF ByHand, ByInstall, ByVerify, Begin, Go
<1>5. CASE HandExits \/ InstallExits
  BY <1>0, <1>5 DEF HandExits, InstallExits
<1>6. CASE ValidateRoot \/ ParseGates \/ GatesTimeOut \/ ImportsDone
  BY <1>6 DEF ValidateRoot, ParseGates, GatesTimeOut, ImportsDone, AfterGates, AfterImports, Go, Return
<1>7. CASE \E late \in BOOLEAN : RunTests(late) \/ RunE2E(late) \/ \E m \in Modules : Import(m, late)
  BY <1>7 DEF RunTests, RunE2E, Import, Go
<1>. QED BY <1>1, <1>2, <1>3, <1>4, <1>5, <1>6, <1>7 DEF Next, GateCheck, Verify

-----------------------------------------------------------------------------
LEMMA InvHolds == FairSpec => []Inv
<1>1. Init => Inv
  BY InitInv
<1>2. Inv /\ [Next]_vars => Inv'
  BY TypedStep, EarnedStep, ReportedStep DEF Inv
<1>. QED BY <1>1, <1>2, PTL DEF FairSpec

\* Whatever is changed during a check, and however often, who says that the plane
\* is sound on the word of gates that spoke has looked at everything it vouches
\* for at a moment when it was right.
THEOREM SuccessIsEarned == FairSpec => []PassIsEarned
<1>1. ASSUME Inv
      PROVE  PassIsEarned
  <2> SUFFICES ASSUME pc = "done", exit = 0, child.lines # <<>>
               PROVE  Vouched \subseteq absent
    BY DEF PassIsEarned
  <2>0. /\ Typed /\ Printing /\ Looked /\ Levelled /\ Reached /\ Verdict /\ Judging
    BY <1>1 DEF Inv, Earned, Judging
  <2>1. Passed(child.lines)
    BY <2>0 DEF Verdict
  <2>2. \A i \in DOMAIN child.cmd.list : VouchedBy(child.cmd.list[i]) \subseteq absent
    BY <2>0, <2>1, Finishing
  <2>3. ASSUME who = "verify", ~opts.gatesOnly
        PROVE  /\ {"tests"} \cup Modules \subseteq absent
               /\ opts.e2e /\ opts.key => "main" \in absent
    <3>1. /\ level["tests"] # "FAIL" /\ level["imports"] # "FAIL" /\ level["e2e"] # "FAIL"
          /\ level["tests"] # "SKIPPED" /\ imported = Modules
          /\ opts.e2e /\ opts.key => level["e2e"] # "SKIPPED"
      BY <2>0, <2>3 DEF Verdict, Reached, Levels
    <3>2. \A l \in Levels : level[l] \in {"PASS", "FAIL", "SKIPPED"}
      BY <2>0 DEF Typed, TypeOK, Status, Outcomes, Levels
    <3>. QED BY <2>0, <3>1, <3>2 DEF Levelled, Levels
  <2>4. UNION {VouchedBy(child.cmd.list[i]) : i \in DOMAIN child.cmd.list} \subseteq absent
    BY <2>2
  <2>5. CASE who # "verify" \/ opts.gatesOnly
    BY <2>4, <2>5 DEF Vouched
  <2>6. CASE who = "verify" /\ ~opts.gatesOnly
    <3> DEFINE looked == UNION {VouchedBy(child.cmd.list[i]) : i \in DOMAIN child.cmd.list}
               asked == IF opts.e2e /\ opts.key THEN {"main"} ELSE {}
    <3>1. looked \subseteq absent
      BY <2>4
    <3>2. {"tests"} \cup Modules \subseteq absent
      BY <2>3, <2>6
    <3>3. asked \subseteq absent
      BY <2>3, <2>6
    <3>4. Vouched = looked \cup ({"tests"} \cup Modules \cup asked)
      BY <2>6 DEF Vouched
    <3> HIDE DEF looked, asked
    <3>. QED BY <3>1, <3>2, <3>3, <3>4
  <2>. QED BY <2>0, <2>5, <2>6 DEF Typed, TypeOK
<1>. QED BY <1>1, InvHolds, PTL

\* Once the gates have said anything, verify.py exits with what it has reported.
THEOREM ExitFollowsReport == FairSpec => []ExitAgrees
<1>1. ASSUME Inv
      PROVE  ExitAgrees
  <2> SUFFICES ASSUME pc = "done", who = "verify", exit \in {0, 1}, gates # <<>>
               PROVE  exit = 0 <=> report = "PASS"
    BY DEF ExitAgrees
  <2>1. /\ report = "PASS" <=> GatesStatus = "PASS" /\ \A l \in Levels : level[l] # "FAIL"
        /\ exit = ExitCode
    BY <1>1 DEF Inv, Reported
  <2>2. DOMAIN level = Levels
    BY <1>1 DEF Inv, Typed, TypeOK, Levels
  <2>. QED BY <2>1, <2>2 DEF ExitCode, GatesStatus
<1>. QED BY <1>1, InvHolds, PTL

-----------------------------------------------------------------------------
(* verify.py comes to its end.                                              *)

\* Where verify.py is at work, and the most steps it still takes from there.
Verifying == pc \in {"validate", "gates"} \cup AfterStart

Left ==
  LET modules == Cardinality(Modules \ imported)
  IN  CASE pc \in {"idle", "wait", "done"} -> 0
        [] pc = "exit" -> 1
        [] pc = "report" -> 2
        [] pc = "e2e" -> 3
        [] pc = "imports" -> modules + 4
        [] pc = "tests" -> modules + 5
        [] pc = "gates" -> modules + 6
        [] pc = "validate" -> modules + 7

LeftBounded == Left \in 0..(Cardinality(Modules) + 7)

Waits == UNCHANGED <<pc, who, opts, gates, level, imported, report, exit>>

\* A step during verify.py brings its end nearer, or it is one of the process that
\* checks the gates or of somebody else in the plane.
RunsDown == [][Verifying => Left' < Left \/ Waits]_vars

LEMMA ModulesLeft ==
  IsFiniteSet(Modules \ imported) /\ Cardinality(Modules \ imported) \in 0..Cardinality(Modules)
<1>1. IsFiniteSet(Modules) /\ Modules \ imported \in SUBSET Modules
  BY VerificationAssumption
<1>2. IsFiniteSet(Modules \ imported) /\ Cardinality(Modules \ imported) <= Cardinality(Modules)
  BY <1>1, FS_Subset
<1>3. Cardinality(Modules) \in Nat /\ Cardinality(Modules \ imported) \in Nat
  BY <1>1, <1>2, FS_CardinalityType
<1>. QED BY <1>2, <1>3

LEMMA LeftInRange == Typed => LeftBounded
<1> SUFFICES ASSUME Typed PROVE LeftBounded
  OBVIOUS
<1> DEFINE modules == Cardinality(Modules \ imported)
<1>1. Left \in {0, 1, 2, 3, modules + 4, modules + 5, modules + 6, modules + 7}
  BY DEF Left, Typed, TypeOK
<1>2. modules \in 0..Cardinality(Modules) /\ Cardinality(Modules) \in Nat
  BY ModulesLeft, FS_CardinalityType, VerificationAssumption
<1> HIDE DEF modules
<1>. QED BY <1>1, <1>2 DEF LeftBounded

\* One level after the other.
LEMMA Onward ==
  ASSUME imported' = imported,
         \/ pc = "validate" /\ pc' \in {"gates", "done"}
         \/ pc = "gates" /\ pc' \in {"tests", "report"}
         \/ pc = "tests" /\ pc' = "imports"
         \/ pc = "imports" /\ pc' \in {"e2e", "report"}
         \/ pc = "e2e" /\ pc' = "report"
         \/ pc = "report" /\ pc' = "exit"
         \/ pc = "exit" /\ pc' = "done"
  PROVE  Left' < Left
<1> DEFINE modules == Cardinality(Modules \ imported)
<1>1. modules \in Nat
  BY ModulesLeft
<1>2. /\ pc = "exit" => Left = 1
      /\ pc = "report" => Left = 2
      /\ pc = "e2e" => Left = 3
      /\ pc = "imports" => Left = modules + 4
      /\ pc = "tests" => Left = modules + 5
      /\ pc = "gates" => Left = modules + 6
      /\ pc = "validate" => Left = modules + 7
  BY DEF Left
<1>3. /\ pc' = "done" => Left' = 0
      /\ pc' = "exit" => Left' = 1
      /\ pc' = "report" => Left' = 2
      /\ pc' = "e2e" => Left' = 3
      /\ pc' = "imports" => Left' = modules + 4
      /\ pc' = "tests" => Left' = modules + 5
      /\ pc' = "gates" => Left' = modules + 6
  BY DEF Left
<1> HIDE DEF modules
<1>. QED BY <1>1, <1>2, <1>3

\* The modules left to import become fewer.
LEMMA OneImported ==
  ASSUME NEW m \in Modules, NEW late \in BOOLEAN, Import(m, late)
  PROVE  Left' < Left
<1> DEFINE modules == Cardinality(Modules \ imported)
<1>1. /\ pc = "imports" /\ pc' = "imports" /\ m \notin imported
      /\ imported' = imported \cup {m}
  BY DEF Import
<1>2. Modules \ imported' = (Modules \ imported) \ {m} /\ m \in Modules \ imported
  BY <1>1
<1>3. Cardinality(Modules \ imported') = modules - 1
  BY <1>2, ModulesLeft, FS_RemoveElement
<1>4. modules \in Nat
  BY ModulesLeft
<1>5. Left = modules + 4
  BY <1>1 DEF Left
<1>6. Left' = Cardinality(Modules \ imported') + 4
  BY <1>1 DEF Left
<1> HIDE DEF modules
<1>. QED BY <1>3, <1>4, <1>5, <1>6

LEMMA VerifyGoesOn == Verify => Left' < Left
<1> SUFFICES ASSUME Verify PROVE Left' < Left
  OBVIOUS
<1>1. CASE ValidateRoot
  BY <1>1, Onward DEF ValidateRoot, Go, Return
<1>2. CASE ParseGates
  BY <1>2, Onward DEF ParseGates, Go, AfterGates
<1>3. CASE GatesTimeOut
  BY <1>3, Onward DEF GatesTimeOut, Go, AfterGates
<1>4. ASSUME NEW late \in BOOLEAN, RunTests(late)
      PROVE  Left' < Left
  BY <1>4, Onward DEF RunTests, Go
<1>5. ASSUME NEW late \in BOOLEAN, RunE2E(late)
      PROVE  Left' < Left
  BY <1>5, Onward DEF RunE2E, Go
<1>6. CASE ImportsDone
  BY <1>6, Onward DEF ImportsDone, Go, AfterImports
<1>7. CASE BuildReport
  BY <1>7, Onward DEF BuildReport, Go
<1>8. CASE Exit
  BY <1>8, Onward DEF Exit, Return
<1>. QED BY <1>1, <1>2, <1>3, <1>4, <1>5, <1>6, <1>7, <1>8, OneImported DEF Verify

\* verify.py takes a bounded number of its own steps, whatever the processes it
\* starts do and whatever is changed in the plane meanwhile.
THEOREM VerifyRunsDown == FairSpec => []LeftBounded /\ RunsDown
<1>1. ASSUME Typed, Place, [Next]_vars
      PROVE  [Verifying => Left' < Left \/ Waits]_vars
  <2> SUFFICES ASSUME Verifying, ~UNCHANGED vars
               PROVE  Left' < Left \/ Waits
    OBVIOUS
  <2>0. pc # "idle" /\ who = "verify"
    BY <1>1 DEF Verifying, AfterStart, Place
  <2>1. ASSUME NEW d \in Defects, Change(d)
        PROVE  Waits
    BY <2>1 DEF Change, Waits
  <2>2. ASSUME NEW c \in Commands, ByHand(c)
        PROVE  FALSE
    BY <2>0, <2>2 DEF ByHand, Begin
  <2>3. CASE ByInstall
    BY <2>0, <2>3 DEF ByInstall, Begin
  <2>4. ASSUME NEW o \in Options, ByVerify(o)
        PROVE  FALSE
    BY <2>0, <2>4 DEF ByVerify, Begin
  <2>5. CASE GateCheck
    BY <2>5 DEF GateCheck, RunGate, PrintGates, Waits
  <2>6. CASE HandExits
    BY <2>0, <2>6 DEF HandExits
  <2>7. CASE InstallExits
    BY <2>0, <2>7 DEF InstallExits
  <2>8. CASE Verify
    BY <2>8, VerifyGoesOn
  <2>. QED BY <1>1, <2>1, <2>2, <2>3, <2>4, <2>5, <2>6, <2>7, <2>8 DEF Next
<1>2. Inv => Typed /\ Place
  BY DEF Inv, Earned
<1>3. Typed /\ Place /\ [Next]_vars
        => [Verifying => Left' < Left \/ Waits]_vars
  BY <1>1
<1>. QED BY <1>2, <1>3, InvHolds, LeftInRange, PTL DEF FairSpec, RunsDown
=============================================================================
