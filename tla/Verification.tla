---------------------------- MODULE Verification ----------------------------
(***************************************************************************)
(* Who says that a plane is sound: gate_check.py, and the three that run it *)
(* as a subprocess or by hand.  verify.py goes through its levels (gates,   *)
(* tests, imports, a session), gives every subprocess a timeout and sums    *)
(* up; install.sh counts the lines that gate_check.py prints; an operator   *)
(* or a script takes its exit code.                                         *)
(*                                                                          *)
(* The plane is the set of what is wrong with it at the moment.  Nothing    *)
(* locks it: installers and editors change it between any two reads.        *)
(***************************************************************************)
EXTENDS Naturals, Sequences, FiniteSets

CONSTANTS
    Modules,        \* IMPORT_SMOKE_MODULES
    Commands,       \* command lines of gate_check.py: gates, --enforce, manifest, --wo
    Planes,         \* the planes a check may be started on
    MaxChanges      \* bound on the changes of the plane

\* What a command line may ask for, a name that no gate has included.
GateNames == {"G0", "G0A", "G0B", "G1", "G1-COMPLETE", "G2", "G3", "G4", "G5", "G6", "unknown"}

ASSUME VerificationAssumption ==
    /\ Modules \subseteq STRING /\ IsFiniteSet(Modules)
    /\ Commands \subseteq [list : Seq(GateNames), enforce : BOOLEAN,
                     manifest : {"none", "good", "bad"}, wo : BOOLEAN]
    /\ MaxChanges \in Nat

\* What can be wrong with a plane, and what of it only stops a gate from reading.
Defects ==
    {"script",          \* gate_check.py is not there
     "kernel",          \* gate_check.py cannot import kernel.hashing
     "config",          \* governed_roots.json is cut short
     "manifest",        \* an installed manifest.json is cut short
     "ledger",          \* a ledger is not text
     "validator",       \* kernel.preflight cannot be imported
     "files",           \* orphans, missing files, hashes that differ
     "chain",           \* a spec or a framework is not registered
     "wiring",          \* a framework expects a spec that is not there
     "tests",           \* a test fails or cannot be collected
     "main"}            \* the session does not answer
    \cup Modules           \* a module that cannot be imported

ASSUME PlanesAssumption == Planes \subseteq SUBSET Defects

VARIABLES
    plane,      \* what is wrong with the plane
    absent,     \* what has been right at some moment since the check began
    waived,     \* whether the validator has been broken at some moment since then
    pc,         \* where the caller is
    who,        \* "verify", "install" or "hand"
    opts,       \* its command line
    child,      \* the gate_check.py process
    gates,      \* run_gates() of verify.py: what it makes of the child's output
    level,      \* status of tests, imports and e2e
    imported,   \* modules that import smoke has done
    report,     \* the result that is printed
    exit,       \* the exit code, or NoCode
    changes

vars == <<plane, absent, waived, pc, who, opts, child, gates, level, imported, report, exit, changes>>

NoCode == 9
Outcomes == {"PASS", "FAIL"}
Status == Outcomes \cup {"SKIPPED"}
Callers == {"verify", "install", "hand"}

NoOptions == [gatesOnly |-> FALSE, e2e |-> FALSE, key |-> FALSE, inside |-> FALSE]
Options == [gatesOnly : BOOLEAN, e2e : BOOLEAN, key : BOOLEAN, inside : BOOLEAN]

-----------------------------------------------------------------------------
\* gate_check.py: what each gate finds in the plane it reads.  None of the
\* modules that check a work order is part of the plane, so a gate that is given
\* one fails.

Finds(d) == IF d \in plane THEN "FAIL" ELSE "PASS"

PackageDeclaration(manifest) == IF manifest = "good" THEN "PASS" ELSE "FAIL"
\* load_governed_roots(): a file that is there is read, and must be JSON.
RootsKnown == "config" \notin plane
PlaneOwnership == IF RootsKnown THEN Finds("files") ELSE "raise"
Chain == IF "manifest" \in plane THEN "raise" ELSE Finds("chain")

\* Bug: a manifest that cannot be read is passed over.
Completeness_Lenient == IF {"validator", "manifest"} \cap plane # {} THEN "PASS" ELSE Finds("wiring")

Completeness ==
    IF "validator" \in plane THEN "PASS"
    ELSE IF "manifest" \in plane THEN "raise" ELSE Finds("wiring")

WorkOrderGate(wo) == IF wo THEN "FAIL" ELSE "PASS"
Constraints(wo) == IF wo THEN "FAIL" ELSE "PASS"
Acceptance(wo) == IF wo THEN "FAIL" ELSE "PASS"
Signature(wo) == IF wo THEN "FAIL" ELSE "PASS"
LedgerGate == IF "ledger" \in plane THEN "raise" ELSE "PASS"

AllGates == <<"G0B", "G1", "G1-COMPLETE", "G2", "G3", "G4", "G5", "G6">>

\* run_gates(): which function it calls, and with what.
Outcome(g) ==
    CASE g \in {"G0", "G0B"} -> PlaneOwnership
      [] g = "G0A" -> PackageDeclaration(child.cmd.manifest)
      [] g = "G1" -> Chain
      [] g = "G1-COMPLETE" -> Completeness
      [] g = "G2" -> WorkOrderGate(child.cmd.wo)
      [] g = "G3" -> Constraints(FALSE)
      [] g = "G4" -> Acceptance(FALSE)
      [] g = "G5" -> Signature(FALSE)
      [] g = "G6" -> LedgerGate
      [] OTHER -> "FAIL"

Passed(lines) == \A i \in DOMAIN lines : lines[i].result = "PASS"

AsAll == [list |-> AllGates, enforce |-> FALSE, manifest |-> "none", wo |-> FALSE]
NoChild == [state |-> "none", cmd |-> AsAll, list |-> <<>>, done |-> <<>>, lines |-> <<>>]

Spawn(c) == child' = [NoChild EXCEPT !.state = "running", !.cmd = c, !.list = c.list]

\* One gate; with --enforce the first that fails is the last.  One that raises
\* ends the process before it has printed anything.
RunGate ==
    /\ child.state = "running" /\ child.list # <<>>
    /\ LET g == Head(child.list)
           r == IF "kernel" \in plane /\ child.done = <<>> THEN "raise" ELSE Outcome(g)
       IN  child' = IF r = "raise" THEN [child EXCEPT !.state = "ended", !.list = <<>>]
                    ELSE [child EXCEPT !.done = Append(@, [gate |-> g, result |-> r]),
                                       !.list = IF r = "FAIL" /\ child.cmd.enforce THEN <<>> ELSE Tail(@)]
    /\ UNCHANGED <<plane, absent, waived, pc, who, opts, gates, level, imported, report, exit, changes>>

PrintGates ==
    /\ child.state = "running" /\ child.list = <<>>
    /\ child' = [child EXCEPT !.state = "ended", !.lines = child.done]
    /\ UNCHANGED <<plane, absent, waived, pc, who, opts, gates, level, imported, report, exit, changes>>

-----------------------------------------------------------------------------
Init ==
    /\ plane \in Planes
    /\ absent = {}
    /\ waived = FALSE
    /\ pc = "idle"
    /\ who = "hand"
    /\ opts = NoOptions
    /\ child = NoChild
    /\ gates = <<>>
    /\ level = [l \in {"tests", "imports", "e2e"} |-> "SKIPPED"]
    /\ imported = {}
    /\ report = "SKIPPED"
    /\ exit = NoCode
    /\ changes = 0

Go(where) == pc' = where
Return(code) == exit' = code /\ pc' = "done"

\* An installer, an editor or a session at work on the plane during the check.
Change(d) ==
    /\ pc \notin {"idle", "done"}
    /\ changes < MaxChanges
    /\ changes' = changes + 1
    /\ plane' = (plane \ {d}) \cup ({d} \ plane)
    /\ absent' = absent \cup (Defects \ plane')
    /\ waived' = (waived \/ "validator" \in plane')
    /\ UNCHANGED <<pc, who, opts, child, gates, level, imported, report, exit>>

Begin(w) ==
    /\ pc = "idle"
    /\ who' = w
    /\ absent' = Defects \ plane
    /\ waived' = ("validator" \in plane)
    /\ UNCHANGED <<plane, gates, level, imported, report, exit, changes>>

\* gate_check.py by hand, or by a script that takes its exit code.
ByHand(c) ==
    /\ Begin("hand")
    /\ "script" \notin plane
    /\ Go("wait")
    /\ Spawn(c)
    /\ UNCHANGED opts

HandExits ==
    /\ pc = "wait" /\ who = "hand" /\ child.state = "ended"
    /\ Return(IF child.lines # <<>> /\ Passed(child.lines) THEN 0 ELSE 1)
    /\ UNCHANGED <<plane, absent, waived, who, opts, child, gates, level, imported, report, changes>>

\* Step 5 of install.sh: the exit code is not looked at, the lines are counted.
ByInstall ==
    /\ Begin("install")
    /\ Go("wait")
    /\ IF "script" \in plane THEN child' = [NoChild EXCEPT !.state = "ended"]
       ELSE Spawn(AsAll)
    /\ UNCHANGED opts

Counted(lines) == \E i \in DOMAIN lines : lines[i].result = "FAIL"

InstallExits ==
    /\ pc = "wait" /\ who = "install" /\ child.state = "ended"
    /\ Return(IF Counted(child.lines) THEN 3 ELSE 0)
    /\ UNCHANGED <<plane, absent, waived, who, opts, child, gates, level, imported, report, changes>>

\* verify.py.
ByVerify(o) ==
    /\ Begin("verify")
    /\ Go("validate")
    /\ opts' = o
    /\ UNCHANGED child

ValidateRoot ==
    /\ pc = "validate"
    /\ IF "script" \in plane THEN Return(2) /\ UNCHANGED child
       ELSE Go("gates") /\ Spawn(AsAll) /\ UNCHANGED exit
    /\ UNCHANGED <<plane, absent, waived, who, opts, gates, level, imported, report, changes>>

\* Which levels follow.
AfterGates == IF opts.gatesOnly THEN "report" ELSE "tests"
AfterImports == IF opts.e2e THEN "e2e" ELSE "report"

\* Level 1: the lines are parsed out of the output, whatever the exit code says.
ParseGates ==
    /\ pc = "gates" /\ child.state = "ended"
    /\ gates' = child.lines
    /\ Go(AfterGates)
    /\ UNCHANGED <<plane, absent, waived, who, opts, child, level, imported, report, exit, changes>>

\* Bug: without a timeout.
GatesTimeOut_Waiting ==
    /\ pc = "gates" /\ child.state = "ended" /\ child.lines = <<>>
    /\ gates' = <<[gate |-> "TIMEOUT", result |-> "FAIL"]>>
    /\ Go(AfterGates)
    /\ UNCHANGED <<plane, absent, waived, who, opts, child, level, imported, report, exit, changes>>

\* A subprocess that takes too long is killed, and one that cannot be started is
\* treated alike.
GatesTimeOut ==
    /\ pc = "gates" /\ child.state = "running"
    /\ gates' = <<[gate |-> "TIMEOUT", result |-> "FAIL"]>>
    /\ child' = [child EXCEPT !.state = "ended"]
    /\ Go(AfterGates)
    /\ UNCHANGED <<plane, absent, waived, who, opts, level, imported, report, exit, changes>>

\* What pytest counts and its exit code come to, and what the session has said.
PytestStatus == Finds("tests")
E2EStatus == Finds("main")
E2ESkipped == ~opts.key

\* Level 2: pytest over the files there are.  Level 4 is the only one that looks at
\* what is said; neither ends without an answer or a timeout.
RunTests(late) ==
    /\ pc = "tests"
    /\ level' = [level EXCEPT !["tests"] = IF late THEN "FAIL" ELSE PytestStatus]
    /\ Go("imports")
    /\ UNCHANGED <<plane, absent, waived, who, opts, child, gates, imported, report, exit, changes>>

\* Level 3: one process per module.
Failed(late, m) == late \/ m \in plane
Import(m, late) ==
    /\ pc = "imports" /\ m \notin imported
    /\ imported' = imported \cup {m}
    /\ level' = [level EXCEPT !["imports"] =
                   IF Failed(late, m) \/ level["imports"] = "FAIL" THEN "FAIL" ELSE "PASS"]
    /\ UNCHANGED <<plane, absent, waived, pc, who, opts, child, gates, report, exit, changes>>

ImportsDone ==
    /\ pc = "imports" /\ imported = Modules
    /\ Go(AfterImports)
    /\ UNCHANGED <<plane, absent, waived, who, opts, child, gates, level, imported, report, exit, changes>>

RunE2E(late) ==
    /\ pc = "e2e"
    /\ level' = [level EXCEPT !["e2e"] =
                   IF E2ESkipped THEN "SKIPPED"
                   ELSE IF late THEN "FAIL" ELSE E2EStatus]
    /\ Go("report")
    /\ UNCHANGED <<plane, absent, waived, who, opts, child, gates, imported, report, exit, changes>>

\* build_report(): no result of a gate is a failure of the level.
GatesStatus == IF gates # <<>> /\ Passed(gates) THEN "PASS" ELSE "FAIL"
BuildReport ==
    /\ pc = "report"
    /\ report' = IF GatesStatus = "PASS" /\ \A l \in DOMAIN level : level[l] # "FAIL"
                 THEN "PASS" ELSE "FAIL"
    /\ Go("exit")
    /\ UNCHANGED <<plane, absent, waived, who, opts, child, gates, level, imported, exit, changes>>

\* Bug: the exit code counts the levels that have failed.
ExitCode_Counting ==
    Cardinality({l \in DOMAIN level : level[l] = "FAIL"}) + (IF Passed(gates) THEN 0 ELSE 1)

\* Bug: the imports do not count.
ExitCode_NoImports ==
    IF Passed(gates) /\ level["tests"] # "FAIL" /\ level["e2e"] # "FAIL" THEN 0 ELSE 1

\* compute_exit_code(): here no result of a gate is no failure.
ExitCode == IF Passed(gates) /\ \A l \in DOMAIN level : level[l] # "FAIL" THEN 0 ELSE 1

\* A report that was asked for inside the root is refused after it was printed.
Exit ==
    /\ pc = "exit"
    /\ Return(IF opts.inside THEN 2 ELSE ExitCode)
    /\ UNCHANGED <<plane, absent, waived, who, opts, child, gates, level, imported, report, changes>>

-----------------------------------------------------------------------------
GateCheck == RunGate \/ PrintGates

Verify ==
    \/ ValidateRoot \/ ParseGates \/ GatesTimeOut
    \/ \E late \in BOOLEAN : RunTests(late) \/ RunE2E(late) \/ \E m \in Modules : Import(m, late)
    \/ ImportsDone \/ BuildReport \/ Exit

Next ==
    \/ \E d \in Defects : Change(d)
    \/ (\E c \in Commands : ByHand(c)) \/ ByInstall \/ (\E o \in Options : ByVerify(o))
    \/ GateCheck \/ HandExits \/ InstallExits \/ Verify

\* verify.py is one thread whose every wait has a timeout.  Nothing is assumed of
\* the process it waits for.
FairSpec == Init /\ [][Next]_vars /\ WF_vars(Verify)

-----------------------------------------------------------------------------
Lines == Seq([gate : GateNames \cup {"TIMEOUT"}, result : Outcomes])

\* Types: gates speak only of gates there are, exit codes are those of the code.
TypeOK ==
    /\ plane \subseteq Defects /\ absent \subseteq Defects /\ waived \in BOOLEAN
    /\ pc \in {"idle", "wait", "validate", "gates", "tests", "imports", "e2e", "report", "exit", "done"}
    /\ who \in Callers
    /\ opts \in Options
    /\ gates \in Lines /\ child.lines \in Lines /\ child.done \in Lines
    /\ level \in [{"tests", "imports", "e2e"} -> Status]
    /\ imported \subseteq Modules
    /\ report \in Status
    /\ exit \in {NoCode, 0, 1, 2, 3}
    /\ changes \in 0..MaxChanges

\* What a passing gate says is right.  A validator that cannot be imported is waived.
VouchedBy(g) ==
    CASE g \in {"G0", "G0B"} -> {"files", "config"}
      [] g = "G1" -> {"chain", "manifest"}
      [] g = "G1-COMPLETE" -> IF waived THEN {} ELSE {"wiring"}
      [] g = "G6" -> {"ledger"}
      [] OTHER -> {}
Vouched ==
    (UNION {VouchedBy(child.cmd.list[i]) : i \in DOMAIN child.cmd.list})
    \cup (IF who # "verify" \/ opts.gatesOnly THEN {}
          ELSE {"tests"} \cup Modules
               \cup (IF opts.e2e /\ opts.key THEN {"main"} ELSE {}))

\* A success is earned: who says that the plane is sound, on the word of gates that
\* spoke, has looked at each thing it vouches for at a moment when it was right,
\* whatever is changed meanwhile.
PassIsEarned == pc = "done" /\ exit = 0 /\ child.lines # <<>> => Vouched \subseteq absent

\* The exit code of verify.py is that of its report when the gates said anything.
ExitAgrees ==
    pc = "done" /\ who = "verify" /\ exit \in {0, 1} /\ gates # <<>> =>
        (exit = 0 <=> report = "PASS")

\* "Exit 0 = all checks pass": the exit code is that of the report.
ExitTellsReport ==
    pc = "done" /\ who = "verify" /\ exit = 0 => report = "PASS"

\* verify.py ends although the processes it starts may hang.
VerifyEnds == pc = "validate" ~> pc = "done"
=============================================================================
