------------------------- MODULE InstallationProofs -------------------------
(* Proofs about overlapping installations, for every set of packages, of    *)
(* archives and of operators, every order of their steps, and every call    *)
(* that raises or process that is killed.                                   *)
EXTENDS Installation, FiniteSetTheorems, SequenceTheorems, TLAPS

\* The actions of Next, for the case split of every invariance proof.
LEMMA Cases ==
  ASSUME [Next]_vars
  PROVE  \/ \E p \in Operators, a \in Archives, o \in Options : Begin(p, a, o)
         \/ \E p \in Procs : Gates(p) \/ Owners(p) \/ Backup(p)
         \/ \E p \in Procs, f \in Paths : Copy(p, f) \/ TargetExists(p, f)
         \/ \E p \in Procs : Validate(p) \/ LogInstalled(p) \/ AppendRows(p)
                             \/ WriteReceipt(p) \/ Fail(p)
         \/ \E p \in Procs, t \in BOOLEAN : Raise(p, t) \/ Crash(p, t)
         \/ \E o \in Options : StartScript(o)
         \/ \E f \in Paths : ExtractKernel(f)
         \/ \E t \in BOOLEAN : ScriptDies(t)
         \/ \E f \in Paths : TarDies(f)
         \/ ExtractSeed \/ VerifyKernel \/ KernelReceipt \/ KernelRows \/ SeedRows
         \/ SeedReceipt \/ Resolve \/ InstallNext \/ LoopEnds \/ GateCheck
         \/ UNCHANGED vars
BY DEF Next, Install, Bootstrapping

-----------------------------------------------------------------------------
(* Types                                                                    *)

LEMMA Constants ==
  /\ Script \in Procs /\ Operators \subseteq Procs
  /\ \A a \in Archives : Files[a] \subseteq Paths /\ PackageOf[a] \in Packages
  /\ Seed \in Archives /\ Kernel \in Archives
  /\ SeedPkg \in Packages /\ KernelPkg \in Packages
  /\ Bundle \subseteq Archives
  /\ \A o \in Options : o \subseteq {"force", "dry", "dev"}
  /\ Archives \subseteq Contents /\ Truncated \in Contents /\ Truncated \notin Archives
  /\ None \notin Contents
BY ArchivesAssumption DEF Procs, SeedPkg, KernelPkg, Contents

\* The tree, a run of the installer and install.sh, of the right types.
TreeOK ==
  /\ disk \in [Paths -> Contents \cup {None}]
  /\ owner \in [Paths -> Packages \cup {None}]
  /\ recorded \in [Paths -> Contents \cup {None}]
  /\ receipts \in [Packages -> SUBSET (Paths \X Contents)]
  /\ torn \subseteq Packages
  /\ manifest \in [Packages -> Archives \cup {None}]

RunOK ==
  /\ pc \in [Procs -> Running \cup Ended]
  /\ job \in [Procs -> Archives]
  /\ opts \in [Procs -> Options \cup {{}}]
  /\ todo \in [Procs -> SUBSET Paths]
  /\ taken \in [Procs -> SUBSET Paths]
  /\ saved \in [Procs -> SUBSET (Paths \X Contents)]
  /\ ends \in [Procs -> SUBSET {"INSTALLED", "INSTALL_FAILED"}]

ScriptOK ==
  /\ stage \in Bootstrap \cup Closed
  /\ queue \in Seq(Bundle)
  /\ runs \in 0..MaxRuns /\ faults \in 0..MaxFaults
  /\ marks \subseteq Marks

LEMMA Parts == TypeOK <=> TreeOK /\ RunOK /\ ScriptOK
BY DEF TypeOK, TreeOK, RunOK, ScriptOK

\* A rollback puts back what was there.
LEMMA RestoredType ==
  ASSUME TreeOK, NEW p \in Procs
  PROVE  Restored(p) \in [Paths -> Contents \cup {None}]
<1>1. ASSUME NEW f \in Paths, NEW c \in Contents, <<f, c>> \in saved[p]
      PROVE  (CHOOSE d \in Contents : <<f, d>> \in saved[p]) \in Contents
  BY <1>1
<1>2. ASSUME NEW f \in Paths
      PROVE  Restored(p)[f] \in Contents \cup {None}
  BY <1>1, <1>2 DEF Restored, TreeOK
<1>3. Restored(p) = [f \in Paths |-> Restored(p)[f]]
  BY DEF Restored
<1>. QED BY <1>2, <1>3

LEMMA HashedType ==
  ASSUME NEW F \in SUBSET Paths
  PROVE  Hashed(F) \in SUBSET (Paths \X Contents)
BY DEF Hashed

LEMMA TreeStep ==
  ASSUME TypeOK, [Next]_vars
  PROVE  TreeOK'
<1>0. TreeOK /\ RunOK /\ ScriptOK
  BY Parts
<1>1. ASSUME NEW p \in Operators, NEW a \in Archives, NEW o \in Options, Begin(p, a, o)
      PROVE  TreeOK'
  BY <1>0, <1>1 DEF Begin, tree, TreeOK
<1>2. ASSUME NEW p \in Procs, Gates(p) \/ Owners(p) \/ Backup(p)
      PROVE  TreeOK'
  BY <1>0, <1>2 DEF Gates, Owners, Backup, tree, TreeOK
<1>3. ASSUME NEW p \in Procs, NEW f \in Paths, Copy(p, f) \/ TargetExists(p, f)
      PROVE  TreeOK'
  <2>1. job[p] \in Contents
    BY <1>0, Constants DEF RunOK
  <2>. QED BY <1>0, <1>3, <2>1 DEF Copy, TargetExists, tree, TreeOK
<1>4. ASSUME NEW p \in Procs, Validate(p)
      PROVE  TreeOK'
  BY <1>0, <1>4, RestoredType DEF Validate, TreeOK
<1>5. ASSUME NEW p \in Procs, LogInstalled(p) \/ Fail(p)
      PROVE  TreeOK'
  BY <1>0, <1>5 DEF LogInstalled, Fail, tree, TreeOK
<1>6. ASSUME NEW p \in Procs, AppendRows(p)
      PROVE  TreeOK'
  <2>1. Package(p) \in Packages
    BY <1>0, Constants DEF RunOK, Package
  <2>2. \A f \in Paths : disk[f] \in Contents \cup {None}
    BY <1>0 DEF TreeOK
  <2>. QED BY <1>0, <1>6, <2>1, <2>2 DEF AppendRows, TreeOK
<1>7. ASSUME NEW p \in Procs, WriteReceipt(p)
      PROVE  TreeOK'
  <2>1. Package(p) \in Packages /\ Assets(p) \in SUBSET Paths /\ job[p] \in Archives
    BY <1>0, Constants DEF RunOK, Package, Assets
  <2>2. Hashed(Assets(p)) \in SUBSET (Paths \X Contents)
    BY <2>1, HashedType
  <2>. QED BY <1>0, <1>7, <2>1, <2>2 DEF WriteReceipt, TreeOK
<1>8. ASSUME NEW p \in Procs, NEW t \in BOOLEAN, Raise(p, t) \/ Crash(p, t)
      PROVE  TreeOK'
  <2>1. Package(p) \in Packages
    BY <1>0, Constants DEF RunOK, Package
  <2>. QED BY <1>0, <1>8, <2>1 DEF Raise, Crash, Tear, TreeOK
<1>9. ASSUME NEW o \in Options, StartScript(o)
      PROVE  TreeOK'
  BY <1>0, <1>9 DEF StartScript, tree, TreeOK
<1>10. ASSUME NEW f \in Paths, ExtractKernel(f)
       PROVE  TreeOK'
  BY <1>0, <1>10, Constants DEF ExtractKernel, TreeOK
<1>11. ASSUME NEW t \in BOOLEAN, ScriptDies(t)
       PROVE  TreeOK'
  BY <1>0, <1>11, Constants DEF ScriptDies, TreeOK
<1>12. CASE ExtractSeed
  BY <1>0, <1>12, Constants DEF ExtractSeed, TreeOK
<1>13. CASE KernelReceipt \/ SeedReceipt
  <2>1. /\ Hashed(Files[Kernel]) \in SUBSET (Paths \X Contents)
        /\ Hashed(Files[Seed]) \in SUBSET (Paths \X Contents)
    BY Constants, HashedType
  <2>. QED BY <1>0, <1>13, <2>1, Constants DEF KernelReceipt, SeedReceipt, TreeOK
<1>14. CASE KernelRows \/ SeedRows
  <2>1. \A f \in Paths : disk[f] \in Contents \cup {None}
    BY <1>0 DEF TreeOK
  <2>. QED BY <1>0, <1>14, <2>1, Constants DEF KernelRows, SeedRows, TreeOK
<1>16. ASSUME NEW f \in Paths, TarDies(f)
       PROVE  TreeOK'
  BY <1>0, <1>16, Constants DEF TarDies, TreeOK
<1>15. CASE VerifyKernel \/ Resolve \/ InstallNext \/ LoopEnds \/ GateCheck \/ UNCHANGED vars
  BY <1>0, <1>15 DEF VerifyKernel, Resolve, InstallNext, LoopEnds, GateCheck, vars, tree, TreeOK
<1>. QED
  BY Cases, <1>1, <1>2, <1>3, <1>4, <1>5, <1>6, <1>7, <1>8, <1>9, <1>10, <1>11, <1>12, <1>13,
     <1>14, <1>15, <1>16

\* What the start of a run sets.
LEMMA LaunchType ==
  ASSUME RunOK, NEW p \in Procs, NEW a \in Archives, NEW o \in Options \cup {{}}, Launch(p, a, o)
  PROVE  RunOK'
BY DEF Launch, Goto, RunOK, Running, Ended

\* How a run moves on when it changes no more than where it is.
LEMMA GotoType ==
  ASSUME RunOK, NEW p \in Procs, NEW where \in Running \cup Ended, Goto(p, where)
  PROVE  pc' \in [Procs -> Running \cup Ended]
BY DEF Goto, RunOK

LEMMA RunStep ==
  ASSUME TypeOK, [Next]_vars
  PROVE  RunOK'
<1>0. TreeOK /\ RunOK /\ ScriptOK
  BY Parts
<1>a. \A p \in Procs : /\ job[p] \in Archives
                       /\ Assets(p) \in SUBSET Paths
                       /\ Foreign(job[p]) \in SUBSET Paths
                       /\ {e \in Assets(p) \X Contents : disk[e[1]] = e[2]}
                            \in SUBSET (Paths \X Contents)
  BY <1>0, Constants DEF RunOK, Assets, Foreign, Owned
<1>1. ASSUME NEW p \in Operators, NEW a \in Archives, NEW o \in Options, Begin(p, a, o)
      PROVE  RunOK'
  BY <1>0, <1>1, Constants, LaunchType DEF Begin
<1>2. ASSUME NEW p \in Procs, Gates(p)
      PROVE  RunOK'
  BY <1>0, <1>2 DEF Gates, Goto, RunOK, Running, Ended
<1>3. ASSUME NEW p \in Procs, Owners(p)
      PROVE  RunOK'
  <2>1. pc' \in [Procs -> Running \cup Ended]
    BY <1>0, <1>3 DEF Owners, Goto, RunOK, Running, Ended
  <2>2. taken' \in [Procs -> SUBSET Paths]
    BY <1>0, <1>a, <1>3 DEF Owners, RunOK
  <2>. QED BY <1>0, <1>3, <2>1, <2>2 DEF Owners, RunOK
<1>4. ASSUME NEW p \in Procs, Backup(p)
      PROVE  RunOK'
  BY <1>0, <1>4, <1>a DEF Backup, Goto, RunOK, Running, Ended
<1>5. ASSUME NEW p \in Procs, NEW f \in Paths, Copy(p, f) \/ TargetExists(p, f)
      PROVE  RunOK'
  BY <1>0, <1>5 DEF Copy, TargetExists, Goto, RunOK, Running, Ended
<1>6. ASSUME NEW p \in Procs, Validate(p)
      PROVE  RunOK'
  BY <1>0, <1>6 DEF Validate, Goto, RunOK, Running, Ended
<1>7. ASSUME NEW p \in Procs, LogInstalled(p) \/ Fail(p)
      PROVE  RunOK'
  BY <1>0, <1>7 DEF LogInstalled, Fail, Goto, RunOK, Running, Ended
<1>8. ASSUME NEW p \in Procs, AppendRows(p) \/ WriteReceipt(p)
      PROVE  RunOK'
  BY <1>0, <1>8 DEF AppendRows, WriteReceipt, Goto, RunOK, Running, Ended
<1>9. ASSUME NEW p \in Procs, NEW t \in BOOLEAN, Raise(p, t) \/ Crash(p, t)
      PROVE  RunOK'
  BY <1>0, <1>9 DEF Raise, Crash, Goto, RunOK, Running, Ended
<1>10. ASSUME NEW o \in Options, StartScript(o)
       PROVE  RunOK'
  BY <1>0, <1>10, Constants DEF StartScript, Goto, RunOK, Running, Ended
<1>11. ASSUME NEW f \in Paths, ExtractKernel(f)
       PROVE  RunOK'
  BY <1>0, <1>11, Constants DEF ExtractKernel, RunOK
<1>12. CASE VerifyKernel
  BY <1>0, <1>12, Constants DEF VerifyKernel, RunOK
<1>13. CASE InstallNext
  <2>1. Head(queue) \in Archives /\ opts[Script] \in Options \cup {{}}
    BY <1>0, <1>13, Constants DEF InstallNext, ScriptOK, RunOK
  <2>. QED BY <1>0, <1>13, <2>1, Constants, LaunchType DEF InstallNext
<1>14. ASSUME NEW t \in BOOLEAN, ScriptDies(t)
       PROVE  RunOK'
  BY <1>0, <1>14 DEF ScriptDies, run, RunOK
<1>16. ASSUME NEW f \in Paths, TarDies(f)
       PROVE  RunOK'
  BY <1>0, <1>16 DEF TarDies, run, RunOK
<1>15. CASE \/ ExtractSeed \/ KernelReceipt \/ KernelRows \/ SeedRows \/ SeedReceipt
            \/ Resolve \/ LoopEnds \/ GateCheck \/ UNCHANGED vars
  BY <1>0, <1>15
  DEF ExtractSeed, KernelReceipt, KernelRows, SeedRows, SeedReceipt, Resolve, LoopEnds, GateCheck,
      vars, run, RunOK
<1>. QED
  BY Cases, <1>1, <1>2, <1>3, <1>4, <1>5, <1>6, <1>7, <1>8, <1>9, <1>10, <1>11, <1>12, <1>13,
     <1>14, <1>15, <1>16

\* The resolver answers with a sequence of packages of the bundle.
LEMMA OrdersType == Orders \subseteq Seq(Bundle)
<1>1. IsFiniteSet(Bundle)
  BY ArchivesAssumption, FS_Subset
<1>2. Cardinality(Bundle) \in Nat
  BY <1>1, FS_CardinalityType
<1>. QED BY <1>2 DEF Orders

\* Nothing that has happened is forgotten.
LEMMA MarksGrow ==
  ASSUME TypeOK, [Next]_vars
  PROVE  marks \subseteq marks' /\ marks' \subseteq Marks
<1>0. marks \subseteq Marks
  BY DEF TypeOK
<1>a. \A p : LeftOvers(p) \subseteq Marks
  BY DEF LeftOvers, Marks
<1>b. {"cut", "overwrite", "torn", "overlap", "forgot"} = Marks
  BY DEF Marks
<1>1. ASSUME NEW p \in Procs, NEW f \in Paths, TargetExists(p, f)
      PROVE  marks \subseteq marks' /\ marks' \subseteq Marks
  BY <1>0, <1>a, <1>1 DEF TargetExists
<1>2. ASSUME NEW p \in Procs, Validate(p)
      PROVE  marks \subseteq marks' /\ marks' \subseteq Marks
  BY <1>0, <1>a, <1>2 DEF Validate
<1>3. ASSUME NEW p \in Procs, NEW t \in BOOLEAN, Raise(p, t) \/ Crash(p, t)
      PROVE  marks \subseteq marks' /\ marks' \subseteq Marks
  <2>1. Tear(p, t)
    BY <1>3 DEF Raise, Crash
  <2>. QED BY <1>0, <1>a, <1>b, <2>1 DEF Tear
<1>4. ASSUME NEW t \in BOOLEAN, ScriptDies(t)
      PROVE  marks \subseteq marks' /\ marks' \subseteq Marks
  BY <1>0, <1>b, <1>4 DEF ScriptDies
<1>7. ASSUME NEW f \in Paths, TarDies(f)
      PROVE  marks \subseteq marks' /\ marks' \subseteq Marks
  BY <1>0, <1>b, <1>7 DEF TarDies
<1>5. ASSUME \/ \E p \in Operators, a \in Archives, o \in Options : Begin(p, a, o)
             \/ \E o \in Options : StartScript(o)
             \/ VerifyKernel
             \/ KernelRows
      PROVE  marks \subseteq marks' /\ marks' \subseteq Marks
  BY <1>0, <1>b, <1>5 DEF Begin, StartScript, VerifyKernel, KernelRows
<1>6. ASSUME \/ \E p \in Procs : Gates(p) \/ Owners(p) \/ Backup(p) \/ LogInstalled(p) \/ AppendRows(p)
                                 \/ WriteReceipt(p) \/ Fail(p)
             \/ \E p \in Procs, f \in Paths : Copy(p, f)
             \/ \E f \in Paths : ExtractKernel(f)
             \/ ExtractSeed \/ KernelReceipt \/ SeedRows \/ SeedReceipt
             \/ Resolve \/ InstallNext \/ LoopEnds \/ GateCheck \/ UNCHANGED vars
      PROVE  marks' = marks
  BY <1>6 DEF Gates, Owners, Backup, LogInstalled, AppendRows, WriteReceipt, Fail, Copy,
     ExtractKernel, ExtractSeed, KernelReceipt, SeedRows, SeedReceipt, Resolve, InstallNext,
     LoopEnds, GateCheck, vars
<1>. QED BY Cases, <1>0, <1>1, <1>2, <1>3, <1>4, <1>5, <1>6, <1>7

LEMMA ScriptStep ==
  ASSUME TypeOK, [Next]_vars
  PROVE  ScriptOK'
<1>0. TreeOK /\ RunOK /\ ScriptOK
  BY Parts
<1>m. marks' \subseteq Marks
  BY MarksGrow
<1>n. MaxRuns \in Nat /\ MaxFaults \in Nat
  BY ArchivesAssumption
<1>1. ASSUME NEW p \in Operators, NEW a \in Archives, NEW o \in Options, Begin(p, a, o)
      PROVE  ScriptOK'
  BY <1>0, <1>m, <1>n, <1>1 DEF Begin, ScriptOK
<1>2. ASSUME NEW p \in Procs, NEW t \in BOOLEAN, Raise(p, t) \/ Crash(p, t)
      PROVE  ScriptOK'
  <2>1. stage' \in Bootstrap \cup Closed
    BY <1>0, <1>2 DEF Raise, Crash, ScriptOK, Closed
  <2>. QED BY <1>0, <1>m, <1>n, <1>2, <2>1 DEF Raise, Crash, ScriptOK
<1>3. ASSUME NEW o \in Options, StartScript(o)
      PROVE  ScriptOK'
  BY <1>0, <1>m, <1>n, <1>3 DEF StartScript, Advance, ScriptOK, Bootstrap
<1>4. ASSUME NEW t \in BOOLEAN, ScriptDies(t)
      PROVE  ScriptOK'
  BY <1>0, <1>m, <1>n, <1>4 DEF ScriptDies, Advance, ScriptOK, Closed
<1>9. ASSUME NEW f \in Paths, TarDies(f)
      PROVE  ScriptOK'
  BY <1>0, <1>m, <1>n, <1>9 DEF TarDies, Advance, ScriptOK, Closed
<1>5. CASE Resolve
  <2>1. queue' \in Seq(Bundle)
    BY <1>0, <1>5, OrdersType DEF Resolve, ScriptOK
  <2>. QED BY <1>0, <1>m, <1>5, <2>1 DEF Resolve, Advance, ScriptOK, Bootstrap, Closed
<1>6. CASE InstallNext
  BY <1>0, <1>m, <1>6 DEF InstallNext, ScriptOK
<1>7. CASE \/ ExtractSeed \/ VerifyKernel \/ KernelReceipt \/ KernelRows \/ SeedRows
           \/ SeedReceipt \/ LoopEnds \/ GateCheck
  <2>1. stage' \in Bootstrap \cup Closed
    BY <1>7 DEF ExtractSeed, VerifyKernel, KernelReceipt, KernelRows, SeedRows, SeedReceipt,
       LoopEnds, GateCheck, Advance, Bootstrap, Closed
  <2>. QED BY <1>0, <1>m, <1>7, <2>1
    DEF ExtractSeed, VerifyKernel, KernelReceipt, KernelRows, SeedRows, SeedReceipt, LoopEnds,
        GateCheck, ScriptOK
<1>8. ASSUME \/ \E p \in Procs : Gates(p) \/ Owners(p) \/ Backup(p) \/ Validate(p)
                                 \/ LogInstalled(p) \/ AppendRows(p) \/ WriteReceipt(p) \/ Fail(p)
             \/ \E p \in Procs, f \in Paths : Copy(p, f) \/ TargetExists(p, f)
             \/ \E f \in Paths : ExtractKernel(f)
             \/ UNCHANGED vars
      PROVE  UNCHANGED <<stage, queue, runs, faults>>
  BY <1>8 DEF Gates, Owners, Backup, Validate, LogInstalled, AppendRows, WriteReceipt, Fail, Copy,
     TargetExists, ExtractKernel, vars
<1>. QED
  BY Cases, <1>0, <1>m, <1>1, <1>2, <1>3, <1>4, <1>5, <1>6, <1>7, <1>8, <1>9 DEF ScriptOK

LEMMA TypeInit ==
  ASSUME Init
  PROVE  TypeOK
BY Constants, ArchivesAssumption DEF Init, TypeOK, Running, Ended, Closed, Marks

\* Every reachable state is well typed: what is on the disk and in a receipt
\* comes from an archive, what has an owner has a package.
THEOREM TypeCorrect == Spec => []TypeOK
<1>1. ASSUME TypeOK, [Next]_vars
      PROVE  TypeOK'
  <2>1. TreeOK' /\ RunOK' /\ ScriptOK'
    BY <1>1, TreeStep, RunStep, ScriptStep
  <2>. QED BY <2>1 DEF TypeOK, TreeOK, RunOK, ScriptOK
<1>. QED BY TypeInit, <1>1, PTL DEF Spec

-----------------------------------------------------------------------------
(* How a run ends                                                           *)

\* What the ledger says of a run at each of its steps.
EndOf(p) ==
  /\ pc[p] \in {"gates", "owners", "backup", "copy", "log"} => ends[p] = {}
  /\ pc[p] \in {"rows", "receipt"} => ends[p] = {"INSTALLED"}
  /\ pc[p] \in {"backup", "copy", "log", "rows", "receipt"} => "dry" \notin opts[p]
  /\ pc[p] = "done" => ends[p] = IF "dry" \in opts[p] THEN {} ELSE {"INSTALLED"}
  /\ pc[p] = "fail" /\ faults = 0 => ends[p] = {}
  /\ pc[p] = "refused" /\ faults = 0 => ends[p] = {"INSTALL_FAILED"}

Told == \A p \in Procs : EndOf(p)

\* A step of p leaves what is said of the others.
LEMMA OthersTold ==
  ASSUME Told, NEW p \in Procs, faults \in Nat, faults' \in Nat, faults <= faults',
         \A q \in Procs \ {p} : pc'[q] = pc[q] /\ ends'[q] = ends[q] /\ opts'[q] = opts[q],
         EndOf(p)'
  PROVE  Told'
<1>1. ASSUME NEW q \in Procs \ {p}
      PROVE  EndOf(q)'
  <2>1. pc'[q] = pc[q] /\ ends'[q] = ends[q] /\ opts'[q] = opts[q]
    OBVIOUS
  <2>2. faults' = 0 => faults = 0
    OBVIOUS
  <2>. QED BY <2>1, <2>2 DEF Told, EndOf
<1>. QED BY <1>1 DEF Told

LEMMA ToldStep ==
  ASSUME TypeOK, TypeOK', Told, [Next]_vars
  PROVE  Told'
<1>0. /\ pc \in [Procs -> Running \cup Ended] /\ ends \in [Procs -> SUBSET {"INSTALLED", "INSTALL_FAILED"}]
      /\ opts \in [Procs -> Options \cup {{}}] /\ faults \in Nat /\ faults' \in Nat
  BY DEF TypeOK
<1>1. ASSUME NEW p \in Procs, NEW a, NEW o, Launch(p, a, o), faults' = faults
      PROVE  Told'
  <2>1. EndOf(p)'
    BY <1>0, <1>1 DEF Launch, Goto, EndOf
  <2>. QED BY <1>0, <1>1, <2>1, OthersTold DEF Launch, Goto
<1>2. ASSUME NEW p \in Procs, Gates(p) \/ Owners(p) \/ Backup(p)
      PROVE  Told'
  <2>1. EndOf(p)'
    BY <1>0, <1>2 DEF Gates, Owners, Backup, Goto, EndOf, Told
  <2>. QED BY <1>0, <1>2, <2>1, OthersTold DEF Gates, Owners, Backup, Goto
<1>3. ASSUME NEW p \in Procs, NEW f \in Paths, Copy(p, f) \/ TargetExists(p, f)
      PROVE  Told'
  <2>1. EndOf(p)'
    BY <1>0, <1>3 DEF Copy, TargetExists, Goto, EndOf, Told
  <2>. QED BY <1>0, <1>3, <2>1, OthersTold DEF Copy, TargetExists, Goto
<1>4. ASSUME NEW p \in Procs, Validate(p) \/ LogInstalled(p) \/ Fail(p)
      PROVE  Told'
  <2>1. EndOf(p)'
    BY <1>0, <1>4 DEF Validate, LogInstalled, Fail, Goto, EndOf, Told
  <2>. QED BY <1>0, <1>4, <2>1, OthersTold DEF Validate, LogInstalled, Fail, Goto
<1>5. ASSUME NEW p \in Procs, AppendRows(p) \/ WriteReceipt(p)
      PROVE  Told'
  <2>1. EndOf(p)'
    BY <1>0, <1>5 DEF AppendRows, WriteReceipt, Goto, EndOf, Told
  <2>. QED BY <1>0, <1>5, <2>1, OthersTold DEF AppendRows, WriteReceipt, Goto
<1>6. ASSUME NEW p \in Procs, NEW t \in BOOLEAN, Raise(p, t) \/ Crash(p, t)
      PROVE  Told'
  <2>1. /\ pc'[p] \in {"refused", "fail", "killed"} /\ faults' = faults + 1
        /\ UNCHANGED <<ends, opts>>
        /\ \A q \in Procs \ {p} : pc'[q] = pc[q]
    BY <1>0, <1>6 DEF Raise, Crash, Goto
  <2>2. EndOf(p)'
    BY <1>0, <2>1 DEF EndOf
  <2>. QED BY <1>0, <2>1, <2>2, OthersTold
<1>7. ASSUME NEW o \in Options, StartScript(o)
      PROVE  Told'
  <2>1. EndOf(Script)'
    BY <1>0, <1>7, Constants DEF StartScript, Goto, EndOf
  <2>. QED BY <1>0, <1>7, <2>1, Constants, OthersTold DEF StartScript, Goto
<1>8. ASSUME UNCHANGED <<pc, ends, opts>>, faults <= faults'
      PROVE  Told'
  <2>1. faults' = 0 => faults = 0
    BY <1>0, <1>8
  <2>. QED BY <1>8, <2>1 DEF Told, EndOf
<1>9. ASSUME \/ \E f \in Paths : ExtractKernel(f)
             \/ \E t \in BOOLEAN : ScriptDies(t)
             \/ \E f \in Paths : TarDies(f)
             \/ ExtractSeed \/ VerifyKernel \/ KernelReceipt \/ KernelRows \/ SeedRows
             \/ SeedReceipt \/ Resolve \/ LoopEnds \/ GateCheck \/ UNCHANGED vars
      PROVE  UNCHANGED <<pc, ends, opts>> /\ faults <= faults'
  BY <1>0, <1>9 DEF ExtractKernel, ScriptDies, TarDies, ExtractSeed, VerifyKernel, KernelReceipt, KernelRows,
     SeedRows, SeedReceipt, Resolve, LoopEnds, GateCheck, vars, run
<1>10. ASSUME \/ \E p \in Operators, a \in Archives, o \in Options : Begin(p, a, o)
              \/ InstallNext
       PROVE  \E p \in Procs : \E a, o : Launch(p, a, o) /\ faults' = faults
  BY <1>10, Constants DEF Begin, InstallNext
<1>. QED BY Cases, <1>1, <1>2, <1>3, <1>4, <1>5, <1>6, <1>7, <1>8, <1>9, <1>10

\* However many installers run at once: a run that returns has written one entry
\* that says how it ended, a dry run none, and only a call that raises makes the
\* ledger say both.
THEOREM EndsTold == Spec => []OneEnd
<1>1. Init => Told
  BY DEF Init, Told, EndOf
<1>2. ASSUME TypeOK, TypeOK', Told, [Next]_vars
      PROVE  Told'
  BY <1>2, ToldStep
<1>3. ASSUME Told
      PROVE  OneEnd
  BY <1>3 DEF Told, EndOf, OneEnd
<1>. QED BY TypeCorrect, <1>1, <1>2, <1>3, PTL DEF Spec

-----------------------------------------------------------------------------
(* Who may take a file over                                                 *)

\* install.sh runs the installer in its loop and nowhere else.
Looped == pc[Script] \in Running => stage = "loop"

\* Until two of them have overlapped, one process at most is at work on the tree.
Alone ==
  "overlap" \notin marks =>
    /\ \A p, q \in Procs : pc[p] \in Running /\ pc[q] \in Running => p = q
    /\ stage \notin Closed => \A p \in Operators : pc[p] \notin Running

\* A run that has got past the owners may still take the files it asked for.
Granted ==
  "overlap" \notin marks =>
    \A p \in Procs : pc[p] \in {"backup", "copy", "log", "rows"} => Conflicts(job[p]) = {}

Orderly == Looped /\ Alone /\ Granted
LEMMA StepNames ==
  /\ Running = {"gates", "owners", "backup", "copy", "log", "rows", "receipt", "fail"}
  /\ "loop" \notin Closed /\ "dead" \in Closed
  /\ Bootstrap \cap Closed = {}
  /\ Ended \cap Running = {}
BY DEF Running, Closed, Bootstrap, Ended

\* One step of a run that has begun.
Move(p) ==
  \/ Gates(p) \/ Owners(p) \/ Backup(p) \/ (\E f \in Paths : Copy(p, f) \/ TargetExists(p, f))
  \/ Validate(p) \/ LogInstalled(p) \/ AppendRows(p) \/ WriteReceipt(p) \/ Fail(p)
  \/ \E t \in BOOLEAN : Raise(p, t) \/ Crash(p, t)

LEMMA MoveFacts ==
  ASSUME TypeOK, NEW p \in Procs, Move(p)
  PROVE  /\ pc[p] \in Running
         /\ \A q \in Procs \ {p} : pc'[q] = pc[q]
         /\ job' = job
         /\ owner' = owner \/ (pc[p] = "rows" /\ pc'[p] = "receipt")
         /\ stage' = stage \/ (p = Script /\ pc'[p] = "killed" /\ stage' = "dead")
         /\ pc'[p] \in {"backup", "copy", "log", "rows"} =>
              \/ pc[p] = "owners" /\ Conflicts(job[p]) = {}
              \/ pc[p] \in {"backup", "copy", "log", "rows"}
<1>0. pc \in [Procs -> Running \cup Ended]
  BY DEF TypeOK
<1>1. CASE Gates(p) \/ Owners(p) \/ Backup(p)
  BY <1>0, <1>1, StepNames DEF Gates, Owners, Backup, tree, Goto
<1>2. CASE \E f \in Paths : Copy(p, f) \/ TargetExists(p, f)
  BY <1>0, <1>2, StepNames DEF Copy, TargetExists, tree, Goto
<1>3. CASE Validate(p) \/ LogInstalled(p) \/ Fail(p)
  BY <1>0, <1>3, StepNames DEF Validate, LogInstalled, Fail, tree, Goto
<1>4. CASE AppendRows(p) \/ WriteReceipt(p)
  BY <1>0, <1>4, StepNames DEF AppendRows, WriteReceipt, Goto
<1>5. CASE \E t \in BOOLEAN : Raise(p, t) \/ Crash(p, t)
  BY <1>0, <1>5, StepNames DEF Raise, Crash, Goto
<1>. QED BY <1>1, <1>2, <1>3, <1>4, <1>5 DEF Move

\* One step of install.sh that is not a step of a run.
Script_Move ==
  \/ ExtractSeed \/ VerifyKernel \/ (\E f \in Paths : ExtractKernel(f)) \/ KernelReceipt
  \/ KernelRows \/ SeedRows \/ SeedReceipt \/ Resolve \/ LoopEnds \/ GateCheck
  \/ (\E t \in BOOLEAN : ScriptDies(t)) \/ (\E f \in Paths : TarDies(f))

LEMMA ScriptFacts ==
  ASSUME TypeOK, Looped, Script_Move
  PROVE  /\ stage \notin Closed
         /\ pc[Script] \notin Running
         /\ pc' = pc /\ job' = job
         /\ owner' = owner \/ stage \in {"rows", "seedrows"}
<1>1. CASE ExtractSeed \/ VerifyKernel \/ (\E f \in Paths : ExtractKernel(f)) \/ KernelReceipt
  <2>1. stage \in {"seed", "kernel", "extract"}
    BY <1>1 DEF ExtractSeed, VerifyKernel, ExtractKernel, KernelReceipt
  <2>2. stage \notin Closed /\ pc[Script] \notin Running
    BY <2>1 DEF Looped, Closed
  <2>3. pc' = pc /\ job' = job /\ owner' = owner
    <3>1. CASE ExtractSeed \/ KernelReceipt
      BY <3>1 DEF ExtractSeed, KernelReceipt, run
    <3>2. CASE VerifyKernel
      BY <3>2 DEF VerifyKernel, tree
    <3>3. CASE \E f \in Paths : ExtractKernel(f)
      BY <3>3 DEF ExtractKernel
    <3>. QED BY <1>1, <3>1, <3>2, <3>3
  <2>. QED BY <2>2, <2>3
<1>2. CASE KernelRows \/ SeedRows \/ SeedReceipt \/ Resolve \/ GateCheck
  BY <1>2 DEF KernelRows, SeedRows, SeedReceipt, Resolve, GateCheck, run, tree, Looped, Closed
<1>3. CASE LoopEnds
  BY <1>3, StepNames DEF LoopEnds, run, tree
<1>4. CASE \E t \in BOOLEAN : ScriptDies(t)
  BY <1>4, StepNames DEF ScriptDies, run
<1>5. CASE \E f \in Paths : TarDies(f)
  <2>1. stage \in {"seed", "extract"}
    BY <1>5 DEF TarDies, Unpacking
  <2>. QED BY <1>5, <2>1 DEF TarDies, run, Looped, Closed
<1>. QED BY <1>1, <1>2, <1>3, <1>4, <1>5 DEF Script_Move

LEMMA OrderlyStep ==
  ASSUME TypeOK, Orderly, [Next]_vars
  PROVE  Orderly'
<1>0. /\ Looped /\ Alone /\ Granted /\ marks \subseteq marks'
      /\ pc \in [Procs -> Running \cup Ended] /\ job \in [Procs -> Archives]
  BY MarksGrow DEF Orderly, TypeOK
<1>a. \A a : owner' = owner => Conflicts(a)' = Conflicts(a)
  BY DEF Conflicts, Foreign, Owned
<1>1. ASSUME NEW p \in Procs, Move(p)
      PROVE  Orderly'
  <2>0. /\ pc[p] \in Running
        /\ \A q \in Procs \ {p} : pc'[q] = pc[q]
        /\ job' = job
        /\ owner' = owner \/ (pc[p] = "rows" /\ pc'[p] = "receipt")
        /\ stage' = stage \/ (p = Script /\ pc'[p] = "killed" /\ stage' = "dead")
        /\ pc'[p] \in {"backup", "copy", "log", "rows"} =>
             \/ pc[p] = "owners" /\ Conflicts(job[p]) = {}
             \/ pc[p] \in {"backup", "copy", "log", "rows"}
    BY <1>1, MoveFacts
  <2>1. \A q \in Procs : pc'[q] \in Running => pc[q] \in Running
    BY <2>0
  <2>2. Looped'
    BY <1>0, <2>0, <2>1, Constants, StepNames DEF Looped
  <2>3. Alone'
    BY <1>0, <2>0, <2>1, Constants, StepNames DEF Alone
  <2>4. ASSUME "overlap" \notin marks', NEW q \in Procs, pc'[q] \in {"backup", "copy", "log", "rows"}
        PROVE  Conflicts(job[q])' = {}
    <3>1. q = p
      BY <1>0, <2>0, <2>1, <2>4, StepNames DEF Alone
    <3>2. owner' = owner
      BY <2>0, <2>4, <3>1
    <3>3. Conflicts(job[p]) = {}
      BY <1>0, <2>0, <2>4, <3>1 DEF Granted
    <3>. QED BY <1>a, <2>0, <3>1, <3>2, <3>3
  <2>. QED BY <2>2, <2>3, <2>4 DEF Orderly, Granted
<1>2. ASSUME Script_Move
      PROVE  Orderly'
  <2>0. /\ stage \notin Closed /\ pc[Script] \notin Running
        /\ pc' = pc /\ job' = job
        /\ owner' = owner \/ stage \in {"rows", "seedrows"}
    BY <1>0, <1>2, ScriptFacts
  <2>1. "overlap" \notin marks' => \A q \in Procs : pc[q] \notin Running
    BY <1>0, <2>0 DEF Alone, Procs
  <2>2. Looped' /\ Alone'
    BY <2>0, <2>1, Constants DEF Looped, Alone
  <2>3. Granted'
    BY <2>0, <2>1, StepNames DEF Granted
  <2>. QED BY <2>2, <2>3 DEF Orderly
<1>3. ASSUME NEW p \in Operators, NEW a \in Archives, NEW o \in Options, Begin(p, a, o)
      PROVE  Orderly'
  <2>0. /\ pc' = [pc EXCEPT ![p] = "gates"] /\ job' = [job EXCEPT ![p] = a]
        /\ stage' = stage /\ owner' = owner
        /\ "overlap" \notin marks' => Quiet
    BY <1>3 DEF Begin, Launch, Goto, tree
  <2>1. p \in Procs /\ p # Script
    BY Constants, ArchivesAssumption
  <2>2. "overlap" \notin marks' =>
          stage \in Closed /\ \A q \in Procs : pc[q] \notin Running
    BY <2>0 DEF Quiet, Busy
  <2>3. Looped'
    BY <1>0, <2>0, <2>1, Constants DEF Looped
  <2>4. Alone'
    BY <1>0, <2>0, <2>2 DEF Alone
  <2>5. Granted'
    BY <1>0, <2>0, <2>1, <2>2, StepNames DEF Granted
  <2>. QED BY <2>3, <2>4, <2>5 DEF Orderly
<1>4. ASSUME NEW o \in Options, StartScript(o)
      PROVE  Orderly'
  <2>0. /\ pc' = [pc EXCEPT ![Script] = "idle"] /\ job' = job /\ owner' = owner
        /\ "overlap" \notin marks' => Quiet
    BY <1>4 DEF StartScript, Goto, tree
  <2>1. "overlap" \notin marks' => \A q \in Procs : pc[q] \notin Running
    BY <2>0 DEF Quiet, Busy
  <2>2. "idle" \notin Running
    BY DEF Running
  <2>3. Looped' /\ Alone'
    BY <1>0, <2>0, <2>1, <2>2, Constants DEF Looped, Alone
  <2>4. Granted'
    BY <1>0, <2>0, <2>1, StepNames, Constants DEF Granted
  <2>. QED BY <2>3, <2>4 DEF Orderly
<1>5. ASSUME InstallNext
      PROVE  Orderly'
  <2>0. /\ pc' = [pc EXCEPT ![Script] = "gates"] /\ stage = "loop" /\ stage' = stage
        /\ pc[Script] \notin Running /\ owner' = owner /\ marks' = marks
    BY <1>5, StepNames DEF InstallNext, Launch, Goto, tree
  <2>1. "overlap" \notin marks' => \A q \in Procs : pc[q] \notin Running
    BY <1>0, <2>0, StepNames DEF Alone, Procs
  <2>2. Looped'
    BY <2>0 DEF Looped
  <2>3. Alone'
    BY <1>0, <2>0, <2>1, ArchivesAssumption, Constants DEF Alone
  <2>4. Granted'
    BY <1>0, <2>0, <2>1, StepNames, Constants DEF Granted
  <2>. QED BY <2>2, <2>3, <2>4 DEF Orderly
<1>6. CASE UNCHANGED vars
  BY <1>0, <1>6, <1>a DEF vars, tree, run, Orderly, Looped, Alone, Granted
<1>. QED BY Cases, <1>1, <1>2, <1>3, <1>4, <1>5, <1>6 DEF Move, Script_Move

LEMMA HandedOverStep ==
  ASSUME TypeOK, Orderly, [Next]_vars
  PROVE  \A f \in Paths :
           owner[f] # None /\ owner'[f] # owner[f] =>
             "overlap" \in marks \/ Inherited(f) \/ stage \in {"rows", "seedrows"}
<1> SUFFICES ASSUME NEW f \in Paths, owner[f] # None, owner'[f] # owner[f], "overlap" \notin marks
             PROVE  Inherited(f) \/ stage \in {"rows", "seedrows"}
  OBVIOUS
<1>0. Looped /\ Granted
  BY DEF Orderly
<1>1. ASSUME NEW p \in Procs, AppendRows(p)
      PROVE  Inherited(f)
  <2>1. pc[p] = "rows" /\ f \in Assets(p) /\ owner[f] # Package(p)
    BY <1>1 DEF AppendRows
  <2>2. f \in Foreign(job[p])
    BY <2>1 DEF Assets, Package, Foreign, Owned
  <2>3. owner[f] \in Deps[job[p]]
    BY <1>0, <2>1, <2>2 DEF Granted, Conflicts
  <2>. QED BY <2>1, <2>3 DEF Inherited
<1>2. ASSUME NEW p \in Procs, Move(p)
      PROVE  AppendRows(p)
  BY <1>2 DEF Move, Gates, Owners, Backup, Copy, TargetExists, Validate, LogInstalled, WriteReceipt,
     Fail, Raise, Crash, tree
<1>3. ASSUME Script_Move
      PROVE  stage \in {"rows", "seedrows"}
  BY <1>0, <1>3, ScriptFacts
<1>4. ASSUME \/ \E p \in Operators, a \in Archives, o \in Options : Begin(p, a, o)
             \/ \E o \in Options : StartScript(o)
             \/ InstallNext
             \/ UNCHANGED vars
      PROVE  owner' = owner
  BY <1>4 DEF Begin, StartScript, InstallNext, vars, tree
<1>. QED BY Cases, <1>1, <1>2, <1>3, <1>4 DEF Move, Script_Move

\* While runs follow each other a file changes hands only to a package that
\* declares its owner as a dependency, or by a new bootstrap, whatever crashes.
THEOREM OwnersHandedOver == Spec => HandedOver
<1>1. ASSUME Init
      PROVE  Orderly
  <2>1. \A p \in Procs : pc[p] = "idle"
    BY <1>1 DEF Init
  <2>2. stage = "off"
    BY <1>1 DEF Init
  <2>3. Looped
    BY <2>1, <2>2 DEF Looped, Running, Procs
  <2>4. Alone
    BY <2>1 DEF Alone, Running, Procs
  <2>5. Granted
    BY <2>1 DEF Granted
  <2>. QED BY <2>3, <2>4, <2>5 DEF Orderly
<1>2. ASSUME TypeOK, Orderly, [Next]_vars
      PROVE  Orderly'
  BY <1>2, OrderlyStep
<1>3. ASSUME TypeOK, Orderly, [Next]_vars
      PROVE  [\A f \in Paths :
                owner[f] # None /\ owner'[f] # owner[f] =>
                  "overlap" \in marks \/ Inherited(f) \/ stage \in {"rows", "seedrows"}]_vars
  BY <1>3, HandedOverStep
<1>. QED BY TypeCorrect, <1>1, <1>2, <1>3, PTL DEF Spec, HandedOver

-----------------------------------------------------------------------------
(* What the tree holds comes from archives that ship it                     *)

\* Which steps change the disk, the rows, the receipts and the backups.
LEMMA DiskMoves ==
  ASSUME [Next]_vars
  PROVE  \/ disk' = disk
         \/ \E p \in Procs, f \in Paths : Copy(p, f)
         \/ \E p \in Procs : Validate(p)
         \/ ExtractSeed
         \/ \E f \in Paths : ExtractKernel(f) \/ TarDies(f)
<1>1. ASSUME NEW p \in Procs, NEW f \in Paths, TargetExists(p, f)
      PROVE  disk' = disk
  BY <1>1 DEF TargetExists, tree
<1>2. ASSUME NEW p \in Procs, \/ Gates(p) \/ Owners(p) \/ Backup(p) \/ LogInstalled(p)
                              \/ AppendRows(p) \/ WriteReceipt(p) \/ Fail(p)
      PROVE  disk' = disk
  BY <1>2 DEF Gates, Owners, Backup, LogInstalled, AppendRows, WriteReceipt, Fail, tree
<1>3. ASSUME NEW p \in Procs, NEW t \in BOOLEAN, Raise(p, t) \/ Crash(p, t)
      PROVE  disk' = disk
  BY <1>3 DEF Raise, Crash
<1>4. ASSUME \/ \E p \in Operators, a \in Archives, o \in Options : Begin(p, a, o)
             \/ \E o \in Options : StartScript(o)
             \/ \E t \in BOOLEAN : ScriptDies(t)
      PROVE  disk' = disk
  BY <1>4 DEF Begin, StartScript, ScriptDies, tree
<1>5. ASSUME \/ VerifyKernel \/ KernelReceipt \/ KernelRows \/ SeedRows
             \/ SeedReceipt \/ Resolve \/ InstallNext \/ LoopEnds \/ GateCheck \/ UNCHANGED vars
      PROVE  disk' = disk
  BY <1>5 DEF VerifyKernel, KernelReceipt, KernelRows, SeedRows, SeedReceipt, Resolve, InstallNext,
     LoopEnds, GateCheck, vars, tree
<1>. QED BY Cases, <1>1, <1>2, <1>3, <1>4, <1>5

LEMMA RowsMoves ==
  ASSUME [Next]_vars
  PROVE  \/ recorded' = recorded
         \/ \E p \in Procs : AppendRows(p)
         \/ KernelRows
         \/ SeedRows
<1>1. ASSUME NEW p \in Procs, NEW f \in Paths, Copy(p, f) \/ TargetExists(p, f)
      PROVE  recorded' = recorded
  BY <1>1 DEF Copy, TargetExists, tree
<1>2. ASSUME NEW p \in Procs, \/ Gates(p) \/ Owners(p) \/ Backup(p) \/ Validate(p)
                              \/ LogInstalled(p) \/ WriteReceipt(p) \/ Fail(p)
      PROVE  recorded' = recorded
  BY <1>2 DEF Gates, Owners, Backup, Validate, LogInstalled, WriteReceipt, Fail, tree
<1>3. ASSUME NEW p \in Procs, NEW t \in BOOLEAN, Raise(p, t) \/ Crash(p, t)
      PROVE  recorded' = recorded
  BY <1>3 DEF Raise, Crash
<1>4. ASSUME \/ \E p \in Operators, a \in Archives, o \in Options : Begin(p, a, o)
             \/ \E o \in Options : StartScript(o)
             \/ \E f \in Paths : ExtractKernel(f)
             \/ \E t \in BOOLEAN : ScriptDies(t)
             \/ \E f \in Paths : TarDies(f)
      PROVE  recorded' = recorded
  BY <1>4 DEF Begin, StartScript, ExtractKernel, ScriptDies, TarDies, tree
<1>5. ASSUME \/ ExtractSeed \/ VerifyKernel \/ KernelReceipt \/ SeedReceipt \/ Resolve
             \/ InstallNext \/ LoopEnds \/ GateCheck \/ UNCHANGED vars
      PROVE  recorded' = recorded
  BY <1>5 DEF ExtractSeed, VerifyKernel, KernelReceipt, SeedReceipt, Resolve, InstallNext,
     LoopEnds, GateCheck, vars, tree
<1>. QED BY Cases, <1>1, <1>2, <1>3, <1>4, <1>5

LEMMA ReceiptMoves ==
  ASSUME [Next]_vars
  PROVE  \/ receipts' = receipts
         \/ \E p \in Procs : WriteReceipt(p)
         \/ KernelReceipt
         \/ SeedReceipt
<1>1. ASSUME NEW p \in Procs, NEW f \in Paths, Copy(p, f) \/ TargetExists(p, f)
      PROVE  receipts' = receipts
  BY <1>1 DEF Copy, TargetExists, tree
<1>2. ASSUME NEW p \in Procs, \/ Gates(p) \/ Owners(p) \/ Backup(p) \/ Validate(p)
                              \/ LogInstalled(p) \/ AppendRows(p) \/ Fail(p)
      PROVE  receipts' = receipts
  BY <1>2 DEF Gates, Owners, Backup, Validate, LogInstalled, AppendRows, Fail, tree
<1>3. ASSUME NEW p \in Procs, NEW t \in BOOLEAN, Raise(p, t) \/ Crash(p, t)
      PROVE  receipts' = receipts
  BY <1>3 DEF Raise, Crash
<1>4. ASSUME \/ \E p \in Operators, a \in Archives, o \in Options : Begin(p, a, o)
             \/ \E o \in Options : StartScript(o)
             \/ \E f \in Paths : ExtractKernel(f)
             \/ \E t \in BOOLEAN : ScriptDies(t)
             \/ \E f \in Paths : TarDies(f)
      PROVE  receipts' = receipts
  BY <1>4 DEF Begin, StartScript, ExtractKernel, ScriptDies, TarDies, tree
<1>5. ASSUME \/ ExtractSeed \/ VerifyKernel \/ KernelRows \/ SeedRows \/ Resolve
             \/ InstallNext \/ LoopEnds \/ GateCheck \/ UNCHANGED vars
      PROVE  receipts' = receipts
  BY <1>5 DEF ExtractSeed, VerifyKernel, KernelRows, SeedRows, Resolve, InstallNext,
     LoopEnds, GateCheck, vars, tree
<1>. QED BY Cases, <1>1, <1>2, <1>3, <1>4, <1>5

LEMMA SavedMoves ==
  ASSUME [Next]_vars
  PROVE  \/ saved' = saved
         \/ \E p \in Procs : Backup(p)
         \/ \E p \in Procs : saved' = [saved EXCEPT ![p] = {}]
<1>1. ASSUME NEW p \in Procs, NEW f \in Paths, Copy(p, f) \/ TargetExists(p, f)
      PROVE  saved' = saved
  BY <1>1 DEF Copy, TargetExists
<1>2. ASSUME NEW p \in Procs, \/ Gates(p) \/ Owners(p) \/ Validate(p)
                              \/ LogInstalled(p) \/ AppendRows(p) \/ WriteReceipt(p) \/ Fail(p)
      PROVE  saved' = saved
  BY <1>2 DEF Gates, Owners, Validate, LogInstalled, AppendRows, WriteReceipt, Fail
<1>3. ASSUME NEW p \in Procs, NEW t \in BOOLEAN, Raise(p, t) \/ Crash(p, t)
      PROVE  saved' = saved
  BY <1>3 DEF Raise, Crash
<1>4. ASSUME \/ \E o \in Options : StartScript(o)
             \/ \E f \in Paths : ExtractKernel(f)
             \/ \E t \in BOOLEAN : ScriptDies(t)
             \/ \E f \in Paths : TarDies(f)
      PROVE  saved' = saved
  BY <1>4 DEF StartScript, ExtractKernel, ScriptDies, TarDies, run
<1>5. ASSUME \/ ExtractSeed \/ VerifyKernel \/ KernelReceipt \/ KernelRows \/ SeedRows
             \/ SeedReceipt \/ Resolve \/ LoopEnds \/ GateCheck \/ UNCHANGED vars
      PROVE  saved' = saved
  BY <1>5 DEF ExtractSeed, VerifyKernel, KernelReceipt, KernelRows, SeedRows, SeedReceipt, Resolve,
     LoopEnds, GateCheck, vars, run
<1>6. ASSUME \/ \E p \in Operators, a \in Archives, o \in Options : Begin(p, a, o)
             \/ InstallNext
      PROVE  \E p \in Procs : saved' = [saved EXCEPT ![p] = {}]
  BY <1>6, Constants DEF Begin, InstallNext, Launch
<1>. QED BY Cases, <1>1, <1>2, <1>3, <1>4, <1>5, <1>6

\* What is still to be copied is part of the archive that is being copied.
Filling ==
  /\ \A p \in Procs : pc[p] = "copy" => todo[p] \subseteq Assets(p)
  /\ stage = "extract" => todo[Script] \subseteq Files[Kernel]

LEMMA FillingStep ==
  ASSUME TypeOK, Looped, Filling, [Next]_vars
  PROVE  Filling'
<1>0. /\ pc \in [Procs -> Running \cup Ended] /\ todo \in [Procs -> SUBSET Paths]
      /\ job \in [Procs -> Archives]
  BY DEF TypeOK
<1>1. ASSUME NEW p \in Procs, Move(p)
      PROVE  Filling'
  <2>0. /\ pc[p] \in Running
        /\ \A q \in Procs \ {p} : pc'[q] = pc[q]
        /\ job' = job
        /\ stage' = stage \/ stage' = "dead"
    BY <1>1, MoveFacts
  <2>1. /\ \A q \in Procs \ {p} : todo'[q] = todo[q]
        /\ pc'[p] = "copy" => \/ todo'[p] = Assets(p)
                              \/ pc[p] = "copy" /\ todo'[p] \subseteq todo[p]
    <3>1. CASE Gates(p) \/ Owners(p)
      BY <1>0, <3>1 DEF Gates, Owners, Goto
    <3>2. CASE Backup(p)
      BY <1>0, <3>2 DEF Backup, Goto
    <3>3. CASE \E f \in Paths : Copy(p, f) \/ TargetExists(p, f)
      BY <1>0, <3>3 DEF Copy, TargetExists, Goto
    <3>4. CASE Validate(p) \/ LogInstalled(p) \/ Fail(p)
      BY <1>0, <3>4 DEF Validate, LogInstalled, Fail, Goto
    <3>5. CASE AppendRows(p) \/ WriteReceipt(p)
      BY <1>0, <3>5 DEF AppendRows, WriteReceipt, Goto
    <3>6. CASE \E t \in BOOLEAN : Raise(p, t) \/ Crash(p, t)
      BY <1>0, <3>6 DEF Raise, Crash, Goto
    <3>. QED BY <1>1, <3>1, <3>2, <3>3, <3>4, <3>5, <3>6 DEF Move
  <2>2. ASSUME stage' = "extract"
        PROVE  todo'[Script] \subseteq Files[Kernel]
    <3>1. stage = "extract"
      BY <2>0, <2>2
    <3>2. p # Script
      BY <2>0, <3>1 DEF Looped
    <3>. QED BY <2>1, <3>1, <3>2, Constants DEF Filling
  <2>3. ASSUME NEW q \in Procs, pc'[q] = "copy"
        PROVE  todo'[q] \subseteq Assets(q)'
    <3>1. Assets(q)' = Assets(q)
      BY <2>0 DEF Assets
    <3>. QED BY <2>0, <2>1, <2>3, <3>1 DEF Filling
  <2>. QED BY <2>2, <2>3 DEF Filling
<1>2. ASSUME Script_Move
      PROVE  Filling'
  <2>0. pc[Script] \notin Running /\ pc' = pc /\ job' = job
    BY <1>2, ScriptFacts
  <2>1. /\ todo' = todo \/ (\E F \in SUBSET Paths : todo' = [todo EXCEPT ![Script] = F])
        /\ stage' = "extract" => \/ todo'[Script] = Files[Kernel]
                                 \/ stage = "extract" /\ todo'[Script] \subseteq todo[Script]
    <3>1. CASE VerifyKernel
      BY <1>0, <3>1, Constants DEF VerifyKernel, Advance
    <3>2. CASE \E f \in Paths : ExtractKernel(f)
      <4>1. PICK f \in Paths : ExtractKernel(f)
        BY <3>2
      <4>2. /\ todo' = [todo EXCEPT ![Script] = todo[Script] \ {f}]
            /\ stage' = stage /\ stage = "extract"
        BY <4>1 DEF ExtractKernel
      <4>3. todo[Script] \ {f} \in SUBSET Paths
        BY <1>0, Constants
      <4>. QED BY <1>0, <4>2, <4>3, Constants
    <3>3. CASE ExtractSeed \/ KernelReceipt \/ KernelRows \/ SeedRows \/ SeedReceipt
      BY <3>3 DEF ExtractSeed, KernelReceipt, KernelRows, SeedRows, SeedReceipt, run, Advance
    <3>4. CASE Resolve \/ LoopEnds \/ GateCheck \/ \E t \in BOOLEAN : ScriptDies(t)
      BY <3>4 DEF Resolve, LoopEnds, GateCheck, ScriptDies, run, Advance
    <3>5. CASE \E f \in Paths : TarDies(f)
      BY <3>5 DEF TarDies, run, Advance
    <3>. QED BY <1>2, <3>1, <3>2, <3>3, <3>4, <3>5 DEF Script_Move
  <2>2. ASSUME NEW q \in Procs, pc[q] = "copy"
        PROVE  q # Script /\ todo'[q] = todo[q]
    <3>1. q # Script
      BY <2>0, <2>2 DEF Running
    <3>. QED BY <1>0, <2>1, <3>1
  <2>. QED BY <2>0, <2>1, <2>2 DEF Filling, Assets
<1>3. ASSUME NEW p \in Procs, NEW a, NEW o, Launch(p, a, o), stage' # "extract"
      PROVE  Filling'
  <2>1. \A q \in Procs \ {p} : pc'[q] = pc[q] /\ job'[q] = job[q] /\ todo'[q] = todo[q]
    BY <1>0, <1>3 DEF Launch, Goto
  <2>2. pc'[p] # "copy"
    BY <1>0, <1>3 DEF Launch, Goto
  <2>. QED BY <1>3, <2>1, <2>2 DEF Filling, Assets
<1>4. ASSUME NEW p \in Operators, NEW a \in Archives, NEW o \in Options, Begin(p, a, o)
      PROVE  Filling'
  <2>0. /\ p \in Procs /\ p # Script /\ stage' = stage /\ Launch(p, a, o)
    BY <1>4, Constants, ArchivesAssumption DEF Begin
  <2>1. \A q \in Procs \ {p} : pc'[q] = pc[q] /\ job'[q] = job[q] /\ todo'[q] = todo[q]
    BY <1>0, <2>0 DEF Launch, Goto
  <2>2. pc'[p] # "copy"
    BY <1>0, <2>0 DEF Launch, Goto
  <2>. QED BY <2>0, <2>1, <2>2, Constants DEF Filling, Assets
<1>5. ASSUME NEW o \in Options, StartScript(o)
      PROVE  Filling'
  <2>1. /\ todo' = todo /\ job' = job /\ stage' = "seed" /\ pc' = [pc EXCEPT ![Script] = "idle"]
    BY <1>5 DEF StartScript, Advance, Goto
  <2>2. \A q \in Procs : pc'[q] = "copy" => pc[q] = "copy"
    BY <1>0, <2>1
  <2>. QED BY <2>1, <2>2 DEF Filling, Assets
<1>6. ASSUME InstallNext
      PROVE  Filling'
  <2>1. stage' = "loop" /\ \E a, o : Launch(Script, a, o)
    BY <1>6 DEF InstallNext
  <2>. QED BY <1>3, <2>1, Constants
<1>7. CASE UNCHANGED vars
  BY <1>7 DEF vars, run, Filling, Assets
<1>. QED BY Cases, <1>1, <1>2, <1>4, <1>5, <1>6, <1>7 DEF Move, Script_Move

\* Every file, row, receipt and backup that is not cut short names an archive that
\* ships the path.
OnDisk == \A f \in Paths : disk[f] \in Archives => f \in Files[disk[f]]
InRows == \A f \in Paths : recorded[f] \in Archives => f \in Files[recorded[f]]
InReceipts ==
  \A q \in Packages, f \in Paths, c \in Archives : <<f, c>> \in receipts[q] => f \in Files[c]
InBackups ==
  \A p \in Procs, f \in Paths, c \in Archives : <<f, c>> \in saved[p] => f \in Files[c]
Genuine == OnDisk /\ InRows /\ InReceipts /\ InBackups

LEMMA HashedGenuine ==
  ASSUME OnDisk, NEW F \in SUBSET Paths, NEW f \in Paths, NEW c \in Archives, <<f, c>> \in Hashed(F)
  PROVE  f \in F /\ disk[f] = c /\ f \in Files[c]
<1>1. f \in F /\ disk[f] = c
  BY DEF Hashed
<1>. QED BY <1>1 DEF OnDisk

LEMMA GenuineStep ==
  ASSUME TypeOK, Filling, Genuine, [Next]_vars
  PROVE  Genuine'
<1>0. /\ disk \in [Paths -> Contents \cup {None}] /\ recorded \in [Paths -> Contents \cup {None}]
      /\ receipts \in [Packages -> SUBSET (Paths \X Contents)]
      /\ saved \in [Procs -> SUBSET (Paths \X Contents)] /\ job \in [Procs -> Archives]
      /\ None \notin Archives
      /\ \A p \in Procs : Assets(p) \in SUBSET Paths /\ Package(p) \in Packages
  BY ArchivesAssumption, Constants DEF TypeOK, Assets, Package
<1>g. OnDisk /\ InRows /\ InReceipts /\ InBackups
  BY DEF Genuine
<1>1. OnDisk'
  <2>1. ASSUME NEW p \in Procs, NEW f \in Paths, Copy(p, f)
        PROVE  OnDisk'
    <3>1. f \in Files[job[p]]
      BY <2>1 DEF Copy, Filling, Assets
    <3>2. disk' = [disk EXCEPT ![f] = job[p]]
      BY <2>1 DEF Copy
    <3>. QED BY <1>0, <1>g, <3>1, <3>2 DEF OnDisk
  <2>2. ASSUME NEW p \in Procs, Validate(p)
        PROVE  OnDisk'
    <3>1. disk' = disk \/ disk' = Restored(p)
      BY <2>2 DEF Validate
    <3>2. ASSUME NEW f \in Paths, Restored(p)[f] \in Archives
          PROVE  f \in Files[Restored(p)[f]]
      <4>1. ASSUME NEW c \in Contents, <<f, c>> \in saved[p]
            PROVE  <<f, CHOOSE d \in Contents : <<f, d>> \in saved[p]>> \in saved[p]
        BY <4>1
      <4>2. Restored(p)[f] = disk[f] \/ <<f, Restored(p)[f]>> \in saved[p]
        BY <4>1 DEF Restored
      <4>. QED BY <1>g, <3>2, <4>2 DEF OnDisk, InBackups
    <3>. QED BY <1>g, <3>1, <3>2 DEF OnDisk
  <2>3. ASSUME ExtractSeed
        PROVE  OnDisk'
    BY <1>g, <2>3 DEF ExtractSeed, OnDisk
  <2>4. ASSUME NEW f \in Paths, ExtractKernel(f)
        PROVE  OnDisk'
    <3>1. f \in Files[Kernel]
      BY <2>4 DEF ExtractKernel, Filling
    <3>2. disk' = [disk EXCEPT ![f] = Kernel]
      BY <2>4 DEF ExtractKernel
    <3>. QED BY <1>0, <1>g, <3>1, <3>2 DEF OnDisk
  <2>6. ASSUME NEW f \in Paths, TarDies(f)
        PROVE  OnDisk'
    <3>1. PICK F \in SUBSET Files[Seed] :
             disk' = [g \in Paths |-> IF g = f THEN Truncated ELSE IF g \in F THEN Seed ELSE disk[g]]
      BY <2>6 DEF TarDies
    <3>. QED BY <1>g, <3>1, Constants DEF OnDisk
  <2>5. CASE disk' = disk
    BY <1>g, <2>5 DEF OnDisk
  <2>. QED BY DiskMoves, <2>1, <2>2, <2>3, <2>4, <2>5, <2>6
<1>2. InRows'
  <2>1. ASSUME NEW p \in Procs, AppendRows(p)
        PROVE  InRows'
    BY <1>g, <2>1 DEF AppendRows, InRows, OnDisk
  <2>2. CASE KernelRows \/ SeedRows
    BY <1>0, <1>g, <2>2 DEF KernelRows, SeedRows, InRows, OnDisk
  <2>3. CASE recorded' = recorded
    BY <1>g, <2>3 DEF InRows
  <2>. QED BY RowsMoves, <2>1, <2>2, <2>3
<1>3. InReceipts'
  <2>1. ASSUME NEW q \in Packages, NEW F \in SUBSET Paths,
               receipts' = [receipts EXCEPT ![q] = Hashed(F)]
        PROVE  InReceipts'
    BY <1>0, <1>g, <2>1, HashedGenuine DEF InReceipts
  <2>2. ASSUME NEW p \in Procs, WriteReceipt(p)
        PROVE  InReceipts'
    <3>1. receipts' = [receipts EXCEPT ![Package(p)] = Hashed(Assets(p))]
      BY <2>2 DEF WriteReceipt
    <3>. QED BY <1>0, <2>1, <3>1
  <2>3. CASE KernelReceipt \/ SeedReceipt
    <3>1. \/ receipts' = [receipts EXCEPT ![KernelPkg] = Hashed(Files[Kernel])]
          \/ receipts' = [receipts EXCEPT ![SeedPkg] = Hashed(Files[Seed])]
      BY <2>3 DEF KernelReceipt, SeedReceipt
    <3>2. Files[Kernel] \in SUBSET Paths /\ Files[Seed] \in SUBSET Paths
      BY Constants
    <3>. QED BY <2>1, <3>1, <3>2, Constants
  <2>4. CASE receipts' = receipts
    BY <1>g, <2>4 DEF InReceipts
  <2>. QED BY ReceiptMoves, <2>2, <2>3, <2>4
<1>4. InBackups'
  <2>1. ASSUME NEW p \in Procs, Backup(p)
        PROVE  InBackups'
    <3>1. saved' = [saved EXCEPT ![p] = {e \in Assets(p) \X Contents : disk[e[1]] = e[2]}]
      BY <2>1 DEF Backup
    <3>2. ASSUME NEW f \in Paths, NEW c \in Archives,
                 <<f, c>> \in {e \in Assets(p) \X Contents : disk[e[1]] = e[2]}
          PROVE  f \in Files[c]
      BY <1>0, <1>g, <3>2 DEF OnDisk
    <3>. QED BY <1>0, <1>g, <3>1, <3>2 DEF InBackups
  <2>2. ASSUME NEW p \in Procs, saved' = [saved EXCEPT ![p] = {}]
        PROVE  InBackups'
    BY <1>0, <1>g, <2>2 DEF InBackups
  <2>3. CASE saved' = saved
    BY <1>g, <2>3 DEF InBackups
  <2>. QED BY SavedMoves, <2>1, <2>2, <2>3
<1>. QED BY <1>1, <1>2, <1>3, <1>4 DEF Genuine

\* A path of the genesis package has no other content.
LEMMA SeedOnly ==
  ASSUME NEW f \in Files[Seed], NEW c \in Archives, f \in Files[c]
  PROVE  c = Seed
BY SeedAssumption

-----------------------------------------------------------------------------
(* The integrity gate never blocks the runs that follow                     *)

Writing == {"copy", "log", "rows"}

\* What a run knows of the files of its archive while it brings them in.
Fetching(p) ==
  /\ pc[p] \in Writing =>
       /\ todo[p] \subseteq Assets(p)
       /\ \A f \in Assets(p) \ todo[p] : disk[f] = job[p]
       /\ \A f \in todo[p], c \in Contents : <<f, c>> \in saved[p] <=> disk[f] = c
  /\ pc[p] \in {"log", "rows"} => todo[p] = {}
  /\ pc[p] = "receipt" =>
       \A f \in Assets(p) : disk[f] = job[p] /\ owner[f] = Package(p) /\ recorded[f] = job[p]

\* The same of install.sh and genesis_bootstrap.py.
Bringing ==
  /\ stage \in {"kernel", "extract", "rows", "seedrows", "seedreceipt"} =>
       \A f \in Files[Seed] : disk[f] = Seed
  /\ stage \in {"extract", "rows"} => \A f \in Files[Kernel] \ todo[Script] : disk[f] = Kernel
  /\ stage = "rows" =>
       /\ todo[Script] = {}
       /\ \A f \in Paths, c \in Archives : <<f, c>> \in receipts[KernelPkg] => c = Kernel

\* Paths whose row or receipt is behind the file because a process is at work.
Replacing(f) ==
  /\ stage \in {"extract", "rows"} /\ f \in Files[Kernel] \ todo[Script]
  /\ owner[f] # None /\ recorded[f] # Kernel
Overwriting(f) ==
  \/ \E p \in Procs : pc[p] \in Writing /\ f \in Changed(p)
  \/ Replacing(f)
Rewriting(f) == \E p \in Procs : pc[p] = "receipt" /\ f \in Assets(p)

\* For every other path: the file is the one of its row, the receipt of the owner
\* says the same, and a path without a row is listed for genesis and kernel only.
RowKept(f) == owner[f] # None => recorded[f] # None /\ disk[f] = recorded[f]
ReceiptKept(f) ==
  \A q \in Packages, c \in Archives : <<f, c>> \in receipts[q] /\ owner[f] = q => c = recorded[f]
Unclaimed(f) ==
  \A q \in Packages, c \in Archives :
    <<f, c>> \in receipts[q] /\ owner[f] = None => disk[f] = c /\ c \in {Seed, Kernel}

PathKept(f) ==
  \/ Overwriting(f)
  \/ RowKept(f) /\ Unclaimed(f) /\ (ReceiptKept(f) \/ Rewriting(f))

Kept ==
  marks \subseteq {"cut"} =>
    torn = {} /\ Bringing /\ (\A p \in Procs : Fetching(p)) /\ (\A f \in Paths : PathKept(f))

\* Until something is overwritten, no row and no receipt speaks for a file that was
\* cut short: what is hashed into them is there in full.
Whole ==
  marks \subseteq {"cut"} =>
    \A f \in Paths :
      recorded[f] # Truncated /\ \A q \in Packages : <<f, Truncated>> \notin receipts[q]

LEMMA KeptIsEnough ==
  ASSUME TypeOK, Kept, Whole
  PROVE  NeverBlocked
<1> SUFFICES ASSUME Quiet, marks \subseteq {"cut"}
             PROVE  Intact
  BY DEF NeverBlocked
<1>1. torn = {} /\ \A f \in Paths : PathKept(f)
  BY DEF Kept
<1>2. ASSUME NEW f \in Paths
      PROVE  ~ Overwriting(f) /\ ~ Rewriting(f)
  BY DEF Quiet, Busy, Running, Closed, Overwriting, Rewriting, Replacing, Writing
<1>3. ASSUME NEW q \in Packages, NEW e \in receipts[q]
      PROVE  Entry(q, e)
  <2>0. PICK f \in Paths, c \in Contents : e = <<f, c>>
    BY DEF TypeOK
  <2>1. c \in Archives /\ e = <<f, c>>
    BY <1>3, <2>0 DEF Whole, Contents
  <2>2. RowKept(f) /\ Unclaimed(f) /\ ReceiptKept(f)
    BY <1>1, <1>2 DEF PathKept
  <2>3. e[1] = f /\ e[2] = c /\ <<f, c>> \in receipts[q]
    BY <1>3, <2>1
  <2>. QED BY <2>1, <2>2, <2>3 DEF RowKept, Unclaimed, ReceiptKept, Entry
<1>. QED BY <1>1, <1>3 DEF Intact

\* While runs follow each other, a run at work is alone with the tree.
LEMMA AtWork ==
  ASSUME TypeOK, Orderly, "overlap" \notin marks, NEW p \in Procs, pc[p] \in Running
  PROVE  /\ \A q \in Procs \ {p} : pc[q] \notin Running
         /\ stage \in Closed \cup {"loop"}
BY DEF Orderly, Alone, Looped, Procs

LEMMA RunningNames ==
  Writing \subseteq Running /\ "receipt" \in Running
BY DEF Writing, Running

\* What is left to show of a step of a run.
LEMMA RunKeeps ==
  ASSUME TypeOK, Orderly, "overlap" \notin marks, NEW p \in Procs, Move(p),
         torn' = {}, Fetching(p)',
         \A f \in Paths : \/ pc'[p] \in Writing /\ f \in Changed(p)'
                          \/ /\ RowKept(f)' /\ Unclaimed(f)'
                             /\ ReceiptKept(f)' \/ (pc'[p] = "receipt" /\ f \in Assets(p)')
  PROVE  Kept'
<1>1. /\ pc[p] \in Running
      /\ \A q \in Procs \ {p} : pc'[q] = pc[q]
      /\ stage' = stage \/ stage' = "dead"
  BY MoveFacts
<1>2. /\ \A q \in Procs \ {p} : pc'[q] \notin Running
      /\ stage' \in Closed \cup {"loop"}
  BY <1>1, AtWork, StepNames
<1>3. Bringing'
  BY <1>2 DEF Bringing, Closed
<1>4. ASSUME NEW q \in Procs
      PROVE  Fetching(q)'
  <2>1. CASE q = p
    BY <2>1
  <2>2. CASE q # p
    <3>1. pc'[q] \notin Writing /\ pc'[q] # "receipt" /\ pc'[q] \notin {"log", "rows"}
      BY <1>2, <2>2 DEF Writing, Running
    <3>. QED BY <3>1 DEF Fetching
  <2>. QED BY <2>1, <2>2
<1>5. ASSUME NEW f \in Paths
      PROVE  PathKept(f)'
  BY DEF PathKept, Overwriting, Rewriting
<1>. QED BY <1>3, <1>4, <1>5 DEF Kept

\* What holds before a step of a run.
LEMMA RunKept ==
  ASSUME TypeOK, Orderly, Kept, marks \subseteq {"cut"}, NEW p \in Procs, pc[p] \in Running
  PROVE  /\ torn = {} /\ Fetching(p)
         /\ \A f \in Paths :
              \/ pc[p] \in Writing /\ f \in Changed(p)
              \/ /\ RowKept(f) /\ Unclaimed(f)
                 /\ ReceiptKept(f) \/ (pc[p] = "receipt" /\ f \in Assets(p))
<1>1. /\ torn = {} /\ (\A q \in Procs : Fetching(q)) /\ (\A f \in Paths : PathKept(f))
  BY DEF Kept
<1>2. /\ \A q \in Procs \ {p} : pc[q] \notin Running
      /\ stage \in Closed \cup {"loop"}
  BY AtWork
<1>3. ASSUME NEW f \in Paths
      PROVE  /\ Overwriting(f) => pc[p] \in Writing /\ f \in Changed(p)
             /\ Rewriting(f) => pc[p] = "receipt" /\ f \in Assets(p)
  <2>1. ~ Replacing(f)
    BY <1>2 DEF Replacing, Closed
  <2>. QED BY <1>2, <2>1, RunningNames DEF Overwriting, Rewriting
<1>. QED BY <1>1, <1>3 DEF PathKept

\* A step that leaves the tree alone leaves a path as it was kept.
LEMMA SameTree ==
  ASSUME UNCHANGED <<disk, owner, recorded, receipts>>, NEW f \in Paths
  PROVE  RowKept(f)' = RowKept(f) /\ Unclaimed(f)' = Unclaimed(f) /\ ReceiptKept(f)' = ReceiptKept(f)
BY DEF RowKept, Unclaimed, ReceiptKept

\* Copying a file is safe where nothing else was: no row and no receipt claims it.
LEMMA CopyKeeps ==
  ASSUME TypeOK, Orderly, Filling, Kept, marks \subseteq {"cut"}, NEW p \in Procs, NEW f \in Paths,
         Copy(p, f)
  PROVE  Kept'
<1>0. /\ disk \in [Paths -> Contents \cup {None}] /\ todo \in [Procs -> SUBSET Paths]
      /\ job \in [Procs -> Archives] /\ None \notin Archives
  BY ArchivesAssumption DEF TypeOK
<1>1. /\ pc[p] = "copy" /\ f \in todo[p] /\ pc' = pc /\ job' = job /\ saved' = saved
      /\ disk' = [disk EXCEPT ![f] = job[p]] /\ todo' = [todo EXCEPT ![p] = @ \ {f}]
      /\ owner' = owner /\ recorded' = recorded /\ receipts' = receipts /\ torn' = torn
  BY DEF Copy
<1>2. pc[p] \in Running /\ pc[p] \in Writing
  BY <1>1 DEF Running, Writing
<1>3. /\ torn = {} /\ Fetching(p)
      /\ \A g \in Paths : g \in Changed(p) \/ (RowKept(g) /\ Unclaimed(g) /\ ReceiptKept(g))
  BY <1>1, <1>2, RunKept
<1>4. /\ todo[p] \subseteq Assets(p)
      /\ \A g \in Assets(p) \ todo[p] : disk[g] = job[p]
      /\ \A g \in todo[p], c \in Contents : <<g, c>> \in saved[p] <=> disk[g] = c
  BY <1>2, <1>3 DEF Fetching
<1>5. /\ disk'[f] = job[p] /\ \A g \in Paths \ {f} : disk'[g] = disk[g]
      /\ todo'[p] = todo[p] \ {f}
      /\ Assets(p)' = Assets(p)
  BY <1>0, <1>1 DEF Assets
<1>6. Fetching(p)'
  <2>1. \A g \in Assets(p)' \ todo'[p] : disk'[g] = job'[p]
    BY <1>1, <1>4, <1>5, <1>0, Constants DEF Assets
  <2>2. \A g \in todo'[p], c \in Contents : <<g, c>> \in saved'[p] <=> disk'[g] = c
    BY <1>0, <1>1, <1>4, <1>5
  <2>. QED BY <1>1, <1>4, <1>5, <2>1, <2>2 DEF Fetching
<1>7. ASSUME NEW g \in Paths
      PROVE  \/ g \in Changed(p)'
             \/ RowKept(g)' /\ Unclaimed(g)' /\ ReceiptKept(g)'
  <2>1. CASE g \in Changed(p)
    BY <1>1, <1>5, <2>1 DEF Changed
  <2>2. CASE g \notin Changed(p) /\ g # f
    BY <1>1, <1>3, <1>5, <2>2 DEF RowKept, Unclaimed, ReceiptKept
  <2>3. CASE g \notin Changed(p) /\ g = f
    <3>1. RowKept(f) /\ Unclaimed(f) /\ ReceiptKept(f)
      BY <1>3, <2>3
    <3>2. CASE \E c \in Contents \ {job[p]} : <<f, c>> \in saved[p]
      BY <1>1, <1>4, <1>5, <2>3, <3>2 DEF Changed
    <3>3. CASE ~ \E c \in Contents \ {job[p]} : <<f, c>> \in saved[p]
      <4>1. disk[f] = None \/ disk[f] = job[p]
        BY <1>0, <1>1, <1>4, <3>3
      <4>2. RowKept(f)'
        BY <1>0, <1>1, <1>5, <3>1, <4>1 DEF RowKept
      <4>3. Unclaimed(f)'
        BY <1>0, <1>1, <1>5, <3>1, <4>1 DEF Unclaimed
      <4>4. ReceiptKept(f)'
        BY <1>1, <3>1 DEF ReceiptKept
      <4>. QED BY <2>3, <4>2, <4>3, <4>4
    <3>. QED BY <3>2, <3>3
  <2>. QED BY <2>1, <2>2, <2>3
<1>8. pc'[p] \in Writing /\ torn' = {}
  BY <1>1, <1>2, <1>3
<1>9. Move(p) /\ "overlap" \notin marks
  BY DEF Move
<1>. QED BY <1>6, <1>7, <1>8, <1>9, RunKeeps

\* The rows are written for files that are all there.
LEMMA RowsKeep ==
  ASSUME TypeOK, Orderly, Kept, marks \subseteq {"cut"}, NEW p \in Procs, AppendRows(p)
  PROVE  Kept'
<1>0. /\ pc \in [Procs -> Running \cup Ended] /\ job \in [Procs -> Archives] /\ None \notin Archives
      /\ Package(p) \in Packages /\ None \notin Packages /\ Assets(p) \subseteq Paths
  BY ArchivesAssumption, Constants DEF TypeOK, Package, Assets
<1>1. /\ pc[p] = "rows" /\ pc'[p] = "receipt" /\ job' = job /\ disk' = disk
      /\ receipts' = receipts /\ torn' = torn
      /\ \A f \in Paths : owner'[f] = IF f \in Assets(p) THEN Package(p) ELSE owner[f]
      /\ \A f \in Paths : recorded'[f] = IF f \in Assets(p) THEN disk[f] ELSE recorded[f]
  BY <1>0 DEF AppendRows, Goto
<1>2. pc[p] \in Running /\ pc[p] \in Writing
  BY <1>1 DEF Running, Writing
<1>3. /\ torn = {} /\ Fetching(p)
      /\ \A f \in Paths : f \in Changed(p) \/ (RowKept(f) /\ Unclaimed(f) /\ ReceiptKept(f))
  BY <1>1, <1>2, RunKept
<1>4. todo[p] = {} /\ \A f \in Assets(p) : disk[f] = job[p]
  BY <1>1, <1>2, <1>3 DEF Fetching
<1>5. Assets(p)' = Assets(p) /\ Package(p)' = Package(p)
  BY <1>1 DEF Assets, Package
<1>6. Fetching(p)'
  <2>1. \A f \in Assets(p) : disk'[f] = job[p] /\ owner'[f] = Package(p) /\ recorded'[f] = job[p]
    BY <1>0, <1>1, <1>4
  <2>2. pc'[p] \notin Writing /\ pc'[p] \notin {"log", "rows"}
    BY <1>1 DEF Writing
  <2>. QED BY <1>1, <1>5, <2>1, <2>2 DEF Fetching
<1>7. ASSUME NEW f \in Paths
      PROVE  RowKept(f)' /\ Unclaimed(f)' /\ (ReceiptKept(f)' \/ f \in Assets(p)')
  <2>1. CASE f \in Assets(p)
    <3>1. disk'[f] = job[p] /\ owner'[f] = Package(p) /\ recorded'[f] = job[p]
      BY <1>1, <1>4, <2>1
    <3>. QED BY <1>0, <1>5, <2>1, <3>1 DEF RowKept, Unclaimed
  <2>2. CASE f \notin Assets(p)
    <3>1. RowKept(f) /\ Unclaimed(f) /\ ReceiptKept(f)
      BY <1>3, <2>2 DEF Changed
    <3>. QED BY <1>1, <2>2, <3>1 DEF RowKept, Unclaimed, ReceiptKept
  <2>. QED BY <2>1, <2>2
<1>8. Move(p) /\ "overlap" \notin marks /\ torn' = {}
  BY <1>1, <1>3 DEF Move
<1>. QED BY <1>1, <1>6, <1>7, <1>8, RunKeeps

\* The new receipt lists the files as their rows do.
LEMMA ReceiptKeeps ==
  ASSUME TypeOK, Orderly, Kept, marks \subseteq {"cut"}, NEW p \in Procs, WriteReceipt(p)
  PROVE  Kept'
<1>0. /\ pc \in [Procs -> Running \cup Ended] /\ job \in [Procs -> Archives] /\ None \notin Packages
      /\ Package(p) \in Packages /\ receipts \in [Packages -> SUBSET (Paths \X Contents)]
  BY ArchivesAssumption, Constants DEF TypeOK, Package
<1>1. /\ pc[p] = "receipt" /\ pc'[p] = "done" /\ torn' = torn \ {Package(p)}
      /\ receipts' = [receipts EXCEPT ![Package(p)] = Hashed(Assets(p))]
      /\ disk' = disk /\ owner' = owner /\ recorded' = recorded
  BY <1>0 DEF WriteReceipt, Goto
<1>2. pc[p] \in Running /\ pc[p] \notin Writing
  BY <1>1 DEF Running, Writing
<1>3. /\ torn = {} /\ Fetching(p)
      /\ \A f \in Paths : RowKept(f) /\ Unclaimed(f) /\ (ReceiptKept(f) \/ f \in Assets(p))
  BY <1>2, RunKept
<1>4. \A f \in Assets(p) : disk[f] = job[p] /\ owner[f] = Package(p) /\ recorded[f] = job[p]
  BY <1>1, <1>3 DEF Fetching
<1>5. Fetching(p)'
  BY <1>1 DEF Fetching, Writing
<1>6. ASSUME NEW f \in Paths
      PROVE  RowKept(f)' /\ Unclaimed(f)' /\ ReceiptKept(f)'
  <2>0. RowKept(f) /\ Unclaimed(f) /\ (ReceiptKept(f) \/ f \in Assets(p))
    BY <1>3
  <2>1. \A c : <<f, c>> \in Hashed(Assets(p)) => f \in Assets(p) /\ disk[f] = c
    BY DEF Hashed
  <2>2. /\ \A q \in Packages \ {Package(p)} : receipts'[q] = receipts[q]
        /\ receipts'[Package(p)] = Hashed(Assets(p))
    BY <1>0, <1>1
  <2>3. RowKept(f)'
    BY <1>1, <2>0 DEF RowKept
  <2>4. ASSUME NEW q \in Packages, NEW c \in Archives, <<f, c>> \in receipts'[q]
        PROVE  /\ owner[f] = q => c = recorded[f]
               /\ owner[f] = None => disk[f] = c /\ c \in {Seed, Kernel}
    <3>1. CASE q = Package(p)
      <4>1. f \in Assets(p) /\ disk[f] = c
        BY <2>1, <2>2, <2>4, <3>1
      <4>. QED BY <1>0, <1>4, <4>1
    <3>2. CASE q # Package(p)
      <4>1. <<f, c>> \in receipts[q]
        BY <2>2, <2>4, <3>2
      <4>2. owner[f] = q => f \notin Assets(p)
        BY <1>4, <3>2
      <4>. QED BY <2>0, <4>1, <4>2 DEF Unclaimed, ReceiptKept
    <3>. QED BY <3>1, <3>2
  <2>. QED BY <1>1, <2>3, <2>4 DEF Unclaimed, ReceiptKept
<1>7. torn' = {}
  BY <1>1, <1>3
<1>8. Move(p) /\ "overlap" \notin marks
  BY DEF Move
<1>. QED BY <1>5, <1>6, <1>7, <1>8, RunKeeps

\* The steps of a run that leave the tree alone, or may only look as if they did not.
LEMMA QuietStepKeeps ==
  ASSUME TypeOK, Orderly, Kept, marks \subseteq {"cut"}, NEW p \in Procs,
         Gates(p) \/ Owners(p) \/ Backup(p) \/ Validate(p) \/ LogInstalled(p) \/ Fail(p)
  PROVE  Kept'
<1>0. pc \in [Procs -> Running \cup Ended] /\ todo \in [Procs -> SUBSET Paths]
      /\ saved \in [Procs -> SUBSET (Paths \X Contents)] /\ job \in [Procs -> Archives]
  BY DEF TypeOK
<1>1. Move(p) /\ "overlap" \notin marks
  BY DEF Move
<1>2. pc[p] \in Running
  BY <1>1, MoveFacts
<1>3. /\ torn = {} /\ Fetching(p)
      /\ \A f \in Paths :
           \/ pc[p] \in Writing /\ f \in Changed(p)
           \/ /\ RowKept(f) /\ Unclaimed(f)
              /\ ReceiptKept(f) \/ (pc[p] = "receipt" /\ f \in Assets(p))
  BY <1>2, RunKept
<1>4. ASSUME UNCHANGED <<disk, owner, recorded, receipts, torn>>, Fetching(p)',
             pc[p] \in Writing => pc'[p] \in Writing /\ Changed(p)' = Changed(p),
             pc[p] # "receipt"
      PROVE  Kept'
  BY <1>1, <1>3, <1>4, SameTree, RunKeeps
<1>5. CASE Gates(p) \/ Owners(p) \/ Fail(p)
  <2>1. /\ pc[p] \in {"gates", "owners", "fail"}
        /\ pc'[p] \in {"owners", "fail", "done", "backup", "refused"}
        /\ UNCHANGED <<disk, owner, recorded, receipts, torn>>
    BY <1>0, <1>5 DEF Gates, Owners, Fail, Goto, tree
  <2>. QED BY <1>4, <2>1 DEF Fetching, Writing
<1>6. CASE Backup(p)
  <2>1. /\ pc[p] = "backup" /\ pc'[p] = "copy" /\ job' = job
        /\ UNCHANGED <<disk, owner, recorded, receipts, torn>>
        /\ todo'[p] = Assets(p)
        /\ saved'[p] = {e \in Assets(p) \X Contents : disk[e[1]] = e[2]}
    BY <1>0, <1>6 DEF Backup, Goto, tree
  <2>2. Assets(p)' = Assets(p)
    BY <2>1 DEF Assets
  <2>3. \A f \in Assets(p), c \in Contents : <<f, c>> \in saved'[p] <=> disk[f] = c
    BY <2>1
  <2>4. Fetching(p)'
    BY <2>1, <2>2, <2>3 DEF Fetching, Writing
  <2>. QED BY <1>4, <2>1, <2>4 DEF Writing
<1>7. CASE LogInstalled(p)
  <2>1. /\ pc[p] = "log" /\ pc'[p] = "rows" /\ job' = job /\ todo' = todo /\ saved' = saved
        /\ UNCHANGED <<disk, owner, recorded, receipts, torn>>
    BY <1>0, <1>7 DEF LogInstalled, Goto, tree
  <2>2. Assets(p)' = Assets(p) /\ Changed(p)' = Changed(p)
    BY <2>1 DEF Assets, Changed
  <2>3. Fetching(p)'
    BY <1>3, <2>1, <2>2 DEF Fetching, Writing
  <2>. QED BY <1>4, <2>1, <2>2, <2>3 DEF Writing
<1>8. CASE Validate(p)
  <2>1. pc[p] = "copy" /\ todo[p] = {}
    BY <1>8 DEF Validate
  <2>2. \A f \in Assets(p) : disk[f] = job[p]
    BY <1>3, <2>1 DEF Fetching, Writing
  <2>3. /\ pc'[p] = "log" /\ job' = job /\ todo' = todo /\ saved' = saved
        /\ UNCHANGED <<disk, owner, recorded, receipts, torn>>
    BY <1>0, <1>8, <2>2 DEF Validate, Goto
  <2>4. Assets(p)' = Assets(p) /\ Changed(p)' = Changed(p)
    BY <2>3 DEF Assets, Changed
  <2>5. Fetching(p)'
    BY <1>3, <2>1, <2>3, <2>4 DEF Fetching, Writing
  <2>. QED BY <1>4, <2>1, <2>3, <2>4, <2>5 DEF Writing
<1>. QED BY <1>5, <1>6, <1>7, <1>8

\* A run that ends early has replaced nothing, or the marks tell.
LEMMA EarlyEndKeeps ==
  ASSUME TypeOK, Orderly, Kept, marks \subseteq {"cut"}, marks' \subseteq {"cut"}, NEW p \in Procs,
         \/ \E f \in Paths : TargetExists(p, f)
         \/ \E t \in BOOLEAN : Raise(p, t) \/ Crash(p, t)
  PROVE  Kept'
<1>0. pc \in [Procs -> Running \cup Ended] /\ job \in [Procs -> Archives] /\ Package(p) \in Packages
  BY Constants DEF TypeOK, Package
<1>1. Move(p) /\ "overlap" \notin marks
  BY DEF Move
<1>2. pc[p] \in Running
  BY <1>1, MoveFacts
<1>3. /\ torn = {} /\ Fetching(p)
      /\ \A f \in Paths :
           \/ pc[p] \in Writing /\ f \in Changed(p)
           \/ /\ RowKept(f) /\ Unclaimed(f)
              /\ ReceiptKept(f) \/ (pc[p] = "receipt" /\ f \in Assets(p))
  BY <1>2, RunKept
<1>4. /\ pc'[p] \in {"fail", "refused", "killed"}
      /\ UNCHANGED <<disk, owner, recorded, receipts, torn>>
      /\ LeftOvers(p) \subseteq marks'
  <2>1. CASE \E f \in Paths : TargetExists(p, f)
    BY <1>0, <2>1 DEF TargetExists, Goto, tree
  <2>2. ASSUME NEW t \in BOOLEAN, Raise(p, t) \/ Crash(p, t)
        PROVE  /\ pc'[p] \in {"fail", "refused", "killed"}
               /\ UNCHANGED <<disk, owner, recorded, receipts, torn>>
               /\ LeftOvers(p) \subseteq marks'
    <3>1. Tear(p, t) /\ UNCHANGED <<disk, owner, recorded, receipts>>
          /\ pc'[p] \in {"fail", "refused", "killed"}
      BY <1>0, <2>2 DEF Raise, Crash, Goto
    <3>2. ~ t
      BY <3>1 DEF Tear
    <3>. QED BY <3>1, <3>2 DEF Tear
  <2>. QED BY <2>1, <2>2
<1>5. "overwrite" \notin LeftOvers(p)
  BY <1>4
<1>6. /\ pc[p] \in Writing => Changed(p) = {}
      /\ pc[p] = "receipt" => ~ Outdated(p)
  BY <1>5 DEF LeftOvers, Writing
<1>7. Fetching(p)'
  BY <1>4 DEF Fetching, Writing
<1>8. ASSUME NEW f \in Paths
      PROVE  RowKept(f) /\ Unclaimed(f) /\ ReceiptKept(f)
  <2>1. CASE pc[p] = "receipt" /\ f \in Assets(p)
    <3>1. /\ owner[f] = Package(p) /\ recorded[f] = job[p]
          /\ \A c \in Archives : <<f, c>> \in receipts[Package(p)] => c = job[p]
      BY <1>3, <1>6, <2>1, Constants DEF Fetching, Outdated
    <3>2. ReceiptKept(f)
      BY <3>1 DEF ReceiptKept
    <3>. QED BY <1>3, <2>1, <3>2 DEF Writing
  <2>2. CASE ~ (pc[p] = "receipt" /\ f \in Assets(p))
    BY <1>3, <1>6, <2>2
  <2>. QED BY <2>1, <2>2
<1>9. torn' = {}
  BY <1>3, <1>4
<1>. QED BY <1>1, <1>4, <1>7, <1>8, <1>9, SameTree, RunKeeps

\* Nobody is at work where install.sh works.
LEMMA ScriptAlone ==
  ASSUME TypeOK, Orderly, "overlap" \notin marks, stage \notin Closed, pc[Script] \notin Running
  PROVE  \A p \in Procs : pc[p] \notin Running
BY DEF Orderly, Alone, Procs

\* What is left to show of a step of install.sh or of the start of a run.
LEMMA NobodyKeeps ==
  ASSUME \A p \in Procs : pc'[p] \notin {"copy", "log", "rows", "receipt"},
         torn' = {}, Bringing',
         \A f \in Paths : Replacing(f)' \/ (RowKept(f)' /\ Unclaimed(f)' /\ ReceiptKept(f)')
  PROVE  Kept'
<1>1. \A p \in Procs : Fetching(p)'
  BY DEF Fetching, Writing
<1>2. \A f \in Paths : PathKept(f)'
  BY DEF PathKept, Overwriting
<1>. QED BY <1>1, <1>2 DEF Kept

LEMMA NobodyKept ==
  ASSUME Kept, marks \subseteq {"cut"}, \A p \in Procs : pc[p] \notin Running
  PROVE  /\ torn = {} /\ Bringing
         /\ \A f \in Paths : Replacing(f) \/ (RowKept(f) /\ Unclaimed(f) /\ ReceiptKept(f))
<1>1. torn = {} /\ Bringing /\ \A f \in Paths : PathKept(f)
  BY DEF Kept
<1>2. \A f \in Paths : (Overwriting(f) => Replacing(f)) /\ ~ Rewriting(f)
  BY RunningNames DEF Overwriting, Rewriting
<1>. QED BY <1>1, <1>2 DEF PathKept

\* A run or install.sh that starts while nothing is at work.
LEMMA StartKeeps ==
  ASSUME TypeOK, Kept, marks \subseteq {"cut"}, \A p \in Procs : pc[p] \notin Running,
         stage \in Closed \cup {"loop"}, stage' \in Closed \cup {"seed", "loop"},
         UNCHANGED tree,
         \/ \E q \in Procs : \E a, o : Launch(q, a, o)
         \/ \E q \in Procs : Goto(q, "idle")
         \/ pc' = pc
  PROVE  Kept'
<1>0. pc \in [Procs -> Running \cup Ended]
  BY DEF TypeOK
<1>1. \A p \in Procs : pc'[p] \notin {"copy", "log", "rows", "receipt"}
  <2>1. \A p \in Procs : pc[p] \notin {"copy", "log", "rows", "receipt"}
    BY DEF Running
  <2>2. \/ \E q \in Procs : pc' = [pc EXCEPT ![q] = "gates"] \/ pc' = [pc EXCEPT ![q] = "idle"]
        \/ pc' = pc
    BY DEF Launch, Goto
  <2>. QED BY <1>0, <2>1, <2>2
<1>2. /\ torn = {}
      /\ \A f \in Paths : Replacing(f) \/ (RowKept(f) /\ Unclaimed(f) /\ ReceiptKept(f))
  BY NobodyKept
<1>3. \A f \in Paths : ~ Replacing(f)
  BY DEF Replacing, Closed
<1>4. Bringing'
  BY DEF Bringing, Closed
<1>5. torn' = {} /\ \A f \in Paths : RowKept(f)' /\ Unclaimed(f)' /\ ReceiptKept(f)'
  BY <1>2, <1>3, SameTree DEF tree
<1>. QED BY <1>1, <1>4, <1>5, NobodyKeeps

\* The genesis package is extracted over files that are its own already.
LEMMA ExtractSeedKeeps ==
  ASSUME TypeOK, Genuine, Kept, Whole, marks \subseteq {"cut"},
         \A p \in Procs : pc[p] \notin Running, ExtractSeed
  PROVE  Kept'
<1>0. disk \in [Paths -> Contents \cup {None}] /\ recorded \in [Paths -> Contents \cup {None}]
      /\ Files[Seed] \subseteq Paths
  BY Constants DEF TypeOK
<1>1. /\ stage = "seed" /\ stage' = "kernel" /\ pc' = pc /\ torn' = torn
      /\ owner' = owner /\ recorded' = recorded /\ receipts' = receipts
      /\ \A f \in Paths : disk'[f] = IF f \in Files[Seed] THEN Seed ELSE disk[f]
  BY DEF ExtractSeed, Advance, run
<1>2. /\ torn = {}
      /\ \A f \in Paths : RowKept(f) /\ Unclaimed(f) /\ ReceiptKept(f)
  BY <1>1, NobodyKept DEF Replacing
<1>3. Bringing'
  BY <1>0, <1>1 DEF Bringing
<1>4. ASSUME NEW f \in Paths
      PROVE  RowKept(f)' /\ Unclaimed(f)' /\ ReceiptKept(f)'
  <2>0. RowKept(f) /\ Unclaimed(f) /\ ReceiptKept(f)
    BY <1>2
  <2>1. ReceiptKept(f)'
    BY <1>1, <2>0 DEF ReceiptKept
  <2>2. CASE f \in Files[Seed]
    <3>1. recorded[f] # None => recorded[f] = Seed
      <4>1. recorded[f] \in Archives \cup {None}
        BY <1>0, <2>2 DEF Whole, Contents
      <4>. QED BY <1>0, <2>2, <4>1, SeedOnly DEF Genuine, InRows
    <3>2. \A q \in Packages, c \in Archives : <<f, c>> \in receipts[q] => c = Seed
      BY <2>2, SeedOnly DEF Genuine, InReceipts
    <3>3. disk'[f] = Seed
      BY <1>1, <2>2
    <3>. QED BY <1>1, <2>0, <2>1, <3>1, <3>2, <3>3 DEF RowKept, Unclaimed
  <2>3. CASE f \notin Files[Seed]
    BY <1>1, <2>0, <2>1, <2>3 DEF RowKept, Unclaimed
  <2>. QED BY <2>2, <2>3
<1>5. \A p \in Procs : pc'[p] \notin {"copy", "log", "rows", "receipt"}
  BY <1>1 DEF Running
<1>. QED BY <1>1, <1>2, <1>3, <1>4, <1>5, NobodyKeeps

\* Before anything of the kernel is extracted nothing is replaced.
LEMMA VerifyKeeps ==
  ASSUME TypeOK, Kept, marks \subseteq {"cut"}, \A p \in Procs : pc[p] \notin Running, VerifyKernel
  PROVE  Kept'
<1>0. todo \in [Procs -> SUBSET Paths]
  BY DEF TypeOK
<1>1. /\ stage = "kernel" /\ pc' = pc
      /\ UNCHANGED <<disk, owner, recorded, receipts, torn>>
      /\ stage' = "stopped" \/ (stage' = "extract" /\ todo'[Script] = Files[Kernel])
  BY <1>0, Constants DEF VerifyKernel, Advance, tree
<1>2. /\ torn = {} /\ Bringing
      /\ \A f \in Paths : RowKept(f) /\ Unclaimed(f) /\ ReceiptKept(f)
  BY <1>1, NobodyKept DEF Replacing
<1>3. \A f \in Files[Seed] : disk[f] = Seed
  BY <1>1, <1>2 DEF Bringing
<1>4. Bringing'
  BY <1>1, <1>3 DEF Bringing
<1>5. \A p \in Procs : pc'[p] \notin {"copy", "log", "rows", "receipt"}
  BY <1>1 DEF Running
<1>. QED BY <1>1, <1>2, <1>4, <1>5, SameTree, NobodyKeeps

\* What has no row is listed, if at all, with the content the kernel brings.
LEMMA ExtractKernelKeeps ==
  ASSUME TypeOK, Filling, Genuine, Kept, marks \subseteq {"cut"},
         \A p \in Procs : pc[p] \notin Running, NEW f \in Paths, ExtractKernel(f)
  PROVE  Kept'
<1>0. disk \in [Paths -> Contents \cup {None}] /\ todo \in [Procs -> SUBSET Paths]
      /\ Files[Seed] \subseteq Paths /\ Files[Kernel] \subseteq Paths /\ None \notin Archives
  BY Constants, ArchivesAssumption DEF TypeOK
<1>1. /\ stage = "extract" /\ stage' = stage /\ pc' = pc /\ torn' = torn /\ f \in Files[Kernel]
      /\ owner' = owner /\ recorded' = recorded /\ receipts' = receipts /\ f \in todo[Script]
      /\ disk' = [disk EXCEPT ![f] = Kernel] /\ todo'[Script] = todo[Script] \ {f}
  BY <1>0, Constants DEF ExtractKernel, Filling
<1>2. /\ torn = {} /\ Bringing
      /\ \A g \in Paths : Replacing(g) \/ (RowKept(g) /\ Unclaimed(g) /\ ReceiptKept(g))
  BY NobodyKept
<1>3. /\ \A g \in Files[Seed] : disk[g] = Seed
      /\ \A g \in Files[Kernel] \ todo[Script] : disk[g] = Kernel
  BY <1>1, <1>2 DEF Bringing
<1>4. \A g \in Files[Seed] : disk'[g] = Seed
  <2>1. f \in Files[Seed] => Kernel = Seed
    BY <1>1, SeedOnly, Constants
  <2>. QED BY <1>0, <1>1, <1>3, <2>1
<1>5. \A g \in Files[Kernel] \ todo'[Script] : disk'[g] = Kernel
  BY <1>0, <1>1, <1>3
<1>6. Bringing'
  BY <1>1, <1>4, <1>5 DEF Bringing
<1>7. ASSUME NEW g \in Paths
      PROVE  Replacing(g)' \/ (RowKept(g)' /\ Unclaimed(g)' /\ ReceiptKept(g)')
  <2>1. CASE Replacing(g)
    BY <1>1, <2>1 DEF Replacing
  <2>2. CASE ~ Replacing(g) /\ g # f
    BY <1>0, <1>1, <1>2, <2>2 DEF RowKept, Unclaimed, ReceiptKept
  <2>3. CASE ~ Replacing(g) /\ g = f
    <3>1. RowKept(f) /\ Unclaimed(f) /\ ReceiptKept(f) /\ disk'[f] = Kernel
      BY <1>0, <1>1, <1>2, <2>3
    <3>2. CASE owner[f] # None /\ recorded[f] # Kernel
      BY <1>1, <2>3, <3>2 DEF Replacing
    <3>3. CASE owner[f] # None /\ recorded[f] = Kernel
      BY <1>0, <1>1, <2>3, <3>1, <3>3, Constants DEF RowKept, Unclaimed, ReceiptKept
    <3>4. CASE owner[f] = None
      <4>1. ASSUME NEW q \in Packages, NEW c \in Archives, <<f, c>> \in receipts[q]
            PROVE  c = Kernel
        <5>1. c \in {Seed, Kernel}
          BY <3>1, <3>4, <4>1 DEF Unclaimed
        <5>2. f \in Files[c]
          BY <4>1 DEF Genuine, InReceipts
        <5>3. c = Seed => Kernel = Seed
          BY <1>1, <5>2, SeedOnly, Constants
        <5>. QED BY <5>1, <5>3
      <4>. QED BY <1>1, <2>3, <3>1, <3>4, <4>1 DEF RowKept, Unclaimed, ReceiptKept
    <3>. QED BY <3>2, <3>3, <3>4
  <2>. QED BY <2>1, <2>2, <2>3
<1>8. \A p \in Procs : pc'[p] \notin {"copy", "log", "rows", "receipt"}
  BY <1>1 DEF Running
<1>. QED BY <1>1, <1>2, <1>6, <1>7, <1>8, NobodyKeeps

LEMMA KernelReceiptKeeps ==
  ASSUME TypeOK, Genuine, Kept, marks \subseteq {"cut"}, \A p \in Procs : pc[p] \notin Running,
         KernelReceipt
  PROVE  Kept'
<1>0. receipts \in [Packages -> SUBSET (Paths \X Contents)] /\ Files[Kernel] \subseteq Paths
  BY Constants DEF TypeOK
<1>1. /\ stage = "extract" /\ stage' = "rows" /\ pc' = pc /\ torn' = torn \ {KernelPkg}
      /\ owner' = owner /\ recorded' = recorded /\ disk' = disk /\ todo' = todo
      /\ todo[Script] = {}
      /\ \A q \in Packages \ {KernelPkg} : receipts'[q] = receipts[q]
      /\ receipts'[KernelPkg] = Hashed(Files[Kernel])
  BY <1>0, Constants DEF KernelReceipt, Advance, run
<1>2. /\ torn = {} /\ Bringing
      /\ \A f \in Paths : Replacing(f) \/ (RowKept(f) /\ Unclaimed(f) /\ ReceiptKept(f))
  BY NobodyKept
<1>3. /\ \A f \in Files[Seed] : disk[f] = Seed
      /\ \A f \in Files[Kernel] : disk[f] = Kernel
  BY <1>1, <1>2 DEF Bringing
<1>4. \A f, c : <<f, c>> \in Hashed(Files[Kernel]) => f \in Files[Kernel] /\ disk[f] = c /\ c = Kernel
  BY <1>3 DEF Hashed
<1>5. Bringing'
  BY <1>1, <1>3, <1>4 DEF Bringing
<1>6. ASSUME NEW f \in Paths
      PROVE  Replacing(f)' \/ (RowKept(f)' /\ Unclaimed(f)' /\ ReceiptKept(f)')
  <2>1. CASE Replacing(f)
    BY <1>1, <2>1 DEF Replacing
  <2>2. CASE ~ Replacing(f)
    <3>1. RowKept(f) /\ Unclaimed(f) /\ ReceiptKept(f)
      BY <1>2, <2>2
    <3>2. RowKept(f)'
      BY <1>1, <3>1 DEF RowKept
    <3>3. ASSUME NEW q \in Packages, NEW c \in Archives, <<f, c>> \in receipts'[q]
          PROVE  /\ owner[f] = q => c = recorded[f]
                 /\ owner[f] = None => disk[f] = c /\ c \in {Seed, Kernel}
      <4>1. CASE q = KernelPkg
        <5>1. f \in Files[Kernel] /\ disk[f] = c /\ c = Kernel
          BY <1>1, <1>4, <3>3, <4>1
        <5>2. owner[f] # None => recorded[f] = Kernel
          BY <1>1, <2>2, <5>1 DEF Replacing
        <5>3. q # None
          BY ArchivesAssumption
        <5>. QED BY <5>1, <5>2, <5>3
      <4>2. CASE q # KernelPkg
        BY <1>1, <3>1, <3>3, <4>2 DEF Unclaimed, ReceiptKept
      <4>. QED BY <4>1, <4>2
    <3>. QED BY <1>1, <3>2, <3>3 DEF Unclaimed, ReceiptKept
  <2>. QED BY <2>1, <2>2
<1>7. \A p \in Procs : pc'[p] \notin {"copy", "log", "rows", "receipt"}
  BY <1>1 DEF Running
<1>8. torn' = {}
  BY <1>1, <1>2
<1>. QED BY <1>5, <1>6, <1>7, <1>8, NobodyKeeps

\* When the rows of others are lost, the marks say so.
LEMMA KernelRowsKeep ==
  ASSUME TypeOK, Genuine, Kept, marks \subseteq {"cut"}, marks' \subseteq {"cut"},
         \A p \in Procs : pc[p] \notin Running, KernelRows
  PROVE  Kept'
<1>0. Files[Seed] \subseteq Paths /\ Files[Kernel] \subseteq Paths /\ KernelPkg \in Packages
      /\ None \notin Packages \cup Archives /\ Kernel \in Archives
  BY Constants, ArchivesAssumption
<1>1. /\ stage = "rows" /\ stage' = "seedrows" /\ pc' = pc /\ torn' = torn
      /\ disk' = disk /\ receipts' = receipts
      /\ \A f \in Paths : owner'[f] = IF f \in Files[Kernel] THEN KernelPkg ELSE None
      /\ \A f \in Paths : recorded'[f] = IF f \in Files[Kernel] THEN disk[f] ELSE None
      /\ ~ Others
  <2>1. "forgot" \notin marks'
    OBVIOUS
  <2>. QED BY <2>1 DEF KernelRows, Advance, run
<1>2. /\ torn = {} /\ Bringing
      /\ \A f \in Paths : Replacing(f) \/ (RowKept(f) /\ Unclaimed(f) /\ ReceiptKept(f))
  BY NobodyKept
<1>3. /\ \A f \in Files[Seed] : disk[f] = Seed
      /\ \A f \in Files[Kernel] : disk[f] = Kernel
      /\ \A f \in Paths, c \in Archives : <<f, c>> \in receipts[KernelPkg] => c = Kernel
  BY <1>1, <1>2 DEF Bringing
<1>4. Bringing'
  BY <1>1, <1>3 DEF Bringing
<1>5. ASSUME NEW f \in Paths
      PROVE  RowKept(f)' /\ Unclaimed(f)' /\ ReceiptKept(f)'
  <2>1. CASE f \in Files[Kernel]
    <3>1. owner'[f] = KernelPkg /\ recorded'[f] = Kernel /\ disk'[f] = Kernel
      BY <1>1, <1>3, <2>1
    <3>2. RowKept(f)' /\ Unclaimed(f)'
      BY <1>0, <3>1 DEF RowKept, Unclaimed
    <3>3. ReceiptKept(f)'
      BY <1>1, <1>3, <3>1 DEF ReceiptKept
    <3>. QED BY <3>2, <3>3
  <2>2. CASE f \notin Files[Kernel]
    <3>1. owner'[f] = None
      BY <1>1, <2>2
    <3>2. RowKept(f)'
      BY <3>1 DEF RowKept
    <3>3. ReceiptKept(f)'
      BY <1>0, <3>1 DEF ReceiptKept
    <3>4. ASSUME NEW q \in Packages, NEW c \in Archives, <<f, c>> \in receipts[q]
          PROVE  disk[f] = c /\ c \in {Seed, Kernel}
      <4>1. CASE f \in Files[Seed]
        <5>1. c = Seed
          BY <3>4, <4>1, SeedOnly DEF Genuine, InReceipts
        <5>. QED BY <1>3, <4>1, <5>1
      <4>2. CASE f \notin Files[Seed]
        <5>1. owner[f] = None
          BY <1>1, <2>2, <4>2 DEF Others
        <5>2. ~ Replacing(f)
          BY <2>2 DEF Replacing
        <5>. QED BY <1>2, <3>4, <5>1, <5>2 DEF Unclaimed
      <4>. QED BY <4>1, <4>2
    <3>5. Unclaimed(f)'
      BY <1>1, <3>4 DEF Unclaimed
    <3>. QED BY <3>2, <3>3, <3>5
  <2>. QED BY <2>1, <2>2
<1>6. \A p \in Procs : pc'[p] \notin {"copy", "log", "rows", "receipt"}
  BY <1>1 DEF Running
<1>. QED BY <1>1, <1>2, <1>4, <1>5, <1>6, NobodyKeeps

LEMMA SeedRowsKeep ==
  ASSUME TypeOK, Genuine, Kept, marks \subseteq {"cut"}, \A p \in Procs : pc[p] \notin Running,
         SeedRows
  PROVE  Kept'
<1>0. Files[Seed] \subseteq Paths /\ SeedPkg \in Packages
      /\ None \notin Packages \cup Archives /\ Seed \in Archives
  BY Constants, ArchivesAssumption
<1>1. /\ stage = "seedrows" /\ stage' = "seedreceipt" /\ pc' = pc /\ torn' = torn
      /\ disk' = disk /\ receipts' = receipts
      /\ \A f \in Paths : owner'[f] = IF f \in Files[Seed] THEN SeedPkg ELSE owner[f]
      /\ \A f \in Paths : recorded'[f] = IF f \in Files[Seed] THEN disk[f] ELSE recorded[f]
  BY DEF SeedRows, Advance, run
<1>2. /\ torn = {} /\ Bringing
      /\ \A f \in Paths : RowKept(f) /\ Unclaimed(f) /\ ReceiptKept(f)
  BY <1>1, NobodyKept DEF Replacing
<1>3. \A f \in Files[Seed] : disk[f] = Seed
  BY <1>1, <1>2 DEF Bringing
<1>4. Bringing'
  BY <1>1, <1>3 DEF Bringing
<1>5. ASSUME NEW f \in Paths
      PROVE  RowKept(f)' /\ Unclaimed(f)' /\ ReceiptKept(f)'
  <2>1. CASE f \in Files[Seed]
    <3>1. owner'[f] = SeedPkg /\ recorded'[f] = Seed /\ disk'[f] = Seed
      BY <1>1, <1>3, <2>1
    <3>2. RowKept(f)' /\ Unclaimed(f)'
      BY <1>0, <3>1 DEF RowKept, Unclaimed
    <3>3. \A q \in Packages, c \in Archives : <<f, c>> \in receipts[q] => c = Seed
      BY <2>1, SeedOnly DEF Genuine, InReceipts
    <3>4. ReceiptKept(f)'
      BY <1>1, <3>1, <3>3 DEF ReceiptKept
    <3>. QED BY <3>2, <3>4
  <2>2. CASE f \notin Files[Seed]
    BY <1>1, <1>2, <2>2 DEF RowKept, Unclaimed, ReceiptKept
  <2>. QED BY <2>1, <2>2
<1>6. \A p \in Procs : pc'[p] \notin {"copy", "log", "rows", "receipt"}
  BY <1>1 DEF Running
<1>. QED BY <1>1, <1>2, <1>4, <1>5, <1>6, NobodyKeeps

LEMMA SeedReceiptKeeps ==
  ASSUME TypeOK, Genuine, Kept, marks \subseteq {"cut"}, \A p \in Procs : pc[p] \notin Running,
         SeedReceipt
  PROVE  Kept'
<1>0. receipts \in [Packages -> SUBSET (Paths \X Contents)] /\ SeedPkg \in Packages
      /\ None \notin Packages
  BY Constants, ArchivesAssumption DEF TypeOK
<1>1. /\ stage = "seedreceipt" /\ stage' = "resolve" /\ pc' = pc /\ torn' = torn \ {SeedPkg}
      /\ disk' = disk /\ owner' = owner /\ recorded' = recorded
      /\ \A q \in Packages \ {SeedPkg} : receipts'[q] = receipts[q]
      /\ receipts'[SeedPkg] = Hashed(Files[Seed])
  BY <1>0 DEF SeedReceipt, Advance, run
<1>2. /\ torn = {} /\ Bringing
      /\ \A f \in Paths : RowKept(f) /\ Unclaimed(f) /\ ReceiptKept(f)
  BY <1>1, NobodyKept DEF Replacing
<1>3. \A f \in Files[Seed] : disk[f] = Seed
  BY <1>1, <1>2 DEF Bringing
<1>4. Bringing'
  BY <1>1 DEF Bringing
<1>5. ASSUME NEW f \in Paths
      PROVE  RowKept(f)' /\ Unclaimed(f)' /\ ReceiptKept(f)'
  <2>1. RowKept(f)'
    BY <1>1, <1>2 DEF RowKept
  <2>2. ASSUME NEW q \in Packages, NEW c \in Archives, <<f, c>> \in receipts'[q]
        PROVE  /\ owner[f] = q => c = recorded[f]
               /\ owner[f] = None => disk[f] = c /\ c \in {Seed, Kernel}
    <3>1. CASE q = SeedPkg
      <4>1. disk[f] = c /\ c = Seed
        BY <1>1, <1>3, <2>2, <3>1 DEF Hashed
      <4>. QED BY <1>0, <1>2, <4>1 DEF RowKept
    <3>2. CASE q # SeedPkg
      BY <1>1, <1>2, <2>2, <3>2 DEF Unclaimed, ReceiptKept
    <3>. QED BY <3>1, <3>2
  <2>. QED BY <1>1, <2>1, <2>2 DEF Unclaimed, ReceiptKept
<1>6. \A p \in Procs : pc'[p] \notin {"copy", "log", "rows", "receipt"}
  BY <1>1 DEF Running
<1>7. torn' = {}
  BY <1>1, <1>2
<1>. QED BY <1>4, <1>5, <1>6, <1>7, NobodyKeeps

\* install.sh may die with the registry emptied: without marks nothing depended on it.
LEMMA ScriptDiesKeeps ==
  ASSUME TypeOK, Genuine, Kept, marks \subseteq {"cut"}, marks' \subseteq {"cut"},
         \A p \in Procs : pc[p] \notin Running, NEW t \in BOOLEAN, ScriptDies(t)
  PROVE  Kept'
<1>0. /\ Files[Seed] \subseteq Paths /\ Files[Kernel] \subseteq Paths
      /\ None \notin Packages \cup Archives
  BY Constants, ArchivesAssumption
<1>1. /\ stage' = "dead" /\ pc' = pc
      /\ disk' = disk /\ recorded' = recorded /\ receipts' = receipts
  BY DEF ScriptDies, Advance, run
<1>2. /\ stage \in {"extract", "rows"} => ~ Replaced
      /\ t => stage = "rows" /\ ~ Others /\ ~ Handed
      /\ owner' = (IF t /\ stage = "rows" THEN [f \in Paths |-> None] ELSE owner)
      /\ torn' = torn
  <2>1. "overwrite" \notin marks' /\ "forgot" \notin marks' /\ "torn" \notin marks'
    OBVIOUS
  <2>2. t => stage = "rows"
    BY <2>1 DEF ScriptDies
  <2>3. /\ stage \in {"extract", "rows"} => ~ Replaced
        /\ t => ~ Others /\ ~ Handed
    BY <2>1, <2>2 DEF ScriptDies
  <2>4. torn' = torn
    BY <2>2 DEF ScriptDies
  <2>. QED BY <2>2, <2>3, <2>4 DEF ScriptDies
<1>3. /\ torn = {} /\ Bringing
      /\ \A f \in Paths : RowKept(f) /\ Unclaimed(f) /\ ReceiptKept(f)
  <2>1. \A f \in Paths : ~ Replacing(f)
    BY <1>2 DEF Replacing, Replaced
  <2>. QED BY <2>1, NobodyKept
<1>4. Bringing'
  BY <1>1 DEF Bringing
<1>5. ASSUME NEW f \in Paths
      PROVE  RowKept(f)' /\ Unclaimed(f)' /\ ReceiptKept(f)'
  <2>1. CASE ~ t
    BY <1>1, <1>2, <1>3, <2>1, SameTree
  <2>2. CASE t
    <3>1. owner'[f] = None /\ stage = "rows" /\ ~ Others /\ ~ Handed
      BY <1>2, <2>2
    <3>2. /\ \A g \in Files[Seed] : disk[g] = Seed
          /\ \A g \in Files[Kernel] : disk[g] = Kernel
          /\ \A g \in Paths, c \in Archives : <<g, c>> \in receipts[KernelPkg] => c = Kernel
      BY <1>3, <3>1 DEF Bringing
    <3>3. ASSUME NEW q \in Packages, NEW c \in Archives, <<f, c>> \in receipts[q]
          PROVE  disk[f] = c /\ c \in {Seed, Kernel}
      <4>1. CASE f \in Files[Kernel]
        <5>1. q = KernelPkg
          BY <3>1, <3>3, <4>1, Constants DEF Handed
        <5>. QED BY <3>2, <3>3, <4>1, <5>1
      <4>2. CASE f \in Files[Seed]
        <5>1. c = Seed
          BY <3>3, <4>2, SeedOnly DEF Genuine, InReceipts
        <5>. QED BY <3>2, <4>2, <5>1
      <4>3. CASE f \notin Files[Kernel] /\ f \notin Files[Seed]
        <5>1. owner[f] = None
          BY <3>1, <4>3 DEF Others
        <5>. QED BY <1>3, <3>3, <5>1 DEF Unclaimed
      <4>. QED BY <4>1, <4>2, <4>3
    <3>4. RowKept(f)'
      BY <3>1 DEF RowKept
    <3>5. ReceiptKept(f)'
      BY <1>0, <3>1 DEF ReceiptKept
    <3>6. Unclaimed(f)'
      BY <1>1, <3>3 DEF Unclaimed
    <3>. QED BY <3>4, <3>5, <3>6
  <2>. QED BY <2>1, <2>2
<1>6. \A p \in Procs : pc'[p] \notin {"copy", "log", "rows", "receipt"}
  BY <1>1 DEF Running
<1>7. torn' = {}
  BY <1>2, <1>3
<1>. QED BY <1>4, <1>5, <1>6, <1>7, NobodyKeeps

\* A file cut short was not there before, so that nothing speaks for it; the files
\* of the genesis package that are extracted by then are its own.
LEMMA TarDiesKeeps ==
  ASSUME TypeOK, Genuine, Kept, Whole, marks \subseteq {"cut"}, marks' \subseteq {"cut"},
         \A p \in Procs : pc[p] \notin Running, NEW f \in Paths, TarDies(f)
  PROVE  Kept'
<1>0. /\ disk \in [Paths -> Contents \cup {None}] /\ recorded \in [Paths -> Contents \cup {None}]
      /\ Files[Seed] \subseteq Paths /\ None \notin Archives
  BY Constants, ArchivesAssumption DEF TypeOK
<1>1. /\ stage' = "dead" /\ pc' = pc /\ torn' = torn
      /\ owner' = owner /\ recorded' = recorded /\ receipts' = receipts
      /\ stage \in {"seed", "extract"}
  BY DEF TarDies, Unpacking, Advance, run
<1>2. PICK F \in SUBSET Files[Seed] :
        disk' = [g \in Paths |-> IF g = f THEN Truncated ELSE IF g \in F THEN Seed ELSE disk[g]]
  BY DEF TarDies
<1>3. disk[f] = None /\ ~ (stage = "extract" /\ Replaced)
  <2>1. "overwrite" \notin marks'
    OBVIOUS
  <2>. QED BY <2>1 DEF TarDies
<1>4. /\ torn = {}
      /\ \A g \in Paths : RowKept(g) /\ Unclaimed(g) /\ ReceiptKept(g)
  <2>1. \A g \in Paths : ~ Replacing(g)
    BY <1>1, <1>3 DEF Replacing, Replaced
  <2>. QED BY <2>1, NobodyKept
<1>5. Bringing'
  BY <1>1 DEF Bringing
<1>6. ASSUME NEW g \in Paths
      PROVE  RowKept(g)' /\ Unclaimed(g)' /\ ReceiptKept(g)'
  <2>0. RowKept(g) /\ Unclaimed(g) /\ ReceiptKept(g)
    BY <1>4
  <2>1. ReceiptKept(g)'
    BY <1>1, <2>0 DEF ReceiptKept
  <2>2. CASE g = f
    <3>1. owner[f] = None
      BY <1>3, <2>0, <2>2 DEF RowKept
    <3>2. \A q \in Packages, c \in Archives : <<f, c>> \notin receipts[q]
      BY <1>0, <1>3, <2>0, <2>2, <3>1 DEF Unclaimed
    <3>. QED BY <1>1, <2>1, <2>2, <3>1, <3>2 DEF RowKept, Unclaimed
  <2>3. CASE g # f /\ g \in F
    <3>1. recorded[g] # None => recorded[g] = Seed
      <4>1. recorded[g] \in Archives \cup {None}
        BY <1>0 DEF Whole, Contents
      <4>. QED BY <2>3, <4>1, SeedOnly DEF Genuine, InRows
    <3>2. \A q \in Packages, c \in Archives : <<g, c>> \in receipts[q] => c = Seed
      BY <2>3, SeedOnly DEF Genuine, InReceipts
    <3>3. disk'[g] = Seed
      BY <1>2, <2>3
    <3>. QED BY <1>1, <2>0, <2>1, <3>1, <3>2, <3>3 DEF RowKept, Unclaimed
  <2>4. CASE g # f /\ g \notin F
    <3>1. disk'[g] = disk[g]
      BY <1>2, <2>4
    <3>. QED BY <1>1, <2>0, <2>1, <3>1 DEF RowKept, Unclaimed
  <2>. QED BY <2>2, <2>3, <2>4
<1>7. \A p \in Procs : pc'[p] \notin {"copy", "log", "rows", "receipt"}
  BY <1>1 DEF Running
<1>. QED BY <1>1, <1>4, <1>5, <1>6, <1>7, NobodyKeeps

\* Whatever is hashed into a row or a receipt has been brought in full.
LEMMA WholeStep ==
  ASSUME TypeOK, Orderly, Kept, Whole, [Next]_vars
  PROVE  Whole'
<1> SUFFICES ASSUME marks' \subseteq {"cut"}
             PROVE  /\ \A f \in Paths : recorded'[f] # Truncated
                    /\ \A q \in Packages, f \in Paths : <<f, Truncated>> \notin receipts'[q]
  BY DEF Whole
<1>0. marks \subseteq {"cut"} /\ "overlap" \notin marks
  BY MarksGrow
<1>1. /\ \A f \in Paths : recorded[f] # Truncated
      /\ \A q \in Packages, f \in Paths : <<f, Truncated>> \notin receipts[q]
  BY <1>0 DEF Whole
<1>2. /\ receipts \in [Packages -> SUBSET (Paths \X Contents)] /\ job \in [Procs -> Archives]
      /\ \A p \in Procs : Package(p) \in Packages
      /\ Truncated \notin Archives \cup {None}
      /\ Kernel \in Archives /\ Seed \in Archives
  BY Constants, ArchivesAssumption DEF TypeOK, Package
<1>3. ASSUME NEW p \in Procs, pc[p] \in Running
      PROVE  Fetching(p)
  BY <1>0, <1>3, RunKept
<1>4. ASSUME Script_Move
      PROVE  Bringing
  <2>1. stage \notin Closed /\ pc[Script] \notin Running
    BY <1>4, ScriptFacts DEF Orderly
  <2>2. \A p \in Procs : pc[p] \notin Running
    BY <1>0, <2>1, ScriptAlone
  <2>. QED BY <1>0, <2>2, NobodyKept
<1>5. \A f \in Paths : recorded'[f] # Truncated
  <2>1. ASSUME NEW p \in Procs, AppendRows(p)
        PROVE  \A f \in Paths : recorded'[f] # Truncated
    <3>1. pc[p] = "rows"
      BY <2>1 DEF AppendRows
    <3>2. \A f \in Assets(p) : disk[f] = job[p]
      BY <1>3, <3>1 DEF Fetching, Writing, Running
    <3>. QED BY <1>1, <1>2, <2>1, <3>2 DEF AppendRows
  <2>2. CASE KernelRows
    <3>1. \A f \in Files[Kernel] : disk[f] = Kernel
      BY <1>4, <2>2 DEF Script_Move, KernelRows, Bringing
    <3>. QED BY <1>2, <2>2, <3>1 DEF KernelRows
  <2>3. CASE SeedRows
    <3>1. \A f \in Files[Seed] : disk[f] = Seed
      BY <1>4, <2>3 DEF Script_Move, SeedRows, Bringing
    <3>. QED BY <1>1, <1>2, <2>3, <3>1 DEF SeedRows
  <2>4. CASE recorded' = recorded
    BY <1>1, <2>4
  <2>. QED BY RowsMoves, <2>1, <2>2, <2>3, <2>4
<1>6. ASSUME NEW q \in Packages, NEW F,
             receipts' = [receipts EXCEPT ![q] = Hashed(F)],
             \A f \in F : disk[f] \in Archives
      PROVE  \A r \in Packages, f \in Paths : <<f, Truncated>> \notin receipts'[r]
  <2>1. \A f \in Paths : <<f, Truncated>> \notin Hashed(F)
    BY <1>2, <1>6 DEF Hashed
  <2>. QED BY <1>1, <1>2, <1>6, <2>1
<1>7. \A q \in Packages, f \in Paths : <<f, Truncated>> \notin receipts'[q]
  <2>1. ASSUME NEW p \in Procs, WriteReceipt(p)
        PROVE  \A q \in Packages, f \in Paths : <<f, Truncated>> \notin receipts'[q]
    <3>1. pc[p] = "receipt" /\ receipts' = [receipts EXCEPT ![Package(p)] = Hashed(Assets(p))]
      BY <2>1 DEF WriteReceipt
    <3>2. \A f \in Assets(p) : disk[f] \in Archives
      BY <1>2, <1>3, <3>1 DEF Fetching, Running
    <3>. QED BY <1>2, <1>6, <3>1, <3>2
  <2>2. CASE KernelReceipt
    <3>1. receipts' = [receipts EXCEPT ![KernelPkg] = Hashed(Files[Kernel])]
      BY <2>2 DEF KernelReceipt
    <3>2. \A f \in Files[Kernel] : disk[f] \in Archives
      BY <1>2, <1>4, <2>2 DEF Script_Move, KernelReceipt, Bringing
    <3>. QED BY <1>6, <3>1, <3>2, Constants
  <2>3. CASE SeedReceipt
    <3>1. receipts' = [receipts EXCEPT ![SeedPkg] = Hashed(Files[Seed])]
      BY <2>3 DEF SeedReceipt
    <3>2. \A f \in Files[Seed] : disk[f] \in Archives
      BY <1>2, <1>4, <2>3 DEF Script_Move, SeedReceipt, Bringing
    <3>. QED BY <1>6, <3>1, <3>2, Constants
  <2>4. CASE receipts' = receipts
    BY <1>1, <2>4
  <2>. QED BY ReceiptMoves, <2>1, <2>2, <2>3, <2>4
<1>. QED BY <1>5, <1>7

\* Who starts a run or install.sh, unless the marks say that others were at work.
LEMMA StartFacts ==
  ASSUME TypeOK, Orderly, marks' \subseteq {"cut"}, marks \subseteq {"cut"},
         \/ \E p \in Operators, a \in Archives, o \in Options : Begin(p, a, o)
         \/ \E o \in Options : StartScript(o)
         \/ InstallNext
  PROVE  /\ \A p \in Procs : pc[p] \notin Running
         /\ stage \in Closed \cup {"loop"} /\ stage' \in Closed \cup {"seed", "loop"}
         /\ UNCHANGED tree
         /\ \/ \E q \in Procs : \E a, o : Launch(q, a, o)
            \/ \E q \in Procs : Goto(q, "idle")
<1>0. "overlap" \notin marks' /\ "overlap" \notin marks
  OBVIOUS
<1>1. ASSUME NEW p \in Operators, NEW a \in Archives, NEW o \in Options, Begin(p, a, o)
      PROVE  Quiet /\ Launch(p, a, o) /\ stage' = stage /\ UNCHANGED tree
  BY <1>0, <1>1 DEF Begin
<1>2. ASSUME NEW o \in Options, StartScript(o)
      PROVE  Quiet /\ Goto(Script, "idle") /\ stage' = "seed" /\ UNCHANGED tree
  BY <1>0, <1>2 DEF StartScript, Advance
<1>3. ASSUME InstallNext
      PROVE  /\ stage = "loop" /\ stage' = "loop" /\ UNCHANGED tree
             /\ \E a, o : Launch(Script, a, o)
             /\ \A p \in Procs : pc[p] \notin Running
  <2>1. /\ stage = "loop" /\ stage' = "loop" /\ UNCHANGED tree
        /\ \E a, o : Launch(Script, a, o)
        /\ pc[Script] \in {"idle", "done"}
    BY <1>3 DEF InstallNext
  <2>. QED BY <1>0, <2>1, StepNames, ScriptAlone DEF Running
<1>4. Quiet => stage \in Closed /\ \A p \in Procs : pc[p] \notin Running
  BY DEF Quiet, Busy
<1>5. Operators \subseteq Procs /\ Script \in Procs
  BY Constants
<1>6. CASE \E p \in Operators, a \in Archives, o \in Options : Begin(p, a, o)
  BY <1>1, <1>4, <1>5, <1>6
<1>7. CASE \E o \in Options : StartScript(o)
  BY <1>2, <1>4, <1>5, <1>7
<1>8. CASE InstallNext
  BY <1>3, <1>5, <1>8
<1>. QED BY <1>6, <1>7, <1>8

LEMMA KeptStep ==
  ASSUME TypeOK, Orderly, Filling, Genuine, Kept, Whole, [Next]_vars
  PROVE  Kept'
<1> SUFFICES ASSUME marks' \subseteq {"cut"}
             PROVE  Kept'
  BY DEF Kept
<1>0. marks \subseteq {"cut"} /\ "overlap" \notin marks
  BY MarksGrow
<1>1. ASSUME NEW p \in Procs, Move(p)
      PROVE  Kept'
  <2>1. CASE Gates(p) \/ Owners(p) \/ Backup(p) \/ Validate(p) \/ LogInstalled(p) \/ Fail(p)
    BY <1>0, <2>1, QuietStepKeeps
  <2>2. CASE \/ \E f \in Paths : TargetExists(p, f)
             \/ \E t \in BOOLEAN : Raise(p, t) \/ Crash(p, t)
    BY <1>0, <2>2, EarlyEndKeeps
  <2>3. ASSUME NEW f \in Paths, Copy(p, f)
        PROVE  Kept'
    BY <1>0, <2>3, CopyKeeps
  <2>4. CASE AppendRows(p)
    BY <1>0, <2>4, RowsKeep
  <2>5. CASE WriteReceipt(p)
    BY <1>0, <2>5, ReceiptKeeps
  <2>. QED BY <1>1, <2>1, <2>2, <2>3, <2>4, <2>5 DEF Move
<1>2. ASSUME Script_Move
      PROVE  Kept'
  <2>0. /\ stage \notin Closed /\ pc[Script] \notin Running /\ pc' = pc
    BY <1>2, ScriptFacts DEF Orderly
  <2>1. \A p \in Procs : pc[p] \notin Running
    BY <1>0, <2>0, ScriptAlone
  <2>2. CASE ExtractSeed
    BY <1>0, <2>1, <2>2, ExtractSeedKeeps
  <2>3. CASE VerifyKernel
    BY <1>0, <2>1, <2>3, VerifyKeeps
  <2>4. ASSUME NEW f \in Paths, ExtractKernel(f)
        PROVE  Kept'
    BY <1>0, <2>1, <2>4, ExtractKernelKeeps
  <2>5. CASE KernelReceipt
    BY <1>0, <2>1, <2>5, KernelReceiptKeeps
  <2>6. CASE KernelRows
    BY <1>0, <2>1, <2>6, KernelRowsKeep
  <2>7. CASE SeedRows
    BY <1>0, <2>1, <2>7, SeedRowsKeep
  <2>8. CASE SeedReceipt
    BY <1>0, <2>1, <2>8, SeedReceiptKeeps
  <2>9. ASSUME NEW t \in BOOLEAN, ScriptDies(t)
        PROVE  Kept'
    BY <1>0, <2>1, <2>9, ScriptDiesKeeps
  <2>11. ASSUME NEW f \in Paths, TarDies(f)
         PROVE  Kept'
    BY <1>0, <2>1, <2>11, TarDiesKeeps
  <2>10. CASE Resolve \/ LoopEnds \/ GateCheck
    <3>1. /\ stage \in {"resolve", "loop", "gates"}
          /\ stage' \in {"stopped", "loop", "gates", "passed", "flagged"}
          /\ UNCHANGED tree
      BY <2>10 DEF Resolve, LoopEnds, GateCheck, Advance
    <3>2. /\ torn = {}
          /\ \A f \in Paths : RowKept(f) /\ Unclaimed(f) /\ ReceiptKept(f)
      BY <1>0, <2>1, <3>1, NobodyKept DEF Replacing
    <3>3. Bringing'
      BY <3>1 DEF Bringing
    <3>4. \A p \in Procs : pc'[p] \notin {"copy", "log", "rows", "receipt"}
      BY <2>0, <2>1 DEF Running
    <3>5. torn' = {} /\ \A f \in Paths : RowKept(f)' /\ Unclaimed(f)' /\ ReceiptKept(f)'
      BY <3>1, <3>2, SameTree DEF tree
    <3>. QED BY <3>3, <3>4, <3>5, NobodyKeeps
  <2>. QED
    BY <1>2, <2>2, <2>3, <2>4, <2>5, <2>6, <2>7, <2>8, <2>9, <2>10, <2>11 DEF Script_Move
<1>3. CASE \/ \E p \in Operators, a \in Archives, o \in Options : Begin(p, a, o)
           \/ \E o \in Options : StartScript(o)
           \/ InstallNext
  BY <1>0, <1>3, StartFacts, StartKeeps
<1>4. CASE UNCHANGED vars
  <2>1. UNCHANGED <<disk, owner, recorded, receipts, torn, pc, job, todo, saved, stage, marks>>
    BY <1>4 DEF vars, tree, run
  <2>. QED BY <2>1 DEF Kept, Bringing, Fetching, PathKept, Overwriting, Rewriting, Replacing, RowKept,
          ReceiptKept, Unclaimed, Changed, Assets, Package
<1>. QED BY Cases, <1>1, <1>2, <1>3, <1>4 DEF Move, Script_Move

\* The inductive invariant behind both gates.
Undisturbed == Orderly /\ Filling /\ Genuine /\ Kept /\ Whole

LEMMA AlwaysUndisturbed == Spec => []Undisturbed
<1>1. ASSUME Init
      PROVE  Undisturbed
  <2>0. /\ \A p \in Procs : pc[p] = "idle" /\ saved[p] = {}
        /\ \A q \in Packages : receipts[q] = {}
        /\ \A f \in Paths : disk[f] = None /\ owner[f] = None /\ recorded[f] = None
        /\ stage = "off" /\ torn = {}
    BY <1>1 DEF Init
  <2>1. Looped /\ Alone /\ Granted
    BY <2>0 DEF Looped, Alone, Granted, Running, Procs
  <2>2. Filling
    BY <2>0 DEF Filling
  <2>3. Genuine
    BY <2>0, ArchivesAssumption DEF Genuine, OnDisk, InRows, InReceipts, InBackups
  <2>4. Bringing /\ \A p \in Procs : Fetching(p)
    BY <2>0 DEF Bringing, Fetching, Writing
  <2>5. \A f \in Paths : PathKept(f)
    BY <2>0 DEF PathKept, RowKept, Unclaimed, ReceiptKept
  <2>6. Whole
    BY <2>0, ArchivesAssumption DEF Whole
  <2>. QED BY <2>0, <2>1, <2>2, <2>3, <2>4, <2>5, <2>6 DEF Orderly, Kept, Undisturbed
<1>2. ASSUME TypeOK, Undisturbed, [Next]_vars
      PROVE  Undisturbed'
  BY <1>2, OrderlyStep, FillingStep, GenuineStep, KeptStep, WholeStep DEF Orderly, Undisturbed
<1>. QED BY TypeCorrect, <1>1, <1>2, PTL DEF Spec

\* However runs are cut short, with any packages, archives and dependencies: while
\* they follow each other and replace nothing they leave unfinished, every file a
\* readable receipt speaks for is there, and the gate lets the next run pass.
THEOREM GateNeverBlocks == Spec => []NeverBlocked
<1>1. ASSUME TypeOK, Undisturbed
      PROVE  NeverBlocked
  BY <1>1, KeptIsEnough DEF Undisturbed
<1>. QED BY TypeCorrect, AlwaysUndisturbed, <1>1, PTL

-----------------------------------------------------------------------------
(* Every file is accounted for                                              *)

\* Paths that a process at work has brought and not yet written a row for.
Adding(f) ==
  \/ \E p \in Procs : pc[p] \in Writing /\ f \in Assets(p) \ todo[p]
  \/ stage \in {"kernel", "extract", "rows", "seedrows"} /\ f \in Files[Seed]
  \/ stage \in {"extract", "rows"} /\ f \in Files[Kernel] \ todo[Script]
HasRow(f) == owner[f] = None => disk[f] = None
Accounted == marks = {} => \A f \in Paths : Adding(f) \/ HasRow(f)

LEMMA AccountedIsSealed ==
  ASSUME TypeOK, Kept, Accounted
  PROVE  Sealed
<1> SUFFICES ASSUME Quiet, marks = {}, NEW f \in Paths
             PROVE  IF owner[f] = None THEN disk[f] = None
                    ELSE disk[f] # None /\ recorded[f] \in {None, disk[f]}
  BY DEF Sealed, PlaneOwned
<1>1. /\ \A p \in Procs : pc[p] \notin Writing
      /\ stage \notin {"kernel", "extract", "rows", "seedrows"}
  BY RunningNames DEF Quiet, Busy, Closed
<1>2. HasRow(f)
  BY <1>1 DEF Accounted, Adding
<1>3. RowKept(f)
  BY <1>1 DEF Kept, PathKept, Overwriting, Replacing
<1>. QED BY <1>2, <1>3 DEF HasRow, RowKept

LEMMA RunAccounts ==
  ASSUME TypeOK, Orderly, Filling, Kept, Accounted, marks = {}, marks' = {}, NEW p \in Procs, Move(p)
  PROVE  Accounted'
<1>0. /\ disk \in [Paths -> Contents \cup {None}] /\ owner \in [Paths -> Packages \cup {None}]
      /\ pc \in [Procs -> Running \cup Ended] /\ todo \in [Procs -> SUBSET Paths]
      /\ Package(p) \in Packages /\ None \notin Packages
  BY ArchivesAssumption, Constants DEF TypeOK, Package
<1>1. /\ pc[p] \in Running /\ job' = job
      /\ stage \in Closed \cup {"loop"} /\ \A q \in Procs \ {p} : pc[q] \notin Running
  BY MoveFacts, AtWork
<1>2. Assets(p)' = Assets(p)
  BY <1>1 DEF Assets
<1>3. \A f \in Paths : (pc[p] \in Writing /\ f \in Assets(p) \ todo[p]) \/ HasRow(f)
  BY <1>1, RunningNames DEF Accounted, Adding, Closed
<1>4. ASSUME \A f \in Paths : (pc'[p] \in Writing /\ f \in Assets(p) \ todo'[p]) \/ HasRow(f)'
      PROVE  Accounted'
  BY <1>2, <1>4 DEF Accounted, Adding
<1>5. torn = {} /\ Fetching(p)
  BY <1>1, RunKept
<1>6. CASE Gates(p) \/ Owners(p) \/ Fail(p) \/ Backup(p)
  <2>1. pc[p] \notin Writing /\ disk' = disk /\ owner' = owner
    BY <1>6 DEF Gates, Owners, Fail, Backup, Writing, tree
  <2>. QED BY <1>3, <1>4, <2>1 DEF HasRow
<1>7. ASSUME NEW f \in Paths, Copy(p, f)
      PROVE  Accounted'
  <2>1. /\ pc[p] = "copy" /\ pc' = pc /\ f \in todo[p] /\ f \in Assets(p)
        /\ todo'[p] = todo[p] \ {f} /\ owner' = owner
        /\ \A g \in Paths \ {f} : disk'[g] = disk[g]
    BY <1>0, <1>7 DEF Copy, Filling
  <2>. QED BY <1>3, <1>4, <2>1 DEF HasRow, Writing
<1>8. CASE \/ \E f \in Paths : TargetExists(p, f)
           \/ \E t \in BOOLEAN : Raise(p, t) \/ Crash(p, t)
  <2>1. disk' = disk /\ owner' = owner /\ LeftOvers(p) \subseteq marks'
    <3>1. CASE \E f \in Paths : TargetExists(p, f)
      BY <3>1 DEF TargetExists, tree
    <3>2. CASE \E t \in BOOLEAN : Raise(p, t) \/ Crash(p, t)
      BY <3>2 DEF Raise, Crash, Tear
    <3>. QED BY <1>8, <3>1, <3>2
  <2>2. "cut" \notin LeftOvers(p)
    BY <2>1
  <2>3. pc[p] \in Writing => Assets(p) = todo[p]
    BY <2>2 DEF LeftOvers, Writing
  <2>. QED BY <1>3, <1>4, <2>1, <2>3 DEF HasRow
<1>9. CASE Validate(p) \/ LogInstalled(p)
  <2>1. pc[p] \in {"copy", "log"} /\ todo' = todo /\ owner' = owner
    BY <1>9 DEF Validate, LogInstalled, tree
  <2>2. disk' = disk /\ pc'[p] \in {"log", "rows"}
    <3>1. CASE LogInstalled(p)
      BY <1>0, <3>1 DEF LogInstalled, Goto, tree
    <3>2. CASE Validate(p)
      <4>1. pc[p] = "copy" /\ todo[p] = {}
        BY <3>2 DEF Validate
      <4>2. \A f \in Assets(p) : disk[f] = job[p]
        BY <1>5, <4>1 DEF Fetching, Writing
      <4>. QED BY <1>0, <3>2, <4>2 DEF Validate, Goto
    <3>. QED BY <1>9, <3>1, <3>2
  <2>. QED BY <1>3, <1>4, <2>1, <2>2 DEF HasRow, Writing
<1>10. CASE AppendRows(p)
  <2>1. /\ disk' = disk
        /\ \A f \in Paths : owner'[f] = IF f \in Assets(p) THEN Package(p) ELSE owner[f]
    BY <1>10 DEF AppendRows
  <2>2. \A f \in Paths : HasRow(f)'
    BY <1>0, <1>3, <2>1 DEF HasRow
  <2>. QED BY <1>4, <2>2
<1>11. CASE WriteReceipt(p)
  <2>1. pc[p] \notin Writing /\ disk' = disk /\ owner' = owner
    BY <1>11 DEF WriteReceipt, Writing
  <2>. QED BY <1>3, <1>4, <2>1 DEF HasRow
<1>. QED BY <1>6, <1>7, <1>8, <1>9, <1>10, <1>11 DEF Move

LEMMA ScriptAccounts ==
  ASSUME TypeOK, Orderly, Filling, Accounted, marks = {}, marks' = {}, Script_Move
  PROVE  Accounted'
<1>0. /\ disk \in [Paths -> Contents \cup {None}] /\ owner \in [Paths -> Packages \cup {None}]
      /\ todo \in [Procs -> SUBSET Paths] /\ Script \in Procs
      /\ Files[Seed] \subseteq Paths /\ Files[Kernel] \subseteq Paths
      /\ KernelPkg \in Packages /\ SeedPkg \in Packages /\ None \notin Packages
  BY ArchivesAssumption, Constants DEF TypeOK
<1>1. stage \notin Closed /\ pc[Script] \notin Running /\ pc' = pc
  BY ScriptFacts DEF Orderly
<1>2. \A p \in Procs : pc[p] \notin Running
  BY <1>1, ScriptAlone
<1>3. \A f \in Paths : \/ stage \in {"kernel", "extract", "rows", "seedrows"} /\ f \in Files[Seed]
                       \/ stage \in {"extract", "rows"} /\ f \in Files[Kernel] \ todo[Script]
                       \/ HasRow(f)
  BY <1>2, RunningNames DEF Accounted, Adding
<1>4. ASSUME \A f \in Paths :
                \/ stage' \in {"kernel", "extract", "rows", "seedrows"} /\ f \in Files[Seed]
                \/ stage' \in {"extract", "rows"} /\ f \in Files[Kernel] \ todo'[Script]
                \/ HasRow(f)'
      PROVE  Accounted'
  BY <1>4 DEF Accounted, Adding
<1>5. CASE ExtractSeed
  <2>1. /\ stage = "seed" /\ stage' = "kernel" /\ owner' = owner
        /\ \A f \in Paths : disk'[f] = IF f \in Files[Seed] THEN Seed ELSE disk[f]
    BY <1>5 DEF ExtractSeed, Advance
  <2>. QED BY <1>3, <1>4, <2>1 DEF HasRow
<1>6. CASE VerifyKernel
  <2>1. /\ stage = "kernel" /\ owner' = owner /\ disk' = disk
        /\ \/ stage' = "extract"
           \/ stage' = "stopped" /\ \A f \in Files[Seed] : owner[f] # None
    BY <1>6 DEF VerifyKernel, Advance, tree
  <2>. QED BY <1>3, <1>4, <2>1 DEF HasRow
<1>7. ASSUME NEW f \in Paths, ExtractKernel(f)
      PROVE  Accounted'
  <2>1. /\ stage = "extract" /\ stage' = stage /\ owner' = owner /\ f \in Files[Kernel]
        /\ \A g \in Paths \ {f} : disk'[g] = disk[g]
        /\ todo'[Script] = todo[Script] \ {f}
    BY <1>0, <1>7 DEF ExtractKernel, Filling
  <2>. QED BY <1>3, <1>4, <2>1 DEF HasRow
<1>8. CASE KernelReceipt
  <2>1. stage = "extract" /\ stage' = "rows" /\ owner' = owner /\ disk' = disk /\ todo' = todo
    BY <1>8 DEF KernelReceipt, Advance, run
  <2>. QED BY <1>3, <1>4, <2>1 DEF HasRow
<1>9. CASE KernelRows
  <2>1. "forgot" \notin marks'
    OBVIOUS
  <2>2. /\ stage = "rows" /\ stage' = "seedrows" /\ disk' = disk /\ ~ Others
        /\ \A f \in Paths : owner'[f] = IF f \in Files[Kernel] THEN KernelPkg ELSE None
    BY <1>9, <2>1 DEF KernelRows, Advance
  <2>3. ASSUME NEW f \in Paths
        PROVE  f \in Files[Seed] \/ HasRow(f)'
    <3>1. CASE f \in Files[Kernel]
      BY <1>0, <2>2, <3>1 DEF HasRow
    <3>2. CASE f \notin Files[Kernel] /\ f \notin Files[Seed]
      <4>1. owner[f] = None
        BY <2>2, <3>2 DEF Others
      <4>. QED BY <1>3, <2>2, <3>2, <4>1 DEF HasRow
    <3>. QED BY <3>1, <3>2
  <2>. QED BY <1>4, <2>2, <2>3
<1>10. CASE SeedRows
  <2>1. /\ stage = "seedrows" /\ stage' = "seedreceipt" /\ disk' = disk
        /\ \A f \in Paths : owner'[f] = IF f \in Files[Seed] THEN SeedPkg ELSE owner[f]
    BY <1>10 DEF SeedRows, Advance
  <2>. QED BY <1>0, <1>3, <1>4, <2>1 DEF HasRow
<1>11. CASE SeedReceipt \/ Resolve \/ LoopEnds \/ GateCheck
  <2>1. /\ stage \notin {"kernel", "extract", "rows", "seedrows"}
        /\ owner' = owner /\ disk' = disk
    BY <1>11 DEF SeedReceipt, Resolve, LoopEnds, GateCheck, tree
  <2>. QED BY <1>3, <1>4, <2>1 DEF HasRow
<1>12. ASSUME NEW t \in BOOLEAN, ScriptDies(t)
       PROVE  Accounted'
  <2>1. "cut" \notin marks'
    OBVIOUS
  <2>2. stage \notin {"kernel", "extract", "rows", "seedrows"}
    BY <1>12, <2>1 DEF ScriptDies
  <2>3. owner' = owner /\ disk' = disk
    BY <1>12, <2>2 DEF ScriptDies
  <2>. QED BY <1>3, <1>4, <2>2, <2>3 DEF HasRow
<1>13. ASSUME NEW f \in Paths, TarDies(f)
       PROVE  Accounted'
  <2>1. "cut" \in marks'
    BY <1>13 DEF TarDies
  <2>. QED BY <2>1
<1>. QED BY <1>5, <1>6, <1>7, <1>8, <1>9, <1>10, <1>11, <1>12, <1>13 DEF Script_Move

LEMMA AccountedStep ==
  ASSUME TypeOK, Orderly, Filling, Kept, Accounted, [Next]_vars
  PROVE  Accounted'
<1> SUFFICES ASSUME marks' = {}
             PROVE  Accounted'
  BY DEF Accounted
<1>0. marks = {}
  BY MarksGrow
<1>1. ASSUME NEW p \in Procs, Move(p)
      PROVE  Accounted'
  BY <1>0, <1>1, RunAccounts
<1>2. CASE Script_Move
  BY <1>0, <1>2, ScriptAccounts
<1>3. CASE \/ \E p \in Operators, a \in Archives, o \in Options : Begin(p, a, o)
           \/ \E o \in Options : StartScript(o)
           \/ InstallNext
  <2>1. /\ \A p \in Procs : pc[p] \notin Running
        /\ stage \in Closed \cup {"loop"}
        /\ UNCHANGED tree
    BY <1>0, <1>3, StartFacts
  <2>2. \A f \in Paths : HasRow(f)
    BY <1>0, <2>1, RunningNames DEF Accounted, Adding, Closed
  <2>. QED BY <2>1, <2>2 DEF Accounted, HasRow, tree
<1>4. CASE UNCHANGED vars
  BY <1>4 DEF vars, tree, run, Accounted, Adding, HasRow, Assets
<1>. QED BY Cases, <1>1, <1>2, <1>3, <1>4 DEF Move, Script_Move

\* While runs follow each other and none is cut short, replaced or forgotten, every
\* file on the plane has an owner, and every owned file is the one of its last row.
THEOREM PlaneStaysSealed == Spec => []Sealed
<1>1. ASSUME Init
      PROVE  Accounted
  <2>1. \A f \in Paths : disk[f] = None
    BY <1>1 DEF Init
  <2>. QED BY <2>1 DEF Accounted, HasRow
<1>2. ASSUME TypeOK, Undisturbed, Accounted, [Next]_vars
      PROVE  Accounted'
  BY <1>2, AccountedStep DEF Undisturbed
<1>3. ASSUME TypeOK, Undisturbed, Accounted
      PROVE  Sealed
  BY <1>3, AccountedIsSealed DEF Undisturbed
<1>. QED BY TypeCorrect, AlwaysUndisturbed, <1>1, <1>2, <1>3, PTL DEF Spec
=============================================================================
