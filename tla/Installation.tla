---------------------------- MODULE Installation ----------------------------
(***************************************************************************)
(* How packages get onto a plane: install.sh bootstraps genesis and kernel  *)
(* (genesis_bootstrap.py) and then runs package_install.py for every other  *)
(* package; operators run package_install.py by hand at the same time.      *)
(* Nothing locks the plane.  The tree, the ownership registry, the receipts *)
(* and the manifests beside them are files that outlive every process, so   *)
(* a run that is killed leaves what it has written.                         *)
(*                                                                          *)
(* The content of a file is the archive it came from, which stands for its  *)
(* hash, or Truncated when tar was cut short in the middle of it.  An       *)
(* archive is a package at a version: an upgrade is a second archive of the *)
(* same package.                                                            *)
(***************************************************************************)
EXTENDS Naturals, Sequences, FiniteSets

CONSTANTS
    Archives,       \* the package archives there are
    Packages,       \* the packages they are archives of
    PackageOf,      \* [Archives -> Packages]
    Files,          \* [Archives -> SUBSET Paths], the assets of the manifest
    Deps,           \* [Archives -> SUBSET Packages], the declared dependencies
    Layer,          \* [Archives -> Nat], from bootstrap_sequence.json
    Sound,          \* archives whose files are the ones their manifest declares
    Signed,         \* archives with a signature and an attestation
    Paths,          \* files under the governed roots
    Registry,       \* the path of the registries of specs and frameworks
    Chained,        \* [Archives -> SUBSET Archives]: which archives have their spec
                    \* and framework in the registries that this archive ships
    Framework,      \* the path of the framework's manifest.yaml
    Expects,        \* [Archives -> SUBSET Paths]: spec packs that manifest expects
    Seed, Kernel,   \* PKG-GENESIS-000 and PKG-KERNEL-001
    Bundle,         \* the other archives in the packages directory of install.sh
    Operators,      \* processes that run package_install.py by hand
    Script,         \* the process of install.sh
    Options,        \* sets of command line flags, of "force", "dry" and "dev"
    None, Truncated,
    MaxRuns,        \* bound on the runs that are started
    MaxFaults       \* bound on crashes and on calls that raise

ASSUME ArchivesAssumption ==
    /\ IsFiniteSet(Archives)
    /\ PackageOf \in [Archives -> Packages]
    /\ Files \in [Archives -> SUBSET Paths]
    /\ Deps \in [Archives -> SUBSET Packages]
    /\ Chained \in [Archives -> SUBSET Archives]
    /\ Expects \in [Archives -> SUBSET Paths]
    /\ {Seed, Kernel} \subseteq Archives
    /\ Bundle \subseteq Archives \ {Seed, Kernel}
    /\ Script \notin Operators
    /\ None \notin Packages \cup Archives
    /\ Truncated \notin Archives \cup {None}
    /\ Registry \in Paths /\ Framework \in Paths
    /\ Options \subseteq SUBSET {"force", "dry", "dev"}
    /\ MaxRuns \in Nat /\ MaxFaults \in Nat

\* No other archive ships a file of the genesis package.
ASSUME SeedAssumption ==
    \A a \in Archives \ {Seed} : Files[a] \cap Files[Seed] = {}

Contents == Archives \cup {Truncated}

VARIABLES
    disk,       \* path -> its content, or None
    owner,      \* path -> package of the last row of file_ownership.csv, or None
    recorded,   \* path -> content hashed into that row
    receipts,   \* package -> files of its receipt.json, as <<path, content>>
    torn,       \* packages whose receipt.json is not readable
    manifest,   \* package -> archive whose manifest.json lies beside the receipt
    pc, job, opts, todo, taken, saved,      \* of each run of package_install.py
    ends,       \* how each run ended, according to the L-PACKAGE ledger
    stage, queue,                           \* of install.sh
    runs, faults,
    marks       \* what has happened so far that a later run may stumble over

tree == <<disk, owner, recorded, receipts, torn, manifest>>
run == <<pc, job, opts, todo, taken, saved, ends>>
vars == <<tree, run, stage, queue, runs, faults, marks>>

Procs == Operators \cup {Script}
Running == {"gates", "owners", "backup", "copy", "log", "rows", "receipt", "fail"}
Ended == {"idle", "done", "refused", "killed"}
Bootstrap == {"seed", "kernel", "extract", "receipt", "rows", "seedrows",
              "seedreceipt", "resolve", "loop", "gates"}
Closed == {"off", "passed", "flagged", "stopped", "dead"}
Marks == {"cut", "overwrite", "torn", "overlap", "forgot"}

Package(p) == PackageOf[job[p]]
Assets(p) == Files[job[p]]
Busy == \E p \in Procs : pc[p] \in Running
Quiet == ~Busy /\ stage \in Closed

-----------------------------------------------------------------------------
\* The checks, all of them reads of the tree.

\* G0B of the installer: the files of every readable receipt are there and
\* unchanged, except those whose last row names another owner.
Entry_AnyOwner(q, e) == disk[e[1]] = e[2]   \* Bug: the transfer is not looked up.
Entry(q, e) == owner[e[1]] \notin {None, q} \/ disk[e[1]] = e[2]
Intact ==
    /\ torn = {}
    /\ \A q \in Packages : \A e \in receipts[q] : Entry(q, e)

\* G1: the spec of the package and its framework are in the registries; one that
\* was cut short is taken for one without rows.
Registered == IF disk[Registry] \in Archives THEN Chained[disk[Registry]] ELSE {}
InChain(a) == a \in Registered

\* G1-COMPLETE: every spec pack the framework's manifest expects is there.
Wired == disk[Framework] \notin Archives \/ \A s \in Expects[disk[Framework]] : disk[s] # None

\* G0A: the files of the archive are those its manifest declares, with their hashes.
Declared(a) == a \in Sound

\* G5 and the attestation, both waived in dev mode.
Authentic(a, o) == a \in Signed \/ "dev" \in o

GatesOpen(a, o) == Intact /\ Declared(a) /\ InChain(a) /\ Wired /\ Authentic(a, o)

\* G0B of gate_check.py: every file of the plane has an owner, and every file
\* with an owner is the one its last row recorded.
PlaneOwned ==
    \A f \in Paths :
        IF owner[f] = None THEN disk[f] = None
        ELSE disk[f] # None /\ recorded[f] \in {None, disk[f]}

\* gate_check.py --all: the gates about work orders, constraints, acceptance,
\* signatures and ledgers pass when they are given nothing to check.
Installed == {q \in Packages : manifest[q] # None}
AllGates ==
    /\ PlaneOwned
    /\ \A q \in Installed : InChain(manifest[q])
    /\ Installed # {} => Wired

\* OwnershipValidator: an owner who is not a declared dependency is a conflict.
Owned == {f \in Paths : owner[f] # None}
Foreign(a) == {f \in Files[a] \cap Owned : owner[f] # PackageOf[a]}
Conflicts_Unasked(a) == {}     \* Bug: any owner is taken over from.
Conflicts(a) == {f \in Foreign(a) : owner[f] \notin Deps[a]}

-----------------------------------------------------------------------------
Init ==
    /\ disk = [f \in Paths |-> None]
    /\ owner = [f \in Paths |-> None]
    /\ recorded = [f \in Paths |-> None]
    /\ receipts = [q \in Packages |-> {}]
    /\ torn = {}
    /\ manifest = [q \in Packages |-> None]
    /\ pc = [p \in Procs |-> "idle"]
    /\ job = [p \in Procs |-> Kernel]
    /\ opts = [p \in Procs |-> {}]
    /\ todo = [p \in Procs |-> {}]
    /\ taken = [p \in Procs |-> {}]
    /\ saved = [p \in Procs |-> {}]
    /\ ends = [p \in Procs |-> {}]
    /\ stage = "off"
    /\ queue = <<>>
    /\ runs = 0
    /\ faults = 0
    /\ marks = {}

\* What a run that ends here leaves behind: files that no row speaks for yet, and
\* files that are not the ones a row or the package's last receipt speaks for.
Changed(p) == {f \in Assets(p) \ todo[p] : \E c \in Contents \ {job[p]} : <<f, c>> \in saved[p]}
Outdated(p) == \E f \in Assets(p), c \in Contents \ {job[p]} : <<f, c>> \in receipts[Package(p)]
LeftOvers(p) ==
    (IF pc[p] \in {"copy", "log", "rows"} /\ Assets(p) # todo[p]
     THEN {"cut"} ELSE {})
    \cup
    (IF \/ pc[p] \in {"copy", "log", "rows"} /\ Changed(p) # {}
        \/ pc[p] = "receipt" /\ Outdated(p)
     THEN {"overwrite"} ELSE {})

Goto(p, where) == pc' = [pc EXCEPT ![p] = where]

\* main() and the start of install_package(): INSTALL_STARTED is written before
\* anything is looked at.
Launch(p, a, o) ==
    /\ Goto(p, "gates")
    /\ job' = [job EXCEPT ![p] = a]
    /\ opts' = [opts EXCEPT ![p] = o]
    /\ todo' = [todo EXCEPT ![p] = {}]
    /\ taken' = [taken EXCEPT ![p] = {}]
    /\ saved' = [saved EXCEPT ![p] = {}]
    /\ ends' = [ends EXCEPT ![p] = {}]

\* An operator starts the installer, once the kernel has put it on the disk.
Begin(p, a, o) ==
    /\ pc[p] \in Ended
    /\ runs < MaxRuns
    /\ \A f \in Files[Kernel] : disk[f] # None
    /\ Launch(p, a, o)
    /\ runs' = runs + 1
    /\ marks' = IF Quiet THEN marks ELSE marks \cup {"overlap"}
    /\ UNCHANGED <<tree, stage, queue, faults>>

\* Steps 3 to 9: the workspace, then the gates in their order.
Gates(p) ==
    /\ pc[p] = "gates"
    /\ Goto(p, IF GatesOpen(job[p], opts[p]) THEN "owners" ELSE "fail")
    /\ UNCHANGED <<tree, job, opts, todo, taken, saved, ends, stage, queue, runs, faults, marks>>

\* Steps 10 and 11: the ownership registry is read once; a dry run returns here
\* and leaves its INSTALL_STARTED without an end.
Owners(p) ==
    /\ pc[p] = "owners"
    /\ IF Conflicts(job[p]) # {} THEN Goto(p, "fail") /\ UNCHANGED taken
       ELSE /\ Goto(p, IF "dry" \in opts[p] THEN "done" ELSE "backup")
            /\ taken' = [taken EXCEPT ![p] = Foreign(job[p])]
    /\ UNCHANGED <<tree, job, opts, todo, saved, ends, stage, queue, runs, faults, marks>>

\* Bug: the ledger is told before the files are there.
Backup_LogsFirst(p) ==
    /\ pc[p] = "backup"
    /\ saved' = [saved EXCEPT ![p] = {e \in Assets(p) \X Contents : disk[e[1]] = e[2]}]
    /\ todo' = [todo EXCEPT ![p] = Assets(p)]
    /\ ends' = [ends EXCEPT ![p] = @ \cup {"INSTALLED"}]
    /\ Goto(p, "copy")
    /\ UNCHANGED <<tree, job, opts, taken, stage, queue, runs, faults, marks>>

\* Step 12: what is about to be overwritten goes to a temporary directory.
Backup(p) ==
    /\ pc[p] = "backup"
    /\ saved' = [saved EXCEPT ![p] = {e \in Assets(p) \X Contents : disk[e[1]] = e[2]}]
    /\ todo' = [todo EXCEPT ![p] = Assets(p)]
    /\ Goto(p, "copy")
    /\ UNCHANGED <<tree, job, opts, taken, ends, stage, queue, runs, faults, marks>>

\* Step 13, one file: renamed into place unless there is one already that neither
\* --force nor a transfer of ownership allows to replace.
Copy(p, f) ==
    /\ pc[p] = "copy" /\ f \in todo[p]
    /\ disk[f] = None \/ "force" \in opts[p] \/ f \in taken[p]
    /\ disk' = [disk EXCEPT ![f] = job[p]]
    /\ todo' = [todo EXCEPT ![p] = @ \ {f}]
    /\ UNCHANGED <<owner, recorded, receipts, torn, manifest, pc, job, opts, taken, saved, ends,
                   stage, queue, runs, faults, marks>>

\* "Target exists": the files copied before this one stay where they are.
TargetExists(p, f) ==
    /\ pc[p] = "copy" /\ f \in todo[p]
    /\ disk[f] # None /\ "force" \notin opts[p] /\ f \notin taken[p]
    /\ Goto(p, "fail")
    /\ marks' = marks \cup LeftOvers(p)
    /\ UNCHANGED <<tree, job, opts, todo, taken, saved, ends, stage, queue, runs, faults>>

\* What a rollback leaves on the disk: the old content of what was overwritten, and
\* the files that were new.
Restored(p) ==
    [f \in Paths |-> IF \E c \in Contents : <<f, c>> \in saved[p]
                    THEN CHOOSE c \in Contents : <<f, c>> \in saved[p]
                    ELSE disk[f]]

\* Step 14: the copies are hashed again.  If one is not what was copied, the
\* run rolls back.
Validate(p) ==
    /\ pc[p] = "copy" /\ todo[p] = {}
    /\ IF \A f \in Assets(p) : disk[f] = job[p]
       THEN Goto(p, "log") /\ UNCHANGED <<disk, marks>>
       ELSE /\ Goto(p, "fail")
            /\ disk' = Restored(p)
            /\ marks' = marks \cup LeftOvers(p)
    /\ UNCHANGED <<owner, recorded, receipts, torn, manifest, job, opts, todo, taken, saved, ends,
                   stage, queue, runs, faults>>

\* Step 15: the ledger first.
LogInstalled(p) ==
    /\ pc[p] = "log"
    /\ ends' = [ends EXCEPT ![p] = @ \cup {"INSTALLED"}]
    /\ Goto(p, "rows")
    /\ UNCHANGED <<tree, job, opts, todo, taken, saved, stage, queue, runs, faults, marks>>

\* Bug: a file that has a row already gets none.
AppendRows_NewOnly(p) ==
    /\ pc[p] = "rows"
    /\ owner' = [f \in Paths |-> IF f \in Assets(p) THEN Package(p) ELSE owner[f]]
    /\ recorded' = [f \in Paths |->
                       IF f \in Assets(p) /\ owner[f] = None THEN disk[f] ELSE recorded[f]]
    /\ Goto(p, "receipt")
    /\ UNCHANGED <<disk, receipts, torn, manifest, job, opts, todo, taken, saved, ends,
                   stage, queue, runs, faults, marks>>

\* Step 16: one row for every file; the rows that say the old owner is superseded
\* are written before them, and the last row of a path is the one that counts.
AppendRows(p) ==
    /\ pc[p] = "rows"
    /\ owner' = [f \in Paths |-> IF f \in Assets(p) THEN Package(p) ELSE owner[f]]
    /\ recorded' = [f \in Paths |-> IF f \in Assets(p) THEN disk[f] ELSE recorded[f]]
    /\ Goto(p, "receipt")
    /\ UNCHANGED <<disk, receipts, torn, manifest, job, opts, todo, taken, saved, ends,
                   stage, queue, runs, faults, marks>>

Hashed(F) == {e \in F \X Contents : disk[e[1]] = e[2]}

\* Bug: the manifest of the package, whatever its version, is kept beside the receipt.
WriteReceipt_AnyVersion(p) ==
    /\ pc[p] = "receipt"
    /\ receipts' = [receipts EXCEPT ![Package(p)] = Hashed(Assets(p))]
    /\ torn' = torn \ {Package(p)}
    /\ manifest' = [manifest EXCEPT ![Package(p)] = Package(p)]
    /\ Goto(p, "done")
    /\ UNCHANGED <<disk, owner, recorded, job, opts, todo, taken, saved, ends,
                   stage, queue, runs, faults, marks>>

\* Step 17: receipt and manifest, in place of those of an earlier version.
WriteReceipt(p) ==
    /\ pc[p] = "receipt"
    /\ receipts' = [receipts EXCEPT ![Package(p)] = Hashed(Assets(p))]
    /\ torn' = torn \ {Package(p)}
    /\ manifest' = [manifest EXCEPT ![Package(p)] = job[p]]
    /\ Goto(p, "done")
    /\ UNCHANGED <<disk, owner, recorded, job, opts, todo, taken, saved, ends,
                   stage, queue, runs, faults, marks>>

\* The except clauses: INSTALL_FAILED, whatever the ledger says already.
Fail(p) ==
    /\ pc[p] = "fail"
    /\ ends' = [ends EXCEPT ![p] = @ \cup {"INSTALL_FAILED"}]
    /\ Goto(p, "refused")
    /\ UNCHANGED <<tree, job, opts, todo, taken, saved, stage, queue, runs, faults, marks>>

\* A receipt whose writing is interrupted may be neither the old nor the new one.
Tear(p, t) ==
    /\ t => pc[p] = "receipt"
    /\ torn' = IF t THEN torn \cup {Package(p)} ELSE torn
    /\ marks' = marks \cup LeftOvers(p) \cup (IF t THEN {"torn"} ELSE {})

\* A call raises: the run goes to its except clause.  When the entry about the
\* failure is what cannot be written, the run just ends.
Raise(p, t) ==
    /\ pc[p] \in Running
    /\ faults < MaxFaults
    /\ faults' = faults + 1
    /\ Goto(p, IF pc[p] = "fail" THEN "refused" ELSE "fail")
    /\ Tear(p, t)
    /\ UNCHANGED <<disk, owner, recorded, receipts, manifest, job, opts, todo, taken, saved, ends,
                   stage, queue, runs>>

\* The process is killed, and install.sh with it.
Crash(p, t) ==
    /\ pc[p] \in Running
    /\ faults < MaxFaults
    /\ faults' = faults + 1
    /\ Goto(p, "killed")
    /\ stage' = IF p = Script THEN "dead" ELSE stage
    /\ Tear(p, t)
    /\ UNCHANGED <<disk, owner, recorded, receipts, manifest, job, opts, todo, taken, saved, ends,
                   queue, runs>>

-----------------------------------------------------------------------------
\* install.sh.  Its runs of package_install.py are those of process Script.

KernelPkg == PackageOf[Kernel]
SeedPkg == PackageOf[Seed]
InBundle == {PackageOf[a] : a \in Bundle}

\* The layers of bootstrap_sequence.json
NotAbove(a, b) == Layer[a] <= Layer[b]

\* resolve_install_order.py: by layer and, within a layer, behind every dependency
\* that is in the bundle.  Names decide between orders, so any of them will do.
Orders ==
    {q \in [1..Cardinality(Bundle) -> Bundle] :
        /\ \A i, j \in DOMAIN q : i < j => q[i] # q[j] /\ NotAbove(q[i], q[j])
        /\ \A j \in DOMAIN q : \A d \in Deps[q[j]] \cap InBundle :
              \E i \in 1..(j - 1) : PackageOf[q[i]] = d}

Advance(where) == stage' = where

StartScript(o) ==
    /\ stage \in Closed
    /\ runs < MaxRuns
    /\ "dry" \notin o
    /\ Advance("seed")
    /\ opts' = [opts EXCEPT ![Script] = o]
    /\ Goto(Script, "idle")
    /\ runs' = runs + 1
    /\ marks' = IF Quiet THEN marks ELSE marks \cup {"overlap"}
    /\ UNCHANGED <<tree, job, todo, taken, saved, ends, queue, faults>>

\* Step 1: tar extracts the genesis package over whatever there is.
ExtractSeed ==
    /\ stage = "seed"
    /\ disk' = [f \in Paths |-> IF f \in Files[Seed] THEN Seed ELSE disk[f]]
    /\ Advance("kernel")
    /\ UNCHANGED <<owner, recorded, receipts, torn, manifest, run, queue, runs, faults, marks>>

\* genesis_bootstrap.py: the digest of the kernel's archive and, all at once before
\* anything is extracted, whether a file is in the way; --force overrides both.
Listed == Declared(Kernel)     \* its digest is the one in seed_registry.json
InTheWay == {f \in Files[Kernel] : disk[f] # None}
MayExtract == "force" \in opts[Script] \/ (Listed /\ InTheWay = {})

VerifyKernel ==
    /\ stage = "kernel"
    /\ IF MayExtract
       THEN /\ Advance("extract")
            /\ todo' = [todo EXCEPT ![Script] = Files[Kernel]]
            /\ UNCHANGED marks
       ELSE /\ Advance("stopped")
            /\ marks' = IF \E f \in Files[Seed] : owner[f] = None
                        THEN marks \cup {"cut"} ELSE marks
            /\ UNCHANGED todo
    /\ UNCHANGED <<tree, pc, job, opts, taken, saved, ends, queue, runs, faults>>

ExtractKernel(f) ==
    /\ stage = "extract" /\ f \in todo[Script]
    /\ disk' = [disk EXCEPT ![f] = Kernel]
    /\ todo' = [todo EXCEPT ![Script] = @ \ {f}]
    /\ UNCHANGED <<owner, recorded, receipts, torn, manifest, pc, job, opts, taken, saved, ends,
                   stage, queue, runs, faults, marks>>

KernelReceipt ==
    /\ stage = "extract" /\ todo[Script] = {}
    /\ receipts' = [receipts EXCEPT ![KernelPkg] = Hashed(Files[Kernel])]
    /\ torn' = torn \ {KernelPkg}
    /\ Advance("rows")
    /\ UNCHANGED <<disk, owner, recorded, manifest, run, queue, runs, faults, marks>>

\* The registry is opened for writing, not for appending: whatever rows there were
\* are gone, and with them who took over what from whom.
Others == \E f \in Paths \ (Files[Kernel] \cup Files[Seed]) : owner[f] # None
KernelRows ==
    /\ stage = "rows"
    /\ owner' = [f \in Paths |-> IF f \in Files[Kernel] THEN KernelPkg ELSE None]
    /\ recorded' = [f \in Paths |-> IF f \in Files[Kernel] THEN disk[f] ELSE None]
    /\ marks' = IF Others THEN marks \cup {"forgot"} ELSE marks
    /\ Advance("seedrows")
    /\ UNCHANGED <<disk, receipts, torn, manifest, run, queue, runs, faults>>

SeedRows ==
    /\ stage = "seedrows"
    /\ owner' = [f \in Paths |-> IF f \in Files[Seed] THEN SeedPkg ELSE owner[f]]
    /\ recorded' = [f \in Paths |-> IF f \in Files[Seed] THEN disk[f] ELSE recorded[f]]
    /\ Advance("seedreceipt")
    /\ UNCHANGED <<disk, receipts, torn, manifest, run, queue, runs, faults, marks>>

SeedReceipt ==
    /\ stage = "seedreceipt"
    /\ receipts' = [receipts EXCEPT ![SeedPkg] = Hashed(Files[Seed])]
    /\ torn' = torn \ {SeedPkg}
    /\ Advance("resolve")
    /\ UNCHANGED <<disk, owner, recorded, manifest, run, queue, runs, faults, marks>>

Resolve ==
    /\ stage = "resolve"
    /\ IF Orders = {} THEN Advance("stopped") /\ UNCHANGED queue
       ELSE Advance("loop") /\ queue' \in Orders
    /\ UNCHANGED <<tree, run, runs, faults, marks>>

\* The loop over the packages; set -e ends it with the first one that is refused.
InstallNext ==
    /\ stage = "loop" /\ pc[Script] \in {"idle", "done"} /\ queue # <<>>
    /\ Launch(Script, Head(queue), opts[Script])
    /\ queue' = Tail(queue)
    /\ UNCHANGED <<tree, stage, runs, faults, marks>>

LoopEnds ==
    /\ stage = "loop"
    /\ \/ pc[Script] = "refused" /\ Advance("stopped")
       \/ pc[Script] \in {"idle", "done"} /\ queue = <<>> /\ Advance("gates")
    /\ UNCHANGED <<tree, run, queue, runs, faults, marks>>

GateCheck ==
    /\ stage = "gates"
    /\ Advance(IF AllGates THEN "passed" ELSE "flagged")
    /\ UNCHANGED <<tree, run, queue, runs, faults, marks>>

\* install.sh or genesis_bootstrap.py is killed, or one of its calls raises.  It
\* may have opened the registry for writing, or a receipt.
Replaced == \E f \in Files[Kernel] \ todo[Script] : owner[f] # None /\ recorded[f] # Kernel
Handed == \E f \in Files[Kernel], q \in Packages \ {KernelPkg}, c \in Contents : <<f, c>> \in receipts[q]
ScriptDies(t) ==
    /\ stage \in Bootstrap /\ pc[Script] \notin Running
    /\ faults < MaxFaults
    /\ t => stage \in {"extract", "rows", "seedreceipt"}
    /\ t /\ stage = "extract" => todo[Script] = {}
    /\ owner' = IF t /\ stage = "rows" THEN [f \in Paths |-> None] ELSE owner
    /\ torn' = CASE t /\ stage = "extract" -> torn \cup {KernelPkg}
                 [] t /\ stage = "seedreceipt" -> torn \cup {SeedPkg}
                 [] OTHER -> torn
    /\ marks' = marks
         \cup (IF stage \in {"kernel", "extract", "rows", "seedrows"} THEN {"cut"} ELSE {})
         \cup (IF stage \in {"extract", "rows"} /\ Replaced THEN {"overwrite"} ELSE {})
         \cup (IF t /\ stage = "rows" /\ (Others \/ Handed) THEN {"forgot"} ELSE {})
         \cup (IF t /\ stage # "rows" THEN {"torn"} ELSE {})
    /\ faults' = faults + 1
    /\ Advance("dead")
    /\ UNCHANGED <<disk, recorded, receipts, manifest, run, queue, runs>>

\* It is killed, or raises, while tar writes a file in place: the genesis package in
\* step 1, or one of the kernel's files.
Unpacking == IF stage = "seed" THEN Files[Seed] ELSE IF stage = "extract" THEN todo[Script] ELSE {}
TarDies(f) ==
    /\ f \in Unpacking
    /\ faults < MaxFaults
    /\ \E F \in SUBSET (IF stage = "seed" THEN Files[Seed] ELSE {}) :
          disk' = [g \in Paths |-> IF g = f THEN Truncated ELSE IF g \in F THEN Seed ELSE disk[g]]
    /\ marks' = marks \cup {"cut"}
         \cup (IF disk[f] # None \/ (stage = "extract" /\ Replaced) THEN {"overwrite"} ELSE {})
    /\ faults' = faults + 1
    /\ Advance("dead")
    /\ UNCHANGED <<owner, recorded, receipts, torn, manifest, run, queue, runs>>

-----------------------------------------------------------------------------
Install(p) ==
    \/ Gates(p) \/ Owners(p) \/ Backup(p)
    \/ \E f \in Paths : Copy(p, f) \/ TargetExists(p, f)
    \/ Validate(p) \/ LogInstalled(p) \/ AppendRows(p) \/ WriteReceipt(p) \/ Fail(p)
    \/ \E t \in BOOLEAN : Raise(p, t) \/ Crash(p, t)

Bootstrapping ==
    \/ \E o \in Options : StartScript(o)
    \/ ExtractSeed \/ VerifyKernel \/ (\E f \in Paths : ExtractKernel(f)) \/ KernelReceipt
    \/ KernelRows \/ SeedRows \/ SeedReceipt \/ Resolve \/ InstallNext \/ LoopEnds \/ GateCheck
    \/ (\E t \in BOOLEAN : ScriptDies(t)) \/ (\E f \in Paths : TarDies(f))

Next ==
    \/ \E p \in Operators, a \in Archives, o \in Options : Begin(p, a, o)
    \/ \E p \in Procs : Install(p)
    \/ Bootstrapping

Spec == Init /\ [][Next]_vars

-----------------------------------------------------------------------------
\* Types: the disk and the receipts hold what archives ship or a part of it, owners
\* are packages.
TypeOK ==
    /\ disk \in [Paths -> Contents \cup {None}]
    /\ owner \in [Paths -> Packages \cup {None}]
    /\ recorded \in [Paths -> Contents \cup {None}]
    /\ receipts \in [Packages -> SUBSET (Paths \X Contents)]
    /\ torn \subseteq Packages
    /\ manifest \in [Packages -> Archives \cup {None}]
    /\ pc \in [Procs -> Running \cup Ended]
    /\ job \in [Procs -> Archives]
    /\ opts \in [Procs -> Options \cup {{}}]
    /\ todo \in [Procs -> SUBSET Paths]
    /\ taken \in [Procs -> SUBSET Paths]
    /\ saved \in [Procs -> SUBSET (Paths \X Contents)]
    /\ ends \in [Procs -> SUBSET {"INSTALLED", "INSTALL_FAILED"}]
    /\ stage \in Bootstrap \cup Closed
    /\ queue \in Seq(Bundle)
    /\ runs \in 0..MaxRuns /\ faults \in 0..MaxFaults
    /\ marks \subseteq Marks

\* A run that was cut short anywhere while it only added files never makes the
\* installer's integrity gate refuse the runs after it.
NeverBlocked == Quiet /\ marks \subseteq {"cut"} => Intact

\* As long as runs follow each other and finish what they began to copy, nothing
\* on the plane is without an owner, missing or different from its row.
Sealed == Quiet /\ marks = {} => PlaneOwned

\* A run that returns has written the one entry that says how it ended, and a dry
\* run none; both entries take a call that raises after INSTALLED.
OneEnd ==
    \A p \in Procs :
        /\ pc[p] = "done" => ends[p] = IF "dry" \in opts[p] THEN {} ELSE {"INSTALLED"}
        /\ pc[p] = "refused" /\ faults = 0 => ends[p] = {"INSTALL_FAILED"}

\* A run that writes its rows declares the owner of f as a dependency.
Inherited(f) == \E p \in Procs : pc[p] = "rows" /\ owner[f] \in Deps[job[p]]

\* No last write wins: while runs follow each other a file changes hands only to a
\* package that declares its owner as a dependency, or by a new bootstrap.
HandedOver ==
    [][\A f \in Paths :
         owner[f] # None /\ owner'[f] # owner[f] =>
            "overlap" \in marks \/ Inherited(f) \/ stage \in {"rows", "seedrows"}]_vars

\* Running install.sh again with --force works: when nothing went wrong and nobody
\* else installed anything, it is not stopped halfway.
ReinstallWorks ==
    stage = "stopped" /\ {"force", "dev"} \subseteq opts[Script] /\ marks \subseteq {"forgot"}
        => faults > 0
=============================================================================
