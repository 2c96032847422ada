------------------------- MODULE InstallerMigrations -------------------------
(***************************************************************************)
(* The installer's migrations of a configuration directory                 *)
(* (installer-migrations.cjs): a lock file that names its owner's pid, a   *)
(* plan made from the manifest and the files found, the changes with a     *)
(* copy put aside before each, the record of what was applied, and two     *)
(* ways back: at once when a step fails, or later when the rest of the     *)
(* installation does.                                                      *)
(*                                                                         *)
(* A file is the set of its parts: what was shipped in it, a registered    *)
(* hook, and what the user wrote, early or late; it is absent when empty.  *)
(* Three of the migrations are here: the first-time baseline, the hooks    *)
(* of hooks.json and the files of the renamed directory.                   *)
(***************************************************************************)
EXTENDS Integers, Sequences, FiniteSets, SequencesExt

CONSTANTS
    Installers,
    Edited,         \* bound: the files the user may edit
    MaxRuns,        \* bound: runs of the installer
    MaxMishaps      \* bound: crashes and file operations that fail

InstallerConstants == Edited \subseteq {"old", "mine", "hooks"} /\ MaxRuns \in Nat /\ MaxMishaps \in Nat

Paths == {"old", "mine", "hooks", "odd"}    \* a managed file, a user's file beside it, hooks.json,
Managed == {"old"}                          \* and one that only looks like ours
Parts == {"shipped", "hook", "user", "late"}
UserParts == {"user", "late"}
Ids == {"baseline", "hooks", "rename"}
Unlocked == [by |-> -1, pid |-> FALSE]

VARIABLES
    config,     \* the files of the directory
    applied,    \* gsd-install-state.json: the migrations recorded as applied
    copies,     \* <<run, kind, path, parts>>: rollback copies and backups
    journals,   \* the runs that have a journal
    installLock,
    migrator,   \* what each installer is doing
    runs, trouble,
    wrote,      \* history: what the user wrote in each file
    flaws       \* history: what went wrong so far, of Flaws
installVars == <<config, applied, copies, journals, installLock, migrator, runs, trouble, wrote, flaws>>

Away == [pc |-> "idle", run |-> 0, plan |-> <<>>, ids |-> {}, undo |-> <<>>, prev |-> {},
         broken |-> FALSE, done |-> FALSE, locked |-> TRUE]

Init ==
    /\ config \in [Paths -> SUBSET {"shipped", "hook", "user"}]
    /\ config["old"] \in {{"shipped"}, {"shipped", "user"}}
    /\ config["mine"] = {"user"} /\ config["odd"] \in {{}, {"user"}}
    /\ config["hooks"] \in {{"hook"}, {"hook", "user"}}
    /\ applied = {} /\ copies = {} /\ journals = {}
    /\ installLock \in {Unlocked, [by |-> 0, pid |-> TRUE]}     \* left by a killed installer
    /\ migrator = [p \in Installers |-> Away]
    /\ runs = 0 /\ trouble = 0
    /\ wrote = [f \in Paths |-> config[f] \cap UserParts]
    /\ flaws = {}

Put(p, m) == migrator' = [migrator EXCEPT ![p] = m]
Goes(p, pc) == Put(p, [migrator[p] EXCEPT !.pc = pc])
Fault == trouble < MaxMishaps /\ trouble' = trouble + 1
Locking == {"lock", "reclaim", "created"}
Holding(p) == migrator[p].pc \in {"plan", "mark", "start", "act", "change", "restore", "unlock"}
Others(p) == \E q \in Installers \ {p} : Holding(q)
\* Another run has not come to its end, with its own way back.
Overlap(p) == IF \E q \in Installers \ {p} : migrator[q].pc \notin Locking \cup {"idle"}
              THEN {"overlap"} ELSE {}
Alive(run) == \E p \in Installers : migrator[p].run = run /\ migrator[p].pc # "idle"

-----------------------------------------------------------------------------
(* acquireInstallMigrationLock. *)

Begin(p) ==
    /\ migrator[p].pc = "idle" /\ runs < MaxRuns
    /\ runs' = runs + 1
    /\ Put(p, [Away EXCEPT !.pc = "lock", !.run = runs + 1])
    /\ UNCHANGED <<config, applied, copies, journals, installLock, trouble, wrote, flaws>>

Create(p) ==
    /\ migrator[p].pc = "lock" /\ installLock = Unlocked
    /\ installLock' = [by |-> migrator[p].run, pid |-> FALSE]
    /\ Goes(p, "created")
    /\ UNCHANGED <<config, applied, copies, journals, runs, trouble, wrote, flaws>>

\* The pid goes to whatever file has the name by now, or to a new one.
WritePid(p) ==
    /\ migrator[p].pc = "created"
    /\ \/ /\ installLock' = [by |-> migrator[p].run, pid |-> TRUE]
          /\ Goes(p, "plan") /\ UNCHANGED trouble
       \/ /\ Fault
          /\ installLock' = Unlocked /\ Put(p, Away)
    /\ flaws' = flaws \cup (IF Others(p) THEN {"stolen"} ELSE {})
    /\ UNCHANGED <<config, applied, copies, journals, runs, wrote>>

FindsDead(p) ==
    /\ migrator[p].pc = "lock" /\ installLock.pid /\ ~Alive(installLock.by)
    /\ Goes(p, "reclaim")
    /\ UNCHANGED <<config, applied, copies, journals, installLock, runs, trouble, wrote, flaws>>

Reclaim(p) ==
    /\ migrator[p].pc = "reclaim"
    /\ installLock' = Unlocked
    /\ Goes(p, "lock")
    /\ UNCHANGED <<config, applied, copies, journals, runs, trouble, wrote, flaws>>

\* Thirty seconds of a lock that is held, or that has no pid to look up.
TimesOut(p) ==
    /\ migrator[p].pc = "lock" /\ installLock # Unlocked /\ (installLock.pid => Alive(installLock.by))
    /\ Put(p, Away)
    /\ UNCHANGED <<config, applied, copies, journals, installLock, runs, trouble, wrote, flaws>>

-----------------------------------------------------------------------------
(* planInstallerMigrations: the actions of the migrations not yet applied. *)

Classify(f) ==
    IF config[f] = {} THEN IF f \in Managed THEN "managed-missing" ELSE "missing"
    ELSE IF f \notin Managed THEN "unknown"
    ELSE IF config[f] = {"shipped"} THEN "managed-pristine" ELSE "managed-modified"

Action(id, type, f, value) == [id |-> id, type |-> type, path |-> f, value |-> value]
When(c, a) == IF c THEN <<a>> ELSE <<>>

Baseline(scan) ==
    When(scan /\ config["old"] # {}, Action("baseline", "record-baseline", "old", {}))
    \o When(scan /\ config["odd"] # {}, Action("baseline", "prompt-user", "odd", {}))
Hooks == When("hook" \in config["hooks"],
              Action("hooks", "rewrite-json", "hooks", config["hooks"] \ {"hook"}))
Rename ==
    When(Classify("old") = "managed-pristine", Action("rename", "remove-managed", "old", {}))
    \o When(Classify("old") = "managed-modified", Action("rename", "backup-and-remove", "old", {}))
    \o When(Classify("mine") = "unknown", Action("rename", "baseline-preserve-user", "mine", {}))

PlanOf(scan) ==
    (IF "baseline" \in applied THEN <<>> ELSE Baseline(scan))
    \o (IF "hooks" \in applied THEN <<>> ELSE Hooks)
    \o (IF "rename" \in applied THEN <<>> ELSE Rename)

Prompts(plan) == {i \in DOMAIN plan : plan[i].type = "prompt-user"}

Plan(p) ==
    /\ migrator[p].pc = "plan"
    /\ \E scan \in BOOLEAN :
        LET plan == PlanOf(scan) IN
            Put(p, [migrator[p] EXCEPT !.plan = plan,
                      !.ids = IF plan = <<>> THEN Ids \ applied ELSE {plan[i].id : i \in DOMAIN plan},
                      !.pc = IF plan = <<>> THEN "mark" ELSE IF Prompts(plan) # {} THEN "unlock" ELSE "start"])
    /\ UNCHANGED <<config, applied, copies, journals, installLock, runs, trouble, wrote, flaws>>

\* markPendingMigrationsApplied: nothing to do but to say so.  Between its reading and
\* its replacing of the record, here and below, only a second run could come.
Mark(p) ==
    /\ migrator[p].pc = "mark"
    /\ \/ applied' = applied \cup migrator[p].ids /\ UNCHANGED trouble
       \/ migrator[p].ids # {} /\ Fault /\ UNCHANGED applied
    /\ Goes(p, "unlock")
    /\ UNCHANGED <<config, copies, journals, installLock, runs, wrote, flaws>>

-----------------------------------------------------------------------------
(* applyInstallerMigrationPlan. *)

StartRun(p) ==
    /\ migrator[p].pc = "start"
    /\ journals' = journals \cup {migrator[p].run}
    /\ Put(p, [migrator[p] EXCEPT !.pc = "act", !.prev = applied])
    /\ UNCHANGED <<config, applied, copies, installLock, runs, trouble, wrote, flaws>>

Touches(a) == a.type \notin {"record-baseline", "baseline-preserve-user"}

\* A file is copied aside, and backed up if that is its action.
CopyAside(p) ==
    LET m == migrator[p]
        a == Head(m.plan)
        kinds == {"rollback"} \cup (IF a.type = "backup-and-remove" THEN {"backup"} ELSE {})
    IN  /\ m.pc = "act" /\ m.plan # <<>>
        /\ IF config[a.path] = {} \/ ~Touches(a)
           THEN Put(p, [m EXCEPT !.plan = Tail(@)]) /\ UNCHANGED copies
           ELSE /\ copies' = copies \cup {<<m.run, k, a.path, config[a.path]>> : k \in kinds}
                /\ Put(p, [m EXCEPT !.pc = "change", !.undo = Append(@, a.path)])
        /\ UNCHANGED <<config, applied, journals, installLock, runs, trouble, wrote, flaws>>

Change(p) ==
    LET m == migrator[p]
        a == Head(m.plan)
    IN  /\ m.pc = "change"
        /\ config' = [config EXCEPT ![a.path] = a.value]
        /\ Put(p, [m EXCEPT !.pc = "act", !.plan = Tail(@)])
        /\ UNCHANGED <<applied, copies, journals, installLock, runs, trouble, wrote, flaws>>

\* A copy, a change, the journal or the record cannot be written.
Breaks(p) ==
    /\ migrator[p].pc \in {"act", "change"} /\ Fault
    /\ Goes(p, "restore")
    /\ UNCHANGED <<config, applied, copies, journals, installLock, runs, wrote, flaws>>

Record(p) ==
    LET m == migrator[p] IN
    /\ m.pc = "act" /\ m.plan = <<>>
    /\ applied' = applied \cup m.ids
    /\ Put(p, [m EXCEPT !.pc = "unlock", !.done = TRUE])
    /\ UNCHANGED <<config, copies, journals, installLock, runs, trouble, wrote, flaws>>

-----------------------------------------------------------------------------
(* The way back at once, the latest change first; the copies stay if one   *)
(* of them could not be put back.                                          *)

CopyOf(p, f) == CHOOSE c \in copies : c[1] = migrator[p].run /\ c[2] = "rollback" /\ c[3] = f
CopiesOf(p) == {c \in copies : c[1] = migrator[p].run}
PutBack(p, f) == config' = [config EXCEPT ![f] = CopyOf(p, f)[4]]

Restore(p) ==
    LET m == migrator[p] IN
    /\ m.pc = "restore" /\ m.undo # <<>>
    /\ \/ /\ PutBack(p, Last(m.undo))
          /\ Put(p, [m EXCEPT !.undo = Front(@)]) /\ UNCHANGED trouble
       \/ /\ Fault
          /\ Put(p, [m EXCEPT !.undo = Front(@), !.broken = TRUE]) /\ UNCHANGED config
    /\ UNCHANGED <<applied, copies, journals, installLock, runs, wrote, flaws>>

\* Mutant: the copies go whether or not they were put back.
RestoredTidy(p) ==
    LET m == migrator[p] IN
    /\ m.pc = "restore" /\ m.undo = <<>>
    /\ copies' = copies \ CopiesOf(p) /\ journals' = journals \ {m.run}
    /\ Goes(p, "unlock")
    /\ UNCHANGED <<config, applied, installLock, runs, trouble, wrote, flaws>>

Restored(p) ==
    LET m == migrator[p] IN
    /\ m.pc = "restore" /\ m.undo = <<>>
    /\ IF m.broken THEN UNCHANGED <<copies, journals>>
       ELSE copies' = copies \ CopiesOf(p) /\ journals' = journals \ {m.run}
    /\ Goes(p, "unlock")
    /\ UNCHANGED <<config, applied, installLock, runs, trouble, wrote, flaws>>

\* Whoever's lock it is; without one the run ends in an error, changes and all.
Unlock(p) ==
    LET m == migrator[p]
        there == m.locked => installLock # Unlocked
    IN  /\ m.pc = "unlock"
        /\ installLock' = IF m.locked THEN Unlocked ELSE installLock
        /\ IF m.done /\ there THEN Goes(p, "installed")
           ELSE IF Prompts(m.plan) # {} /\ there THEN Goes(p, "resolve") ELSE Put(p, Away)
        /\ flaws' = flaws \cup (IF m.locked /\ Others(p) THEN {"stolen"} ELSE {})
        /\ UNCHANGED <<config, applied, copies, journals, runs, trouble, wrote>>

\* resolveInstallerMigrationPromptsForNonTty: the caller keeps or removes what
\* was asked about and applies the plan, with no lock; or it gives up.
Resolve(p) ==
    LET m == migrator[p] IN
    /\ m.pc = "resolve"
    /\ \/ \E type \in {"baseline-preserve-user", "backup-and-remove"} :
            Put(p, [m EXCEPT !.pc = "start", !.locked = FALSE,
                      !.plan = [i \in DOMAIN m.plan |->
                                  IF i \in Prompts(m.plan) THEN [m.plan[i] EXCEPT !.type = type] ELSE m.plan[i]]])
       \/ Put(p, Away)
    /\ flaws' = flaws \cup Overlap(p)
    /\ UNCHANGED <<config, applied, copies, journals, installLock, runs, trouble, wrote>>

-----------------------------------------------------------------------------
(* The way back later: rollback() of the result, when the caller fails; no *)
(* lock is taken, and the copies go whether or not they were put back.     *)

Finishes(p) ==
    /\ migrator[p].pc = "installed" /\ Put(p, Away)
    /\ UNCHANGED <<config, applied, copies, journals, installLock, runs, trouble, wrote, flaws>>

FailsLater(p) ==
    /\ migrator[p].pc = "installed" /\ Goes(p, "undo")
    /\ flaws' = flaws \cup Overlap(p)
    /\ UNCHANGED <<config, applied, copies, journals, installLock, runs, trouble, wrote>>

UndoFile(p) ==
    LET m == migrator[p]
        f == Last(m.undo)
    IN  /\ m.pc = "undo" /\ m.undo # <<>>
        /\ \/ PutBack(p, f) /\ flaws' = flaws \cup Overlap(p) /\ UNCHANGED trouble
           \/ Fault /\ flaws' = flaws \cup {"unrestored"} /\ UNCHANGED config
        /\ copies' = {c \in copies : ~(c[1] = m.run /\ c[2] = "backup" /\ c[3] = f)}
        /\ Put(p, [m EXCEPT !.undo = Front(@)])
        /\ UNCHANGED <<applied, journals, installLock, runs, wrote>>

UndoState(p) ==
    LET m == migrator[p] IN
    /\ m.pc = "undo" /\ m.undo = <<>>
    /\ \/ applied' = m.prev /\ flaws' = flaws \cup Overlap(p) /\ UNCHANGED trouble
       \/ Fault /\ flaws' = flaws \cup {"unrestored"} /\ UNCHANGED applied
    /\ Goes(p, "tidy")
    /\ UNCHANGED <<config, copies, journals, installLock, runs, wrote>>

UndoEnd(p) ==
    /\ migrator[p].pc = "tidy"
    /\ copies' = copies \ CopiesOf(p) /\ journals' = journals \ {migrator[p].run}
    /\ Put(p, Away)
    /\ UNCHANGED <<config, applied, installLock, runs, trouble, wrote, flaws>>

-----------------------------------------------------------------------------
(* The user, and the end of the process. *)

\* Between the reading of a file and the last use of what was read.
InUse(f) == \E p \in Installers :
    LET m == migrator[p] IN
    \/ \E i \in DOMAIN m.undo : m.undo[i] = f
    \/ \E i \in DOMAIN m.plan : m.plan[i].path = f /\ m.plan[i].type = "rewrite-json"

UserEdits(f) ==
    /\ "late" \notin wrote[f]
    /\ config' = [config EXCEPT ![f] = @ \cup {"late"}]
    /\ wrote' = [wrote EXCEPT ![f] = @ \cup {"late"}]
    /\ flaws' = flaws \cup (IF InUse(f) THEN {"edited"} ELSE {})
    /\ UNCHANGED <<applied, copies, journals, installLock, migrator, runs, trouble>>

Undoing == {"undo", "tidy"}
Crash(p) ==
    /\ migrator[p].pc # "idle" /\ Fault
    /\ Put(p, Away)
    /\ flaws' = flaws \cup (IF migrator[p].pc \in Undoing THEN {"crash"} ELSE {})
    /\ UNCHANGED <<config, applied, copies, journals, installLock, runs, wrote>>

Next ==
    \/ \E p \in Installers :
        \/ Begin(p) \/ Create(p) \/ WritePid(p) \/ FindsDead(p) \/ Reclaim(p) \/ TimesOut(p)
        \/ Plan(p) \/ Mark(p) \/ StartRun(p) \/ CopyAside(p) \/ Change(p) \/ Breaks(p)
        \/ Record(p) \/ Restore(p) \/ Restored(p) \/ Unlock(p) \/ Resolve(p)
        \/ Finishes(p) \/ FailsLater(p) \/ UndoFile(p) \/ UndoState(p) \/ UndoEnd(p) \/ Crash(p)
    \/ \E f \in Edited : UserEdits(f)

Spec == Init /\ [][Next]_installVars

-----------------------------------------------------------------------------
(* Properties. *)

Flaws == {"stolen", "overlap", "unrestored", "edited", "crash"}
Pcs == {"idle", "lock", "created", "reclaim", "plan", "mark", "start", "act", "change",
        "restore", "unlock", "resolve", "installed", "undo", "tidy"}
TypeOK ==
    /\ config \in [Paths -> SUBSET Parts] /\ wrote \in [Paths -> SUBSET UserParts]
    /\ applied \subseteq Ids /\ journals \subseteq 1..runs
    /\ \A c \in copies : c[1] \in 1..runs /\ c[2] \in {"rollback", "backup"} /\ c[3] \in Paths
                         /\ c[4] \subseteq Parts
    /\ installLock \in [by : -1..runs, pid : BOOLEAN]
    /\ \A p \in Installers : migrator[p].pc \in Pcs /\ migrator[p].ids \subseteq Ids
    /\ runs \in 0..MaxRuns /\ trouble \in 0..MaxMishaps /\ flaws \subseteq Flaws

(* Whatever the user wrote in a file is in it or in a copy put aside, over *)
(* every crash and failing step, unless he wrote it while the file was     *)
(* being changed, a later rollback failed (it drops the copies all the     *)
(* same) or two installers were at work.                                   *)
UserPartsSurvive ==
    flaws = {} => \A f \in Paths : \A part \in wrote[f] :
        part \in config[f] \/ \E c \in copies : c[3] = f /\ part \in c[4]

(* A migration recorded as applied has been carried out: its files are     *)
(* gone and its hooks out of hooks.json, over rollbacks and crashes, with  *)
(* the same exceptions and that of a crash within a later rollback.        *)
AppliedIsDone ==
    flaws = {} /\ (\A p \in Installers : migrator[p].pc \notin Undoing) =>
        /\ "hooks" \in applied => "hook" \notin config["hooks"]
        /\ "rename" \in applied => "shipped" \notin config["old"]
=============================================================================
