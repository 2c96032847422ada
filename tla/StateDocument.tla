--------------------------- MODULE StateDocument ---------------------------
(***************************************************************************)
(* STATE.md, its archive and its lock file, under several gsd-tools        *)
(* processes that run one `state` command each (bin/lib/state.cjs).  A     *)
(* command may look at the document first, then takes STATE.md.lock by     *)
(* exclusive creation, reads, transforms and replaces the document, and    *)
(* unlinks the lock.  A lock older than ten seconds is unlinked by whoever *)
(* finds it so, in two system calls.                                       *)
(*                                                                         *)
(* The document is a record of the fields the commands read or write; a    *)
(* decision, metric row or blocker is an entry named by the command that   *)
(* wrote it.  Dates and the wording of fields are left out.                *)
(***************************************************************************)
EXTENDS Integers, FiniteSets, Sequences, FiniteSetsExt

CONSTANTS
    Procs,          \* gsd-tools processes
    Phases,         \* phase numbers, 1..n
    MaxPlans,       \* bound: plan files of a phase
    KeepRecent,     \* --keep-recent of prune
    MaxCommands,    \* bound: commands issued in a behaviour
    MaxFaults,      \* bound: crashes and holders slower than ten seconds
    NoLock

StateConstants ==
    /\ Phases = 1..Cardinality(Phases) /\ Phases # {} /\ IsFiniteSet(Phases)
    /\ MaxPlans \in Nat /\ KeepRecent \in Nat \ {0}
    /\ MaxCommands \in Nat /\ MaxFaults \in Nat
    /\ NoLock \notin [by : Nat, stale : BOOLEAN]

VARIABLES
    doc,        \* the contents of STATE.md
    archive,    \* the entries in STATE-ARCHIVE.md
    signal,     \* whether WAITING.json exists
    lock,       \* STATE.md.lock: the command that created it, and its age
    disk,       \* the PLAN and SUMMARY files of each phase directory
    job,        \* what each process is doing
    issued,     \* commands issued so far
    faults,
    recorded,   \* history: the entries commands wrote and none resolved
    excuse      \* history: what went wrong so far, of Excuses
vars == <<doc, archive, signal, lock, disk, job, issued, faults, recorded, excuse>>

-----------------------------------------------------------------------------
(* The document. *)

Entry == [kind : {"decision", "metric", "blocker"}, phase : Phases, id : 0..MaxCommands]
Statuses == {"planning", "ready", "executing", "verify", "complete", "authored"}
Counters == [phases : Nat, donePhases : Nat, plans : Nat, donePlans : Nat, percent : 0..100]
Document == [phase : Phases, plan : Nat, total : Nat, status : Statuses,
             statusPhase : Phases \cup {0}, percent : 0..100,
             resume : {"None", "authored"}, entries : SUBSET Entry,
             fmStatus : Statuses, progress : Counters]

SumOver(f) == FoldSet(LAMBDA ph, n : f[ph] + n, 0, DOMAIN f)
Round100(a, b) == (200 * a + b) \div (2 * b)
AtMost100(n) == IF n < 100 THEN n ELSE 100

Plans == SumOver([ph \in Phases |-> disk[ph].plans])
Summaries == SumOver([ph \in Phases |-> disk[ph].summaries])
PhaseDone(ph) == disk[ph].plans > 0 /\ disk[ph].summaries >= disk[ph].plans
DonePhases == Cardinality({ph \in Phases : PhaseDone(ph)})

(* The smaller of the two fractions, rounded; no data counts as one. *)
ComputeProgressPercent(donePlans, allPlans, donePhases, allPhases) ==
    LET plansOK == Round100(donePlans, allPlans)
        phasesOK == Round100(donePhases, allPhases)
    IN  AtMost100(IF allPlans = 0 \/ phasesOK < plansOK THEN phasesOK ELSE plansOK)

DiskProgress ==
    [phases |-> Cardinality(Phases), donePhases |-> DonePhases, plans |-> Plans,
     donePlans |-> Summaries,
     percent |-> ComputeProgressPercent(Summaries, Plans, DonePhases, Cardinality(Phases))]

(* The frontmatter is rebuilt from the body and the disk. *)
SyncFrontmatter(d) == [d EXCEPT !.fmStatus = d.status, !.progress = DiskProgress]

(* ... unless the command asks to keep the counters it found. *)
SyncBody(d) == [d EXCEPT !.fmStatus = d.status]

(* A handler replaces only what a handler wrote. *)
IfTemplate(d, s) == IF d.status = "authored" THEN d
                    ELSE [d EXCEPT !.status = s, !.statusPhase = 0]

-----------------------------------------------------------------------------
(* What each command does to the document it read; j is the job. *)

Patch(d) == [d EXCEPT !.status = "authored", !.statusPhase = 0]
Update(d) == [d EXCEPT !.resume = "authored"]

AdvancePlan(d) ==
    IF d.plan >= d.total THEN IfTemplate(d, "verify")
    ELSE [IfTemplate(d, "ready") EXCEPT !.plan = d.plan + 1]

Record(d, j, kind) ==
    [d EXCEPT !.entries = @ \cup {[kind |-> kind, phase |-> j.phase, id |-> j.id]}]

RecordMetric(d, j) == Record(d, j, "metric")
AddDecision(d, j) == Record(d, j, "decision")
AddBlocker(d, j) == Record(d, j, "blocker")

ResolveBlocker(d, j) ==
    [d EXCEPT !.entries = {e \in @ : e.kind # "blocker" \/ e.phase # j.phase}]

UpdateProgress(d, j) == [d EXCEPT !.percent = j.num]

RecordSession(d) == [d EXCEPT !.resume = IF @ = "None" THEN "None" ELSE @]

BeginPhase(d, j) ==
    LET running == d.status = "executing" /\ d.statusPhase = j.phase
        e == [d EXCEPT !.status = "executing", !.statusPhase = j.phase]
    IN  IF running THEN e
        ELSE [e EXCEPT !.phase = j.phase, !.plan = 1, !.total = IF j.num = 0 THEN @ ELSE j.num]

PlannedPhase(d, j) == [IfTemplate(d, "ready") EXCEPT !.total = j.num]

CompletePhase(d, j) == [d EXCEPT !.status = "complete", !.statusPhase = j.phase]

(* Body and frontmatter are reset; the other fields of the body stay. *)
MilestoneSwitch(d) ==
    [d EXCEPT !.status = "planning", !.statusPhase = 0, !.fmStatus = "planning",
              !.progress = [phases |-> 0, donePhases |-> 0, plans |-> 0,
                            donePlans |-> 0, percent |-> 0]]

(* The highest phase with unfinished plans, else the first with any. *)
CurrentOnDisk ==
    LET open == {ph \in Phases : disk[ph].plans > 0 /\ ~PhaseDone(ph)}
        some == {ph \in Phases : disk[ph].plans > 0}
    IN  IF open # {} THEN {Max(open)} ELSE IF some # {} THEN {Min(some)} ELSE {}

SyncFromDisk(d) ==
    [d EXCEPT !.total = IF CurrentOnDisk = {} THEN @
                        ELSE disk[CHOOSE ph \in CurrentOnDisk : TRUE].plans,
              !.percent = DiskProgress.percent]

Old(d, cutoff) == {e \in d.entries : e.kind = "decision" /\ e.phase <= cutoff}

Transform(d, j) ==
    CASE j.op = "patch"    -> SyncFrontmatter(Patch(d))
      [] j.op = "update"   -> SyncBody(Update(d))
      [] j.op = "advance"  -> SyncFrontmatter(AdvancePlan(d))
      [] j.op = "metric"   -> SyncFrontmatter(RecordMetric(d, j))
      [] j.op = "progress" -> SyncFrontmatter(UpdateProgress(d, j))
      [] j.op = "decision" -> SyncFrontmatter(AddDecision(d, j))
      [] j.op = "blocker"  -> SyncFrontmatter(AddBlocker(d, j))
      [] j.op = "resolve"  -> SyncFrontmatter(ResolveBlocker(d, j))
      [] j.op = "session"  -> SyncFrontmatter(RecordSession(d))
      [] j.op = "begin"    -> SyncFrontmatter(BeginPhase(d, j))
      [] j.op = "planned"  -> SyncBody(PlannedPhase(d, j))
      [] j.op = "complete" -> SyncFrontmatter(CompletePhase(d, j))
      [] j.op = "switch"   -> MilestoneSwitch(d)
      [] j.op = "prune"    -> SyncFrontmatter([d EXCEPT !.entries = @ \ Old(d, j.num)])
      [] j.op = "sync"     -> j.seen

-----------------------------------------------------------------------------
(* The jobs. *)

InitDoc == [phase |-> Cardinality(Phases), plan |-> 1, total |-> 2, status |-> "ready", statusPhase |-> 0,
            percent |-> 0, resume |-> "None",
            entries |-> {[kind |-> "decision", phase |-> 1, id |-> 0]},
            fmStatus |-> "ready",
            progress |-> [phases |-> 0, donePhases |-> 0, plans |-> 0,
                          donePlans |-> 0, percent |-> 0]]
Idle == [pc |-> "idle", op |-> "none", phase |-> 1, id |-> 0, num |-> 0,
         seen |-> InitDoc, lines |-> {}, old |-> {}]

Init ==
    /\ doc = InitDoc
    /\ archive = {} /\ signal = FALSE
    /\ lock \in {NoLock, [by |-> 0, stale |-> FALSE]}   \* left by a killed process
    /\ disk = [ph \in Phases |->
                 [plans |-> IF ph = 1 THEN MaxPlans ELSE 1,
                  summaries |-> IF ph = 1 THEN MaxPlans ELSE 0]]
    /\ job = [p \in Procs |-> Idle]
    /\ issued = 0 /\ faults = 0
    /\ recorded = doc.entries /\ excuse = {}

Set(p, j) == job' = [job EXCEPT ![p] = j]
Holding(p) == job[p].pc \in {"locked", "read", "wrote"}
HeldBy(l) == {p \in Procs : l # NoLock /\ Holding(p) /\ job[p].id = l.by}

(* What a command finds out before it asks for the lock; it may end there. *)
Prepare(op, ph) ==
    LET j == [Idle EXCEPT !.pc = "wait", !.op = op, !.phase = ph, !.id = issued + 1]
    IN  CASE op = "progress" -> [j EXCEPT !.num =
                 IF Plans = 0 THEN 0 ELSE AtMost100(Round100(Summaries, Plans))]
          [] op \in {"begin", "planned"} -> [j EXCEPT !.num = disk[ph].plans]
          [] op = "prune" -> [j EXCEPT !.num = doc.phase - KeepRecent]
          [] op = "sync" -> [j EXCEPT !.seen = SyncFrontmatter(SyncFromDisk(doc))]
          [] OTHER -> j

Admitted(op, ph) ==
    /\ op = "complete" => doc.phase = ph
    /\ op = "prune" => doc.phase > KeepRecent

\* The commands that differ by the phase they name, and those that do not.
PhaseOps == {"decision", "begin", "planned", "complete"}
OtherOps == {"patch", "update", "advance", "metric", "progress", "blocker", "resolve",
             "session", "switch", "prune", "sync"}

Start(p) ==
    /\ job[p].pc = "idle" /\ issued < MaxCommands
    /\ \E op \in PhaseOps \cup OtherOps, ph \in Phases :
        /\ op \in OtherOps => ph = 1
        /\ Admitted(op, ph)
        /\ Set(p, Prepare(op, ph))
    /\ issued' = issued + 1
    /\ UNCHANGED <<doc, archive, signal, lock, disk, faults, recorded, excuse>>

(* WAITING.json is written and removed without the lock. *)
SignalWaiting(p) ==
    /\ job[p].pc = "idle" /\ issued < MaxCommands
    /\ signal' = TRUE /\ issued' = issued + 1
    /\ UNCHANGED <<doc, archive, lock, disk, job, faults, recorded, excuse>>

SignalResume(p) ==
    /\ job[p].pc = "idle" /\ issued < MaxCommands
    /\ signal' = FALSE /\ issued' = issued + 1
    /\ UNCHANGED <<doc, archive, lock, disk, job, faults, recorded, excuse>>

-----------------------------------------------------------------------------
(* The lock file. *)

Rest == <<doc, archive, signal, disk, issued, faults, recorded>>

(* Whoever's lock it is: a lock of another process may be in use. *)
Unlink(p) ==
    /\ lock' = NoLock
    /\ excuse' = excuse \cup (IF HeldBy(lock) \ {p} = {} THEN {} ELSE {"stolen"})

\* Mutant: the flag that makes a creation exclusive is missing.
AcquireShared(p) ==
    /\ job[p].pc = "wait"
    /\ lock' = [by |-> job[p].id, stale |-> FALSE]
    /\ Set(p, [job[p] EXCEPT !.pc = "locked"])
    /\ UNCHANGED <<Rest, excuse>>

(* O_CREAT and O_EXCL: only one creation succeeds. *)
Acquire(p) ==
    /\ job[p].pc = "wait" /\ lock = NoLock
    /\ lock' = [by |-> job[p].id, stale |-> FALSE]
    /\ Set(p, [job[p] EXCEPT !.pc = "locked"])
    /\ UNCHANGED <<Rest, excuse>>

(* stat finds the file too old ... *)
FindsStale(p) ==
    /\ job[p].pc = "wait" /\ lock # NoLock /\ lock.stale
    /\ Set(p, [job[p] EXCEPT !.pc = "steal"])
    /\ UNCHANGED <<Rest, lock, excuse>>

(* ... and unlink takes whatever file is there by then. *)
UnlinksStale(p) ==
    /\ job[p].pc = "steal"
    /\ Unlink(p)
    /\ Set(p, [job[p] EXCEPT !.pc = "wait"])
    /\ UNCHANGED Rest

(* Thirty seconds of locks that were each too young to remove. *)
GivesUp(p) ==
    /\ job[p].pc = "wait" /\ lock # NoLock /\ ~lock.stale
    /\ Set(p, Idle)
    /\ UNCHANGED <<Rest, lock, excuse>>

Ages ==
    /\ lock # NoLock /\ ~lock.stale
    /\ \/ HeldBy(lock) = {} /\ faults' = faults
       \/ HeldBy(lock) # {} /\ faults < MaxFaults /\ faults' = faults + 1
    /\ lock' = [lock EXCEPT !.stale = TRUE]
    /\ UNCHANGED <<doc, archive, signal, disk, job, issued, recorded, excuse>>

-----------------------------------------------------------------------------
(* Under the lock, except that sync read the document before. *)

Read(p) ==
    /\ job[p].pc = "locked" /\ job[p].op # "sync"
    /\ Set(p, [job[p] EXCEPT !.pc = "read", !.seen = doc])
    /\ UNCHANGED <<Rest, lock, excuse>>

Write(p) ==
    LET j == job[p]
        new == Transform(j.seen, j)
        resolved == IF j.op = "resolve" THEN j.seen.entries \ new.entries ELSE {}
    IN  /\ j.pc = IF j.op = "sync" THEN "locked" ELSE "read"
        /\ doc' = new
        /\ recorded' = (recorded \ resolved) \cup (new.entries \ j.seen.entries)
        /\ excuse' = excuse \cup (IF j.op = "sync" /\ doc.entries # new.entries
                                  THEN {"sync"} ELSE {})
        /\ Set(p, [j EXCEPT !.pc = "wrote", !.seen = InitDoc,
                            !.lines = IF j.op = "prune" THEN Old(j.seen, j.num) ELSE {}])
        /\ UNCHANGED <<archive, signal, lock, disk, issued, faults>>

Release(p) ==
    /\ job[p].pc = "wrote"
    /\ Unlink(p)
    /\ Set(p, IF job[p].lines = {} THEN Idle ELSE [job[p] EXCEPT !.pc = "archive"])
    /\ UNCHANGED Rest

(* The archive is read and replaced without a lock. *)
ReadArchive(p) ==
    /\ job[p].pc = "archive"
    /\ Set(p, [job[p] EXCEPT !.pc = "append", !.old = archive])
    /\ UNCHANGED <<Rest, lock, excuse>>

WriteArchive(p) ==
    /\ job[p].pc = "append"
    /\ archive' = job[p].old \cup job[p].lines
    /\ excuse' = excuse \cup (IF archive = job[p].old THEN {} ELSE {"torn"})
    /\ Set(p, Idle)
    /\ UNCHANGED <<doc, signal, lock, disk, issued, faults, recorded>>

-----------------------------------------------------------------------------
(* The process is killed: its exit handler does not run and the lock stays. *)
Crash(p) ==
    /\ job[p].pc # "idle" /\ faults < MaxFaults
    /\ faults' = faults + 1
    /\ excuse' = excuse \cup (IF job[p].lines = {} THEN {} ELSE {"torn"})
    /\ Set(p, Idle)
    /\ UNCHANGED <<doc, archive, signal, lock, disk, issued, recorded>>

(* Agents write plans, and a summary for a plan that was executed. *)
AgentWrites ==
    /\ \E ph \in Phases :
        \/ /\ disk[ph].plans < MaxPlans
           /\ disk' = [disk EXCEPT ![ph].plans = @ + 1]
        \/ /\ disk[ph].summaries < disk[ph].plans
           /\ disk' = [disk EXCEPT ![ph].summaries = @ + 1]
    /\ UNCHANGED <<doc, archive, signal, lock, job, issued, faults, recorded, excuse>>

Next ==
    \/ \E p \in Procs :
        \/ Start(p) \/ SignalWaiting(p) \/ SignalResume(p)
        \/ Acquire(p) \/ FindsStale(p) \/ UnlinksStale(p) \/ GivesUp(p)
        \/ Read(p) \/ Write(p) \/ Release(p) \/ ReadArchive(p) \/ WriteArchive(p) \/ Crash(p)
    \/ Ages \/ AgentWrites

Spec == Init /\ [][Next]_vars

-----------------------------------------------------------------------------
(* Properties. *)

Excuses == {"stolen", "sync", "torn"}
Job == [pc : {"idle", "wait", "steal", "locked", "read", "wrote", "archive", "append"},
        op : {"none"} \cup PhaseOps \cup OtherOps, phase : Phases, id : 0..MaxCommands,
        num : Nat, seen : Document, lines : SUBSET Entry, old : SUBSET Entry]

TypeOK ==
    /\ doc \in Document
    /\ archive \subseteq Entry /\ recorded \subseteq Entry
    /\ signal \in BOOLEAN
    /\ lock \in {NoLock} \cup [by : 0..MaxCommands, stale : BOOLEAN]
    /\ disk \in [Phases -> [plans : 0..MaxPlans, summaries : 0..MaxPlans]]
    /\ job \in [Procs -> Job]
    /\ issued \in 0..MaxCommands /\ faults \in 0..MaxFaults
    /\ excuse \subseteq Excuses

(* At most one process is between taking the lock and releasing it, unless  *)
(* a lock was removed under a live holder: by a holder slower than ten     *)
(* seconds, or by a process that found an older lock stale.                *)
OneWriter ==
    "stolen" \in excuse \/ \A p, q \in Procs : Holding(p) /\ Holding(q) => p = q

(* What a command recorded is in the document, in the archive, or in the   *)
(* hands of the prune that moves it, unless something of Excuses happened. *)
RecordedSurvives ==
    excuse # {} \/ recorded \subseteq doc.entries \cup archive
                                     \cup UNION {job[p].lines : p \in Procs}

=============================================================================
