--------------------------- MODULE DocumentProofs ---------------------------
(***************************************************************************)
(* Proofs about the tools that keep the files of a project, for any number *)
(* of commands, processes, agents, crashes and slips: STATE.md, the        *)
(* worktrees, the workstreams and the migrations of the installation.      *)
(***************************************************************************)
EXTENDS DocumentTools, WellFoundedInduction, TLAPS

(***************************************************************************)
(* STATE.md: it has one writer, and what a command recorded survives.  The *)
(* fields are left as they are (sums over the disk are folds); only the    *)
(* entries and who holds the lock matter.                                  *)
(***************************************************************************)
\* The part's variables, by their names in StateDocument.
doc == v1
archive == v2
signal == v3
lock == v4
disk == v5
job == v6
issued == v7
faults == v8
recorded == v9
excuse == v10

-----------------------------------------------------------------------------
(* The invariant. *)

JobFields == {"pc", "op", "phase", "id", "num", "seen", "lines", "old"}
States == {"idle", "wait", "steal", "locked", "read", "wrote", "archive", "append"}
Lock == [by : Nat, stale : BOOLEAN]

Shapes ==
    /\ issued \in Nat /\ lock \in {NotUsed} \cup Lock
    /\ DOMAIN job = Procs /\ \A p \in Procs : DOMAIN job[p] = JobFields
    /\ "entries" \in DOMAIN doc /\ \A p \in Procs : "entries" \in DOMAIN job[p].seen

\* A command has a number of its own as long as it runs.
Numbered ==
    /\ \A p \in Procs :
          /\ job[p].id \in Nat /\ job[p].id <= issued /\ job[p].pc \in States
          /\ job[p].pc # "idle" => job[p].op \in SD!PhaseOps \cup SD!OtherOps
    /\ \A p, q \in Procs : job[p].pc # "idle" /\ job[q].pc # "idle" /\ job[p].id = job[q].id => p = q

\* Who is between taking the lock and releasing it has its number in the
\* lock file, until a lock is stolen.
HoldersHold ==
    "stolen" \notin excuse =>
        \A p \in Procs : SD!Holding(p) => lock # NotUsed /\ lock.by = job[p].id

\* And what it has read is what it will replace.
ReadIsCurrent ==
    "stolen" \notin excuse => \A p \in Procs : job[p].pc = "read" => job[p].seen = doc

\* Only a prune that wrote has lines to archive.
LinesWait ==
    \A p \in Procs : job[p].pc \notin {"wrote", "archive", "append"} => job[p].lines = {}

StateInv ==
    /\ Shapes /\ Numbered /\ HoldersHold /\ ReadIsCurrent /\ LinesWait
    /\ SD!RecordedSurvives

LEMMA LockConstant == NotUsed \notin Lock /\ MaxCommands \in Nat
BY DocumentConstants DEF SD!StateConstants, Lock

LEMMA IdleFields ==
    /\ DOMAIN SD!Idle = JobFields /\ SD!Idle.pc = "idle" /\ SD!Idle.id = 0 /\ SD!Idle.lines = {}
    /\ "entries" \in DOMAIN SD!Idle.seen /\ "entries" \in DOMAIN SD!InitDoc
<1>1. DOMAIN SD!Idle = JobFields /\ SD!Idle.pc = "idle" /\ SD!Idle.id = 0 /\ SD!Idle.lines = {}
      /\ SD!Idle.seen = SD!InitDoc
    BY DEF SD!Idle, JobFields
<1>2. "entries" \in DOMAIN SD!InitDoc
    BY DEF SD!InitDoc
<1> QED
    BY <1>1, <1>2

LEMMA StateInit == SD!Init => StateInv
<1> SUFFICES ASSUME SD!Init PROVE StateInv
    OBVIOUS
<1> USE DEF doc, archive, signal, lock, disk, job, issued, faults, recorded, excuse
<1>1. /\ doc = SD!InitDoc /\ issued = 0 /\ job = [p \in Procs |-> SD!Idle]
      /\ lock \in {NotUsed, [by |-> 0, stale |-> FALSE]} /\ recorded = doc.entries
    BY DEF SD!Init
<1>2. [by |-> 0, stale |-> FALSE] \in Lock
    BY DEF Lock
<1>3. \A p \in Procs : job[p] = SD!Idle
    BY <1>1
<1>4. Shapes
    BY <1>1, <1>2, <1>3, IdleFields DEF Shapes
<1>5. Numbered /\ HoldersHold /\ ReadIsCurrent /\ LinesWait
    BY <1>1, <1>3, IdleFields
    DEF Numbered, HoldersHold, ReadIsCurrent, LinesWait, States, SD!Holding
<1>6. SD!RecordedSurvives
    BY <1>1 DEF SD!RecordedSurvives
<1> QED
    BY <1>4, <1>5, <1>6 DEF StateInv

-----------------------------------------------------------------------------
(* What the commands do to the entries. *)

\* A document that has been transformed has the entries of another.
Keeps(d, new) == DOMAIN new = DOMAIN d /\ new.entries = d.entries

LEMMA Syncs ==
    ASSUME NEW d, "entries" \in DOMAIN d
    PROVE  Keeps(d, SD!SyncFrontmatter(d)) /\ Keeps(d, SD!SyncBody(d))
BY DEF Keeps, SD!SyncFrontmatter, SD!SyncBody

LEMMA Handlers ==
    ASSUME NEW d, "entries" \in DOMAIN d, NEW j
    PROVE  /\ Keeps(d, SD!Patch(d)) /\ Keeps(d, SD!Update(d)) /\ Keeps(d, SD!AdvancePlan(d))
           /\ Keeps(d, SD!UpdateProgress(d, j)) /\ Keeps(d, SD!RecordSession(d))
           /\ Keeps(d, SD!BeginPhase(d, j)) /\ Keeps(d, SD!PlannedPhase(d, j))
           /\ Keeps(d, SD!CompletePhase(d, j)) /\ Keeps(d, SD!MilestoneSwitch(d))
           /\ Keeps(d, SD!SyncFromDisk(d))
<1>1. \A s : Keeps(d, SD!IfTemplate(d, s))
    BY DEF Keeps, SD!IfTemplate
<1>2. Keeps(d, SD!Patch(d)) /\ Keeps(d, SD!Update(d))
    BY DEF Keeps, SD!Patch, SD!Update
<1>3. Keeps(d, SD!AdvancePlan(d))
    BY <1>1 DEF Keeps, SD!AdvancePlan
<1>4. Keeps(d, SD!UpdateProgress(d, j)) /\ Keeps(d, SD!RecordSession(d))
    BY DEF Keeps, SD!UpdateProgress, SD!RecordSession
<1>5. Keeps(d, SD!BeginPhase(d, j))
    BY DEF Keeps, SD!BeginPhase
<1>6. Keeps(d, SD!PlannedPhase(d, j)) /\ Keeps(d, SD!CompletePhase(d, j))
    BY <1>1 DEF Keeps, SD!PlannedPhase, SD!CompletePhase
<1>7. Keeps(d, SD!MilestoneSwitch(d))
    BY DEF Keeps, SD!MilestoneSwitch
<1>8. Keeps(d, SD!SyncFromDisk(d))
    BY DEF Keeps, SD!SyncFromDisk
<1> QED
    BY <1>2, <1>3, <1>4, <1>5, <1>6, <1>7, <1>8

\* Only resolve and prune take entries away: a prune those it archives.
LEMMA Transforms ==
    ASSUME NEW d, "entries" \in DOMAIN d, NEW j, j.op \in SD!PhaseOps \cup SD!OtherOps, j.op # "sync"
    PROVE  /\ "entries" \in DOMAIN SD!Transform(d, j)
           /\ j.op \notin {"resolve", "prune"} => d.entries \subseteq SD!Transform(d, j).entries
           /\ j.op = "prune" =>
                d.entries \ SD!Transform(d, j).entries \subseteq SD!Old(d, j.num)
<1> DEFINE new == SD!Transform(d, j)
<1>1. CASE j.op \in {"patch", "update", "advance", "progress", "session", "begin", "planned",
                     "complete", "switch"}
  <2>1. PICK e : Keeps(d, e) /\ new \in {SD!SyncFrontmatter(e), SD!SyncBody(e), e}
    BY <1>1, Handlers DEF SD!Transform
  <2>2. Keeps(e, SD!SyncFrontmatter(e)) /\ Keeps(e, SD!SyncBody(e))
    BY <2>1, Syncs DEF Keeps
  <2>3. Keeps(d, new)
    BY <2>1, <2>2 DEF Keeps
  <2> QED
    BY <1>1, <2>3 DEF Keeps
<1>2. CASE j.op \in {"metric", "decision", "blocker"}
  <2>1. PICK kind : new = SD!SyncFrontmatter(SD!Record(d, j, kind))
    BY <1>2 DEF SD!Transform, SD!RecordMetric, SD!AddDecision, SD!AddBlocker
  <2>2. /\ DOMAIN SD!Record(d, j, kind) = DOMAIN d
        /\ d.entries \subseteq SD!Record(d, j, kind).entries
    BY DEF SD!Record
  <2>3. Keeps(SD!Record(d, j, kind), new)
    BY <2>1, <2>2, Syncs
  <2> QED
    BY <1>2, <2>2, <2>3 DEF Keeps
<1>3. CASE j.op = "resolve"
  <2>1. new = SD!SyncFrontmatter(SD!ResolveBlocker(d, j))
    BY <1>3 DEF SD!Transform
  <2>2. DOMAIN SD!ResolveBlocker(d, j) = DOMAIN d
    BY DEF SD!ResolveBlocker
  <2>3. Keeps(SD!ResolveBlocker(d, j), new)
    BY <2>1, <2>2, Syncs
  <2> QED
    BY <1>3, <2>2, <2>3 DEF Keeps
<1>4. CASE j.op = "prune"
  <2> DEFINE e == [d EXCEPT !.entries = @ \ SD!Old(d, j.num)]
  <2>1. new = SD!SyncFrontmatter(e)
    BY <1>4 DEF SD!Transform
  <2>2. DOMAIN e = DOMAIN d /\ e.entries = d.entries \ SD!Old(d, j.num)
    OBVIOUS
  <2> HIDE DEF e
  <2>3. Keeps(e, new)
    BY <2>1, <2>2, Syncs
  <2> QED
    BY <1>4, <2>2, <2>3 DEF Keeps
<1> QED
    BY <1>1, <1>2, <1>3, <1>4 DEF SD!PhaseOps, SD!OtherOps

-----------------------------------------------------------------------------
(* Steps that do not write the document.                                   *)

LEMMA Moves ==
    ASSUME StateInv, NEW p \in Procs, NEW j, job' = [job EXCEPT ![p] = j],
           DOMAIN j = JobFields, "entries" \in DOMAIN j.seen, j.pc \in States,
           UNCHANGED <<doc, recorded, issued>>, archive \subseteq archive', excuse \subseteq excuse',
           j.pc # "idle" => job[p].pc # "idle" /\ j.id = job[p].id /\ j.op = job[p].op,
           j.pc = "idle" => j.id = 0,
           lock' \in {NotUsed} \cup Lock,
           "stolen" \notin excuse' => \A q \in Procs \ {p} : SD!Holding(q) => lock' = lock,
           "stolen" \notin excuse' /\ j.pc \in {"locked", "read", "wrote"} =>
               lock' # NotUsed /\ lock'.by = j.id,
           "stolen" \notin excuse' /\ j.pc = "read" => j.seen = doc,
           j.pc \notin {"wrote", "archive", "append"} => j.lines = {},
           excuse' = {} => job[p].lines \subseteq archive' \cup j.lines
    PROVE  StateInv'
<1> USE DEF doc, archive, signal, lock, disk, job, issued, faults, recorded, excuse
<1>1. DOMAIN job' = Procs /\ job'[p] = j /\ \A q \in Procs \ {p} : job'[q] = job[q]
    BY DEF StateInv, Shapes
<1>2. Shapes'
    BY <1>1 DEF StateInv, Shapes
<1>3. Numbered'
    BY <1>1 DEF StateInv, Shapes, Numbered
<1>4. HoldersHold'
    BY <1>1 DEF StateInv, HoldersHold, SD!Holding
<1>5. ReadIsCurrent' /\ LinesWait'
    BY <1>1 DEF StateInv, ReadIsCurrent, LinesWait
<1>6. ASSUME excuse' = {}
      PROVE  UNION {job[q].lines : q \in Procs} \subseteq archive' \cup UNION {job'[q].lines : q \in Procs}
    BY <1>1, <1>6
<1>7. SD!RecordedSurvives'
    BY <1>6 DEF StateInv, SD!RecordedSurvives
<1> QED
    BY <1>2, <1>3, <1>4, <1>5, <1>7 DEF StateInv

LEMMA Fields ==
    ASSUME NEW p \in Procs, StateInv
    PROVE  DOMAIN job[p] = JobFields /\ "entries" \in DOMAIN job[p].seen /\ job[p].pc \in States
BY DEF StateInv, Shapes, Numbered

LEMMA AcquireStep == ASSUME StateInv, NEW p \in Procs, SD!Acquire(p) PROVE StateInv'
<1> USE DEF doc, archive, signal, lock, disk, job, issued, faults, recorded, excuse
<1> DEFINE j == [job[p] EXCEPT !.pc = "locked"]
<1>1. /\ job[p].pc = "wait" /\ lock = NotUsed /\ lock' = [by |-> job[p].id, stale |-> FALSE]
      /\ job' = [job EXCEPT ![p] = j] /\ UNCHANGED <<doc, archive, recorded, issued, excuse>>
    BY DEF SD!Acquire, SD!Set, SD!Rest
<1>2. /\ DOMAIN j = JobFields /\ j.pc = "locked" /\ j.id = job[p].id /\ j.op = job[p].op
      /\ j.seen = job[p].seen /\ j.lines = job[p].lines
    BY Fields DEF JobFields
<1> HIDE DEF j
<1>3. job[p].id \in Nat /\ job[p].lines = {} /\ "entries" \in DOMAIN job[p].seen
    BY <1>1, Fields DEF StateInv, Numbered, LinesWait
<1>4. lock' \in Lock /\ lock' # NotUsed /\ lock'.by = job[p].id
  <2>1. lock' \in Lock /\ lock'.by = job[p].id
    BY <1>1, <1>3 DEF Lock
  <2> QED
    BY <2>1, LockConstant
<1>5. "stolen" \notin excuse => \A q \in Procs \ {p} : ~SD!Holding(q)
    BY <1>1 DEF StateInv, HoldersHold
<1> QED
    BY <1>1, <1>2, <1>3, <1>4, <1>5, Moves DEF States

\* A process that waits for the lock.
LEMMA WaitsStep ==
    ASSUME StateInv, NEW p \in Procs, SD!FindsStale(p) \/ SD!GivesUp(p) PROVE StateInv'
<1> USE DEF doc, archive, signal, lock, disk, job, issued, faults, recorded, excuse
<1>1. job[p].pc = "wait" /\ job[p].lines = {} /\ lock \in {NotUsed} \cup Lock
    BY DEF SD!FindsStale, SD!GivesUp, StateInv, LinesWait, Shapes
<1>2. UNCHANGED <<doc, archive, recorded, issued, excuse, lock>>
    BY DEF SD!FindsStale, SD!GivesUp, SD!Rest
<1>3. CASE SD!FindsStale(p)
  <2> DEFINE j == [job[p] EXCEPT !.pc = "steal"]
  <2>1. job' = [job EXCEPT ![p] = j]
    BY <1>3 DEF SD!FindsStale, SD!Set
  <2>2. /\ DOMAIN j = JobFields /\ j.pc = "steal" /\ j.id = job[p].id /\ j.op = job[p].op
        /\ j.seen = job[p].seen /\ j.lines = job[p].lines
    BY Fields DEF JobFields
  <2> HIDE DEF j
  <2> QED
    BY <1>1, <1>2, <2>1, <2>2, Fields, Moves DEF States
<1>4. CASE SD!GivesUp(p)
  <2>1. job' = [job EXCEPT ![p] = SD!Idle]
    BY <1>4 DEF SD!GivesUp, SD!Set
  <2> QED
    BY <1>1, <1>2, <2>1, IdleFields, Moves DEF States
<1> QED
    BY <1>3, <1>4

\* Unlinking takes the lock of another process, or of none.
LEMMA Unlinked ==
    ASSUME StateInv, NEW p \in Procs, SD!Unlink(p)
    PROVE  /\ lock' = NotUsed /\ excuse \subseteq excuse'
           /\ "stolen" \notin excuse' => \A q \in Procs \ {p} : ~SD!Holding(q)
<1> USE DEF job, lock, excuse
<1>1. lock' = NotUsed /\ excuse \subseteq excuse'
    BY DEF SD!Unlink
<1>2. ASSUME "stolen" \notin excuse', NEW q \in Procs \ {p}, SD!Holding(q) PROVE FALSE
  <2>1. q \in SD!HeldBy(lock)
    BY <1>1, <1>2 DEF StateInv, HoldersHold, SD!HeldBy
  <2> QED
    BY <1>2, <2>1 DEF SD!Unlink
<1> QED
    BY <1>1, <1>2

LEMMA UnlinksStaleStep == ASSUME StateInv, NEW p \in Procs, SD!UnlinksStale(p) PROVE StateInv'
<1> USE DEF doc, archive, signal, lock, disk, job, issued, faults, recorded, excuse
<1> DEFINE j == [job[p] EXCEPT !.pc = "wait"]
<1>1. /\ job[p].pc = "steal" /\ job' = [job EXCEPT ![p] = j] /\ SD!Unlink(p)
      /\ UNCHANGED <<doc, archive, recorded, issued>>
    BY DEF SD!UnlinksStale, SD!Set, SD!Rest
<1>2. /\ DOMAIN j = JobFields /\ j.pc = "wait" /\ j.id = job[p].id /\ j.op = job[p].op
      /\ j.seen = job[p].seen /\ j.lines = job[p].lines
    BY Fields DEF JobFields
<1> HIDE DEF j
<1>3. job[p].lines = {}
    BY <1>1 DEF StateInv, LinesWait
<1>4. /\ lock' = NotUsed /\ excuse \subseteq excuse'
      /\ "stolen" \notin excuse' => \A q \in Procs \ {p} : ~SD!Holding(q)
    BY <1>1, Unlinked
<1> QED
    BY <1>1, <1>2, <1>3, <1>4, Fields, Moves DEF States

LEMMA ReadStep == ASSUME StateInv, NEW p \in Procs, SD!Read(p) PROVE StateInv'
<1> USE DEF doc, archive, signal, lock, disk, job, issued, faults, recorded, excuse
<1> DEFINE j == [job[p] EXCEPT !.pc = "read", !.seen = doc]
<1>1. /\ job[p].pc = "locked" /\ job' = [job EXCEPT ![p] = j]
      /\ UNCHANGED <<doc, archive, recorded, issued, lock, excuse>>
    BY DEF SD!Read, SD!Set, SD!Rest
<1>2. /\ DOMAIN j = JobFields /\ j.pc = "read" /\ j.id = job[p].id /\ j.op = job[p].op
      /\ j.seen = doc /\ j.lines = job[p].lines
    BY Fields DEF JobFields
<1> HIDE DEF j
<1>3. job[p].lines = {} /\ lock \in {NotUsed} \cup Lock /\ "entries" \in DOMAIN doc
    BY <1>1 DEF StateInv, LinesWait, Shapes
<1>4. "stolen" \notin excuse => lock # NotUsed /\ lock.by = job[p].id
    BY <1>1 DEF StateInv, HoldersHold, SD!Holding
<1> QED
    BY <1>1, <1>2, <1>3, <1>4, Moves DEF States

LEMMA ReleaseStep == ASSUME StateInv, NEW p \in Procs, SD!Release(p) PROVE StateInv'
<1> USE DEF doc, archive, signal, lock, disk, job, issued, faults, recorded, excuse
<1>1. /\ job[p].pc = "wrote" /\ SD!Unlink(p) /\ UNCHANGED <<doc, archive, recorded, issued>>
      /\ job' = [job EXCEPT ![p] = IF job[p].lines = {} THEN SD!Idle ELSE [job[p] EXCEPT !.pc = "archive"]]
    BY DEF SD!Release, SD!Set, SD!Rest
<1>2. /\ lock' = NotUsed /\ excuse \subseteq excuse'
      /\ "stolen" \notin excuse' => \A q \in Procs \ {p} : ~SD!Holding(q)
    BY <1>1, Unlinked
<1>3. CASE job[p].lines = {}
  <2>1. job' = [job EXCEPT ![p] = SD!Idle]
    BY <1>1, <1>3
  <2> QED
    BY <1>1, <1>2, <1>3, <2>1, IdleFields, Moves DEF States
<1>4. CASE job[p].lines # {}
  <2> DEFINE j == [job[p] EXCEPT !.pc = "archive"]
  <2>1. job' = [job EXCEPT ![p] = j]
    BY <1>1, <1>4
  <2>2. /\ DOMAIN j = JobFields /\ j.pc = "archive" /\ j.id = job[p].id /\ j.op = job[p].op
        /\ j.seen = job[p].seen /\ j.lines = job[p].lines
    BY Fields DEF JobFields
  <2> HIDE DEF j
  <2> QED
    BY <1>1, <1>2, <2>1, <2>2, Fields, Moves DEF States
<1> QED
    BY <1>3, <1>4

\* The archive is read and replaced: what another wrote between is torn.
LEMMA ArchiveStep ==
    ASSUME StateInv, NEW p \in Procs, SD!ReadArchive(p) \/ SD!WriteArchive(p) PROVE StateInv'
<1> USE DEF doc, archive, signal, lock, disk, job, issued, faults, recorded, excuse
<1>1. lock \in {NotUsed} \cup Lock
    BY DEF StateInv, Shapes
<1>2. CASE SD!ReadArchive(p)
  <2> DEFINE j == [job[p] EXCEPT !.pc = "append", !.old = archive]
  <2>1. /\ job[p].pc = "archive" /\ job' = [job EXCEPT ![p] = j]
        /\ UNCHANGED <<doc, archive, recorded, issued, lock, excuse>>
    BY <1>2 DEF SD!ReadArchive, SD!Set, SD!Rest
  <2>2. /\ DOMAIN j = JobFields /\ j.pc = "append" /\ j.id = job[p].id /\ j.op = job[p].op
        /\ j.seen = job[p].seen /\ j.lines = job[p].lines
    BY Fields DEF JobFields
  <2> HIDE DEF j
  <2> QED
    BY <1>1, <2>1, <2>2, Fields, Moves DEF States
<1>3. CASE SD!WriteArchive(p)
  <2>1. /\ job[p].pc = "append" /\ job' = [job EXCEPT ![p] = SD!Idle]
        /\ archive' = job[p].old \cup job[p].lines
        /\ excuse' = excuse \cup (IF archive = job[p].old THEN {} ELSE {"torn"})
        /\ UNCHANGED <<doc, recorded, issued, lock>>
    BY <1>3 DEF SD!WriteArchive, SD!Set
  <2>2. DOMAIN job' = Procs /\ job'[p] = SD!Idle /\ \A q \in Procs \ {p} : job'[q] = job[q]
    BY <2>1 DEF StateInv, Shapes
  <2>3. "stolen" \notin excuse' => "stolen" \notin excuse
    BY <2>1
  <2>4. Shapes' /\ Numbered' /\ LinesWait'
    BY <2>1, <2>2, IdleFields DEF StateInv, Shapes, Numbered, LinesWait, States
  <2>5. HoldersHold' /\ ReadIsCurrent'
    BY <2>1, <2>2, <2>3, IdleFields DEF StateInv, HoldersHold, ReadIsCurrent, SD!Holding
  <2>6. ASSUME excuse' = {}
        PROVE  recorded \subseteq doc.entries \cup archive' \cup UNION {job'[q].lines : q \in Procs}
    <3>1. excuse = {} /\ archive = job[p].old
      BY <2>1, <2>6
    <3>2. recorded \subseteq doc.entries \cup archive \cup UNION {job[q].lines : q \in Procs}
      BY <3>1 DEF StateInv, SD!RecordedSurvives
    <3>3. UNION {job[q].lines : q \in Procs} \subseteq job[p].lines \cup UNION {job'[q].lines : q \in Procs}
      BY <2>2
    <3> QED
      BY <2>1, <3>1, <3>2, <3>3
  <2>7. SD!RecordedSurvives'
    BY <2>1, <2>6 DEF SD!RecordedSurvives
  <2> QED
    BY <2>4, <2>5, <2>7 DEF StateInv
<1> QED
    BY <1>2, <1>3

LEMMA StateCrashStep == ASSUME StateInv, NEW p \in Procs, SD!Crash(p) PROVE StateInv'
<1> USE DEF doc, archive, signal, lock, disk, job, issued, faults, recorded, excuse
<1>1. /\ job' = [job EXCEPT ![p] = SD!Idle]
      /\ excuse' = excuse \cup (IF job[p].lines = {} THEN {} ELSE {"torn"})
      /\ UNCHANGED <<doc, archive, recorded, issued, lock>>
    BY DEF SD!Crash, SD!Set
<1>2. excuse' = {} => job[p].lines = {}
    BY <1>1
<1>3. lock \in {NotUsed} \cup Lock
    BY DEF StateInv, Shapes
<1> QED
    BY <1>1, <1>2, <1>3, IdleFields, Moves DEF States

-----------------------------------------------------------------------------
(* The other steps. *)

\* The commands change nothing but what they know.
LEMMA StartStep == ASSUME StateInv, NEW p \in Procs, SD!Start(p) PROVE StateInv'
<1> USE DEF doc, archive, signal, lock, disk, job, issued, faults, recorded, excuse
<1>1. /\ job[p].pc = "idle" /\ issued' = issued + 1
      /\ UNCHANGED <<doc, archive, signal, lock, disk, faults, recorded, excuse>>
    BY DEF SD!Start
<1>2. PICK op \in SD!PhaseOps \cup SD!OtherOps, ph \in Phases :
         job' = [job EXCEPT ![p] = SD!Prepare(op, ph)]
    BY DEF SD!Start, SD!Set
<1> DEFINE k == [SD!Idle EXCEPT !.pc = "wait", !.op = op, !.phase = ph, !.id = issued + 1]
           j == SD!Prepare(op, ph)
<1>3. /\ DOMAIN k = JobFields /\ k.pc = "wait" /\ k.op = op /\ k.id = issued + 1 /\ k.lines = {}
      /\ "entries" \in DOMAIN k.seen
    BY IdleFields DEF JobFields
<1>4. "entries" \in DOMAIN SD!SyncFrontmatter(SD!SyncFromDisk(doc))
    BY Handlers, Syncs DEF StateInv, Shapes, Keeps
<1>5. /\ DOMAIN j = JobFields /\ j.pc = "wait" /\ j.op = op /\ j.id = issued + 1 /\ j.lines = {}
      /\ "entries" \in DOMAIN j.seen
  <2>1. \/ j = k \/ (\E n : j = [k EXCEPT !.num = n])
        \/ j = [k EXCEPT !.seen = SD!SyncFrontmatter(SD!SyncFromDisk(doc))]
    BY DEF SD!Prepare
  <2> HIDE DEF j, k
  <2> QED
    BY <1>3, <1>4, <2>1 DEF JobFields
<1>6. job' = [job EXCEPT ![p] = j]
    BY <1>2
<1> HIDE DEF j
<1>7. DOMAIN job' = Procs /\ job'[p] = j /\ \A q \in Procs \ {p} : job'[q] = job[q]
    BY <1>6 DEF StateInv, Shapes
<1>8. Shapes' /\ LinesWait'
    BY <1>1, <1>5, <1>7 DEF StateInv, Shapes, LinesWait
<1>9. Numbered'
    BY <1>1, <1>5, <1>7 DEF StateInv, Shapes, Numbered, States
<1>10. HoldersHold' /\ ReadIsCurrent'
    BY <1>1, <1>5, <1>7 DEF StateInv, HoldersHold, ReadIsCurrent, SD!Holding
<1>11. job[p].lines = {} /\ job'[p].lines = {}
    BY <1>1, <1>5, <1>7 DEF StateInv, LinesWait
<1>12. UNION {job[q].lines : q \in Procs} \subseteq UNION {job'[q].lines : q \in Procs}
    BY <1>7, <1>11
<1>13. SD!RecordedSurvives'
    BY <1>1, <1>12 DEF StateInv, SD!RecordedSurvives
<1> QED
    BY <1>8, <1>9, <1>10, <1>13 DEF StateInv

\* Nothing of the invariant changes but the number of commands and the age of the lock.
LEMMA Others ==
    ASSUME StateInv, UNCHANGED <<doc, archive, job, recorded, excuse>>,
           issued' \in Nat, issued <= issued',
           \/ lock' = lock
           \/ lock \in Lock /\ lock' \in Lock /\ lock'.by = lock.by
    PROVE  StateInv'
<1> USE DEF doc, archive, signal, lock, disk, job, issued, faults, recorded, excuse
<1>1. Shapes' /\ ReadIsCurrent' /\ LinesWait'
    BY DEF StateInv, Shapes, ReadIsCurrent, LinesWait
<1>2. Numbered'
    BY DEF StateInv, Shapes, Numbered
<1>3. HoldersHold'
    BY LockConstant DEF StateInv, HoldersHold, SD!Holding
<1>4. SD!RecordedSurvives'
    BY DEF StateInv, SD!RecordedSurvives
<1> QED
    BY <1>1, <1>2, <1>3, <1>4 DEF StateInv

LEMMA OtherSteps ==
    ASSUME StateInv,
           \/ \E p \in Procs : SD!SignalWaiting(p) \/ SD!SignalResume(p)
           \/ SD!Ages \/ SD!AgentWrites \/ UNCHANGED SD!vars
    PROVE  StateInv'
<1> USE DEF doc, archive, signal, lock, disk, job, issued, faults, recorded, excuse
<1>1. issued \in Nat /\ lock \in {NotUsed} \cup Lock
    BY DEF StateInv, Shapes
<1>2. CASE \E p \in Procs : SD!SignalWaiting(p) \/ SD!SignalResume(p)
  <2>1. issued' = issued + 1 /\ UNCHANGED <<doc, archive, lock, job, recorded, excuse>>
    BY <1>2 DEF SD!SignalWaiting, SD!SignalResume
  <2> QED
    BY <1>1, <2>1, Others
<1>3. CASE SD!Ages
  <2>1. /\ lock # NotUsed /\ lock' = [lock EXCEPT !.stale = TRUE]
        /\ UNCHANGED <<doc, archive, job, issued, recorded, excuse>>
    BY <1>3 DEF SD!Ages
  <2>2. lock \in Lock /\ lock' \in Lock /\ lock'.by = lock.by
    BY <1>1, <2>1 DEF Lock
  <2> QED
    BY <1>1, <2>1, <2>2, Others
<1>4. CASE SD!AgentWrites
  <2>1. UNCHANGED <<doc, archive, lock, job, issued, recorded, excuse>>
    BY <1>4 DEF SD!AgentWrites
  <2> QED
    BY <1>1, <2>1, Others
<1>5. CASE UNCHANGED SD!vars
  <2>1. UNCHANGED <<doc, archive, lock, job, issued, recorded, excuse>>
    BY <1>5 DEF SD!vars
  <2> QED
    BY <1>1, <2>1, Others
<1> QED
    BY <1>2, <1>3, <1>4, <1>5

\* What the document had and has no more was resolved, or is to be archived.
LEMMA WriteStep == ASSUME StateInv, NEW p \in Procs, SD!Write(p) PROVE StateInv'
<1> USE DEF doc, archive, signal, lock, disk, job, issued, faults, recorded, excuse
<1> DEFINE j == job[p]
           new == SD!Transform(j.seen, j)
           lines == IF j.op = "prune" THEN SD!Old(j.seen, j.num) ELSE {}
           k == [j EXCEPT !.pc = "wrote", !.seen = SD!InitDoc, !.lines = lines]
           resolved == IF j.op = "resolve" THEN j.seen.entries \ new.entries ELSE {}
<1>1. /\ j.pc = IF j.op = "sync" THEN "locked" ELSE "read"
      /\ doc' = new /\ job' = [job EXCEPT ![p] = k]
      /\ recorded' = (recorded \ resolved) \cup (new.entries \ j.seen.entries)
      /\ excuse' = excuse \cup (IF j.op = "sync" /\ doc.entries # new.entries THEN {"sync"} ELSE {})
      /\ UNCHANGED <<archive, lock, issued>>
    BY DEF SD!Write, SD!Set
<1>2. /\ DOMAIN k = JobFields /\ k.pc = "wrote" /\ k.id = j.id /\ k.op = j.op
      /\ k.seen = SD!InitDoc /\ k.lines = lines
    BY Fields DEF JobFields
<1>3. /\ "entries" \in DOMAIN j.seen /\ j.op \in SD!PhaseOps \cup SD!OtherOps
      /\ j.lines = {} /\ j.pc \in {"locked", "read"}
    BY <1>1, Fields DEF StateInv, Numbered, LinesWait
<1>4. j.op = "sync" => new = j.seen
    BY DEF SD!Transform
<1>5. /\ j.op # "sync" =>
            /\ "entries" \in DOMAIN new
            /\ j.op \notin {"resolve", "prune"} => j.seen.entries \subseteq new.entries
            /\ j.op = "prune" => j.seen.entries \ new.entries \subseteq lines
    BY <1>3, Transforms
<1>6. j.op # "sync" /\ "stolen" \notin excuse => j.seen = doc
    BY <1>1 DEF StateInv, ReadIsCurrent
<1> HIDE DEF k, new, lines
<1>7. DOMAIN job' = Procs /\ job'[p] = k /\ \A q \in Procs \ {p} : job'[q] = job[q]
    BY <1>1 DEF StateInv, Shapes
<1>8. Shapes'
    BY <1>1, <1>2, <1>3, <1>4, <1>5, <1>7, IdleFields DEF StateInv, Shapes
<1>9. Numbered' /\ LinesWait'
    BY <1>1, <1>2, <1>3, <1>7 DEF StateInv, Numbered, LinesWait, States
<1>10. "stolen" \notin excuse' => "stolen" \notin excuse
    BY <1>1
<1>11. HoldersHold'
    BY <1>1, <1>2, <1>3, <1>7, <1>10 DEF StateInv, HoldersHold, SD!Holding
<1>12. "stolen" \notin excuse => \A q \in Procs \ {p} : job[q].pc # "read"
    BY <1>3 DEF StateInv, HoldersHold, Numbered, SD!Holding
<1>13. ReadIsCurrent'
    BY <1>2, <1>7, <1>10, <1>12 DEF ReadIsCurrent
<1>14. ASSUME excuse' = {}
       PROVE  recorded' \subseteq doc'.entries \cup archive' \cup UNION {job'[q].lines : q \in Procs}
  <2>1. excuse = {} /\ (j.op = "sync" => doc.entries = new.entries)
    BY <1>1, <1>14
  <2>2. recorded \subseteq doc.entries \cup archive \cup UNION {job[q].lines : q \in Procs}
    BY <2>1 DEF StateInv, SD!RecordedSurvives
  <2>3. /\ UNION {job[q].lines : q \in Procs} \subseteq UNION {job'[q].lines : q \in Procs}
        /\ lines \subseteq UNION {job'[q].lines : q \in Procs}
    BY <1>2, <1>3, <1>7
  <2>4. doc.entries \subseteq new.entries \cup lines \cup resolved
    BY <1>3, <1>5, <1>6, <2>1
  <2> QED
    BY <1>1, <2>2, <2>3, <2>4
<1>15. SD!RecordedSurvives'
    BY <1>14 DEF SD!RecordedSurvives
<1> QED
    BY <1>8, <1>9, <1>11, <1>13, <1>15 DEF StateInv

-----------------------------------------------------------------------------
(* The theorem. *)

LEMMA StateStep == StateInv /\ [SD!Next]_(SD!vars) => StateInv'
<1> SUFFICES ASSUME StateInv, [SD!Next]_(SD!vars) PROVE StateInv'
    OBVIOUS
<1>1. ASSUME NEW p \in Procs,
             \/ SD!Start(p) \/ SD!Acquire(p) \/ SD!FindsStale(p) \/ SD!UnlinksStale(p) \/ SD!GivesUp(p)
             \/ SD!Read(p) \/ SD!Write(p) \/ SD!Release(p) \/ SD!ReadArchive(p) \/ SD!WriteArchive(p)
             \/ SD!Crash(p)
      PROVE  StateInv'
    BY <1>1, StartStep, AcquireStep, WaitsStep, UnlinksStaleStep, ReadStep, WriteStep, ReleaseStep,
       ArchiveStep, StateCrashStep
<1> QED
    BY <1>1, OtherSteps DEF SD!Next

LEMMA StateAnswers == StateInv => SD!OneWriter /\ SD!RecordedSurvives
<1> SUFFICES ASSUME StateInv PROVE SD!OneWriter /\ SD!RecordedSurvives
    OBVIOUS
<1>1. SD!OneWriter
    BY DEF StateInv, HoldersHold, Numbered, SD!OneWriter, SD!Holding, job, lock, excuse
<1> QED
    BY <1>1 DEF StateInv

-----------------------------------------------------------------------------
(***************************************************************************)
(* The worktrees: what an agent made survives cleanup and reaper.          *)
(***************************************************************************)
\* The part's variables, by their names in Worktrees.
trunk == v1
merging == v2
rescued == v3
branch == v4
tree == v5
cleanup == v6
reaper == v7
cleanups == v8
slips == v9
made == v10
settled == v11
losses == v12

-----------------------------------------------------------------------------
(* The invariant. *)

Cleanup == [pc : {"idle", "verify", "deletions", "rescue", "status", "merge", "remove", "delete"},
            at : 0..Len(Manifest), kept : BOOLEAN, entry : Agents \cup {"none"}, reason : WT!Reasons]
Reaper == [pc : {"idle", "judge", "reap"}, tip : SUBSET (Agents \X WT!Whats), agent : Agents \cup {"none"}]

ReaperType == reaper \in Reaper /\ (reaper.pc = "reap" => reaper.agent \in Agents)

WorktreesType ==
    /\ trunk \subseteq Agents \X WT!Whats
    /\ rescued \in [Agents -> Nat] /\ tree \in [Agents -> WT!Tree]
    /\ DOMAIN branch \subseteq Agents /\ branch \in [DOMAIN branch -> SUBSET WT!Whats]
    /\ cleanup \in Cleanup /\ (cleanup.pc # "idle" => cleanup.at # 0)
    /\ ReaperType

\* No SUMMARY is rescued before it is written.
NoneAhead == \A a \in Agents : rescued[a] <= tree[a].draft

\* What the cleanup has looked at is as it was then, unless the agent went on.
SummaryKept ==
    cleanup.pc = "status" /\ cleanup.kept = TRUE => rescued[WT!Entry] = tree[WT!Entry].draft
NothingLeft ==
    cleanup.pc \in {"merge", "remove", "delete"} =>
        tree[WT!Entry].dirty = {} /\ rescued[WT!Entry] = tree[WT!Entry].draft
Merged ==
    cleanup.pc \in {"remove", "delete"} => {WT!Entry} \X branch[WT!Entry] \subseteq trunk
LookedAt ==
    /\ cleanup.pc \notin {"idle", "verify"} => WT!Entry \in DOMAIN branch
    /\ losses = {} => SummaryKept /\ NothingLeft /\ Merged

WorktreesInv == WorktreesType /\ NoneAhead /\ LookedAt /\ WT!WorkSurvives

LEMMA WorktreeFacts ==
    /\ MaxDrafts \in Nat /\ Manifest \in Seq(Agents) /\ Len(Manifest) \in Nat /\ Len(Manifest) > 0
    /\ \A n \in 1..Len(Manifest) : Manifest[n] \in Agents
BY DocumentConstants DEF WT!WorktreeConstants

LEMMA EntryIsAgent == WorktreesInv /\ cleanup.pc # "idle" => WT!Entry \in Agents
BY WorktreeFacts DEF WorktreesInv, WorktreesType, Cleanup, WT!Entry, cleanup

LEMMA WorktreesInit == WT!Init => WorktreesInv
<1> SUFFICES ASSUME WT!Init PROVE WorktreesInv
    OBVIOUS
<1> USE DEF trunk, merging, rescued, branch, tree, cleanup, reaper, cleanups, slips, made, settled, losses
<1>1. /\ WT!Asleep \in Cleanup /\ WT!Asleep.pc = "idle" /\ WT!NoReaper \in Reaper
      /\ WT!NoReaper.pc = "idle"
    BY WorktreeFacts DEF WT!Asleep, Cleanup, WT!NoReaper, Reaper, WT!Reasons
<1>2. [at |-> "there", dirty |-> {}, draft |-> 0, locked |-> "fresh", alive |-> TRUE] \in WT!Tree
    BY DocumentConstants DEF WT!Tree, WT!WorktreeConstants
<1>3. /\ trunk = {} /\ cleanup = WT!Asleep /\ reaper = WT!NoReaper /\ made = {}
      /\ rescued = [a \in Agents |-> 0] /\ branch = [a \in Agents |-> {}]
      /\ tree = [a \in Agents |->
                   [at |-> "there", dirty |-> {}, draft |-> 0, locked |-> "fresh", alive |-> TRUE]]
    BY DEF WT!Init
<1>4. WorktreesType
    BY <1>1, <1>2, <1>3 DEF WorktreesType, ReaperType
<1>5. NoneAhead /\ LookedAt
    BY <1>1, <1>3 DEF NoneAhead, LookedAt, SummaryKept, NothingLeft, Merged
<1>6. WT!WorkSurvives
    BY <1>3 DEF WT!WorkSurvives
<1> QED
    BY <1>4, <1>5, <1>6 DEF WorktreesInv

-----------------------------------------------------------------------------
(* The agents. *)

LEMMA MyTree ==
    ASSUME WorktreesInv, NEW a \in Agents
    PROVE  /\ tree[a] \in WT!Tree /\ tree[a].draft \in Nat /\ rescued[a] \in Nat
           /\ rescued[a] <= tree[a].draft /\ tree[a].dirty \in SUBSET WT!Whats
BY DocumentConstants DEF WorktreesInv, WorktreesType, NoneAhead, WT!Tree, WT!WorktreeConstants

\* A worktree is changed, and so is the branch, by its agent.
LEMMA AgentStep ==
    ASSUME WorktreesInv, NEW a \in Agents, NEW t \in WT!Tree, tree' = [tree EXCEPT ![a] = t],
           UNCHANGED <<trunk, rescued, cleanup>>, reaper' = reaper \/ ReaperType',
           losses \subseteq losses',
           DOMAIN branch' = DOMAIN branch, branch' \in [DOMAIN branch -> SUBSET WT!Whats],
           \A b \in DOMAIN branch \ {a} : branch'[b] = branch[b],
           a \in DOMAIN branch => branch[a] \subseteq branch'[a],
           t.draft >= tree[a].draft,
           made' \in {made, made \cup {a}},
           losses' = {} =>
              /\ t.at = "there" \/ rescued[a] = t.draft
              /\ a \in made' =>
                    \/ <<a, "change">> \in trunk \/ (a \in DOMAIN branch /\ "change" \in branch'[a])
                    \/ t.at = "there" /\ "change" \in t.dirty
              /\ cleanup.pc \in {"merge", "remove", "delete"} /\ WT!Entry = a =>
                    t.dirty = tree[a].dirty /\ (a \in DOMAIN branch => branch'[a] = branch[a])
              /\ cleanup.pc \in {"status", "merge", "remove", "delete"} /\ WT!Entry = a =>
                    t.draft = tree[a].draft
    PROVE  WorktreesInv'
<1> USE DEF trunk, merging, rescued, branch, tree, cleanup, reaper, cleanups, slips, made, settled, losses
<1>1. tree' \in [Agents -> WT!Tree] /\ tree'[a] = t /\ \A b \in Agents \ {a} : tree'[b] = tree[b]
    BY DEF WorktreesInv, WorktreesType, ReaperType
<1>2. WorktreesType'
    BY <1>1 DEF WorktreesInv, WorktreesType, ReaperType
<1>3. rescued[a] <= t.draft
    BY MyTree, DocumentConstants DEF WT!Tree, WT!WorktreeConstants
<1>4. NoneAhead'
    BY <1>1, <1>3 DEF WorktreesInv, NoneAhead
<1>5. WT!Entry' = WT!Entry
    BY DEF WT!Entry
<1>6. LookedAt'
  <2>1. cleanup.pc \notin {"idle", "verify"} => WT!Entry \in DOMAIN branch
    BY DEF WorktreesInv, LookedAt
  <2>2. ASSUME losses' = {}, cleanup.pc # "idle" PROVE SummaryKept' /\ NothingLeft' /\ Merged'
    <3>1. losses = {} /\ WT!Entry \in Agents
      BY <2>2, EntryIsAgent
    <3>2. SummaryKept /\ NothingLeft /\ Merged
      BY <3>1 DEF WorktreesInv, LookedAt
    <3>3. SummaryKept'
      BY <1>1, <1>5, <2>2, <3>1, <3>2 DEF SummaryKept
    <3>4. NothingLeft'
      BY <1>1, <1>5, <2>2, <3>1, <3>2 DEF NothingLeft
    <3>5. Merged'
      BY <1>5, <2>1, <2>2, <3>1, <3>2 DEF Merged
    <3> QED
      BY <3>3, <3>4, <3>5
  <2>3. ASSUME cleanup.pc = "idle" PROVE SummaryKept' /\ NothingLeft' /\ Merged'
    BY <2>3 DEF SummaryKept, NothingLeft, Merged
  <2> QED
    BY <1>5, <2>1, <2>2, <2>3 DEF LookedAt
<1>7. WT!WorkSurvives'
  <2>1. SUFFICES ASSUME losses' = {}, NEW b \in Agents
                 PROVE  /\ b \in made' => WT!Kept(b)'
                        /\ tree'[b].at = "there" \/ rescued'[b] = tree'[b].draft
    BY DEF WT!WorkSurvives
  <2>2. losses = {}
    BY <2>1
  <2>3. CASE b = a
    BY <1>1, <2>1, <2>3 DEF WT!Kept
  <2>4. CASE b # a
    BY <1>1, <2>1, <2>2, <2>4 DEF WorktreesInv, WT!WorkSurvives, WT!Kept
  <2> QED
    BY <2>3, <2>4
<1> QED
    BY <1>2, <1>4, <1>6, <1>7 DEF WorktreesInv

\* What survived so far.
LEMMA Survived ==
    ASSUME WorktreesInv, NEW a \in Agents, losses = {}
    PROVE  /\ tree[a].at = "there" \/ rescued[a] = tree[a].draft
           /\ a \in made =>
                \/ <<a, "change">> \in trunk \/ (a \in DOMAIN branch /\ "change" \in branch[a])
                \/ tree[a].at = "there" /\ "change" \in tree[a].dirty
BY DEF WorktreesInv, WT!WorkSurvives, WT!Kept, trunk, rescued, branch, tree, made, losses

LEMMA WritesStep == ASSUME WorktreesInv, NEW a \in Agents, NEW what \in WT!Whats, WT!Writes(a, what)
                    PROVE  WorktreesInv'
<1> USE DEF trunk, merging, rescued, branch, tree, cleanup, reaper, cleanups, slips, made, settled, losses
<1> DEFINE t == [tree[a] EXCEPT !.dirty = @ \cup {what}]
<1>1. /\ tree[a].at = "there" /\ a \in DOMAIN branch
      /\ tree' = [tree EXCEPT ![a] = t]
      /\ made' = IF what = "change" THEN made \cup {a} ELSE made
      /\ WT!Notes(a, what)
      /\ UNCHANGED <<trunk, rescued, branch, cleanup, reaper>>
    BY DEF WT!Writes
<1>2. /\ t \in WT!Tree /\ t.at = "there" /\ t.draft = tree[a].draft /\ t.dirty = tree[a].dirty \cup {what}
    BY <1>1, MyTree DEF WT!Tree
<1> HIDE DEF t
<1>3. branch \in [DOMAIN branch -> SUBSET WT!Whats]
    BY DEF WorktreesInv, WorktreesType, ReaperType
<1>4. /\ losses \subseteq losses'
      /\ losses' = {} => ~(cleanup.pc \in {"merge", "remove", "delete"} /\ WT!Entry = a)
    BY <1>1 DEF WT!Notes, WT!Late, WT!Running
<1>5. ASSUME losses' = {}, a \in made'
      PROVE  \/ <<a, "change">> \in trunk \/ "change" \in branch[a] \/ "change" \in t.dirty
  <2>1. losses = {}
    BY <1>4, <1>5
  <2> QED
    BY <1>1, <1>2, <1>5, <2>1, Survived
<1>6. t.draft >= tree[a].draft /\ made' \in {made, made \cup {a}}
    BY <1>1, <1>2, MyTree
<1> QED
    BY <1>1, <1>2, <1>3, <1>4, <1>5, <1>6, AgentStep

LEMMA CommitsStep == ASSUME WorktreesInv, NEW a \in Agents, WT!Commits(a) PROVE WorktreesInv'
<1> USE DEF trunk, merging, rescued, branch, tree, cleanup, reaper, cleanups, slips, made, settled, losses
<1> DEFINE t == [tree[a] EXCEPT !.dirty = {}]
<1>1. /\ tree[a].at = "there" /\ a \in DOMAIN branch
      /\ branch' = [branch EXCEPT ![a] = @ \cup tree[a].dirty]
      /\ tree' = [tree EXCEPT ![a] = t] /\ WT!Notes(a, "change")
      /\ UNCHANGED <<trunk, rescued, cleanup, reaper, made>>
    BY DEF WT!Commits
<1>2. /\ t \in WT!Tree /\ t.at = "there" /\ t.draft = tree[a].draft /\ t.dirty = {}
    BY <1>1, MyTree DEF WT!Tree
<1> HIDE DEF t
<1>3. branch \in [DOMAIN branch -> SUBSET WT!Whats] /\ tree[a].dirty \in SUBSET WT!Whats
    BY MyTree DEF WorktreesInv, WorktreesType, ReaperType
<1>4. /\ DOMAIN branch' = DOMAIN branch /\ branch' \in [DOMAIN branch -> SUBSET WT!Whats]
      /\ branch'[a] = branch[a] \cup tree[a].dirty
      /\ \A b \in DOMAIN branch \ {a} : branch'[b] = branch[b]
    BY <1>1, <1>3
<1>5. /\ losses \subseteq losses'
      /\ losses' = {} => ~(cleanup.pc \in {"merge", "remove", "delete"} /\ WT!Entry = a)
    BY <1>1 DEF WT!Notes, WT!Late, WT!Running
<1>6. ASSUME losses' = {}, a \in made' PROVE <<a, "change">> \in trunk \/ "change" \in branch'[a]
  <2>1. losses = {}
    BY <1>5, <1>6
  <2> QED
    BY <1>1, <1>4, <1>6, <2>1, Survived
<1>7. t.draft >= tree[a].draft
    BY <1>2, MyTree
<1> QED
    BY <1>1, <1>2, <1>4, <1>5, <1>6, <1>7, AgentStep

\* The branch stays, and so do the changes in the worktree.
LEMMA TreeStep ==
    ASSUME WorktreesInv, NEW a \in Agents, NEW t \in WT!Tree, tree' = [tree EXCEPT ![a] = t],
           UNCHANGED <<trunk, rescued, branch, cleanup, made>>, reaper' = reaper \/ ReaperType',
           losses \subseteq losses',
           t.dirty = tree[a].dirty, t.draft >= tree[a].draft,
           losses' = {} => /\ t.at = "there" \/ rescued[a] = t.draft
                           /\ t.at = "there" \/ tree[a].at # "there" \/ tree[a].dirty = {}
                           /\ cleanup.pc \in {"status", "merge", "remove", "delete"} /\ WT!Entry = a =>
                                t.draft = tree[a].draft
    PROVE  WorktreesInv'
<1> USE DEF trunk, merging, rescued, branch, tree, cleanup, reaper, cleanups, slips, made, settled, losses
<1>1. branch \in [DOMAIN branch -> SUBSET WT!Whats]
    BY DEF WorktreesInv, WorktreesType, ReaperType
<1>2. ASSUME losses' = {}, a \in made'
      PROVE  \/ <<a, "change">> \in trunk \/ (a \in DOMAIN branch /\ "change" \in branch'[a])
             \/ t.at = "there" /\ "change" \in t.dirty
  <2>1. losses = {}
    BY <1>2
  <2>2. \/ <<a, "change">> \in trunk \/ (a \in DOMAIN branch /\ "change" \in branch[a])
        \/ tree[a].at = "there" /\ "change" \in tree[a].dirty
    BY <1>2, <2>1, Survived
  <2> QED
    BY <1>2, <2>2
<1> QED
    BY <1>1, <1>2, AgentStep

LEMMA SummarisesStep == ASSUME WorktreesInv, NEW a \in Agents, WT!Summarises(a) PROVE WorktreesInv'
<1> USE DEF trunk, merging, rescued, branch, tree, cleanup, reaper, cleanups, slips, made, settled, losses
<1> DEFINE t == [tree[a] EXCEPT !.draft = @ + 1]
<1>1. /\ tree[a].at = "there" /\ tree[a].draft < MaxDrafts /\ tree' = [tree EXCEPT ![a] = t]
      /\ WT!Notes(a, "summary") /\ UNCHANGED <<trunk, rescued, branch, cleanup, reaper, made>>
    BY DEF WT!Summarises
<1>2. /\ t \in WT!Tree /\ t.at = "there" /\ t.draft = tree[a].draft + 1 /\ t.dirty = tree[a].dirty
  <2>1. tree[a] \in WT!Tree /\ tree[a].draft + 1 \in 0..MaxDrafts
    BY <1>1, MyTree, WorktreeFacts
  <2> QED
    BY <1>1, <2>1 DEF WT!Tree
<1> HIDE DEF t
<1>3. /\ losses \subseteq losses'
      /\ losses' = {} => ~(cleanup.pc \in {"status", "merge", "remove", "delete"} /\ WT!Entry = a)
    BY <1>1 DEF WT!Notes, WT!Late, WT!Running
<1>4. t.draft >= tree[a].draft
    BY <1>2, MyTree
<1> QED
    BY <1>1, <1>2, <1>3, <1>4, TreeStep

LEMMA DiesStep == ASSUME WorktreesInv, NEW a \in Agents, WT!Dies(a) \/ WT!Ages(a) PROVE WorktreesInv'
<1> USE DEF trunk, merging, rescued, branch, tree, cleanup, reaper, cleanups, slips, made, settled, losses
<1>1. /\ \/ tree' = [tree EXCEPT ![a] = [tree[a] EXCEPT !.alive = FALSE]]
         \/ tree' = [tree EXCEPT ![a] = [tree[a] EXCEPT !.locked = "old"]]
      /\ UNCHANGED <<trunk, rescued, branch, cleanup, reaper, made, losses>>
    BY DEF WT!Dies, WT!Ages
<1>2. PICK t : /\ tree' = [tree EXCEPT ![a] = t]
               /\ t \in {[tree[a] EXCEPT !.alive = FALSE], [tree[a] EXCEPT !.locked = "old"]}
    BY <1>1
<1>3. /\ t \in WT!Tree /\ t.at = tree[a].at /\ t.draft = tree[a].draft /\ t.dirty = tree[a].dirty
    BY <1>2, MyTree DEF WT!Tree
<1>4. t.draft >= tree[a].draft
    BY <1>3, MyTree
<1>5. losses' = {} => t.at = "there" \/ rescued[a] = t.draft
    BY <1>1, <1>3, Survived
<1> QED
    BY <1>1, <1>2, <1>3, <1>4, <1>5, TreeStep

LEMMA VanishesStep == ASSUME WorktreesInv, NEW a \in Agents, WT!Vanishes(a) PROVE WorktreesInv'
<1> USE DEF trunk, merging, rescued, branch, tree, cleanup, reaper, cleanups, slips, made, settled, losses
<1> DEFINE t == [tree[a] EXCEPT !.at = "missing"]
<1>1. /\ tree' = [tree EXCEPT ![a] = t]
      /\ losses' = losses \cup (IF tree[a].dirty # {} \/ tree[a].draft # rescued[a]
                                THEN {"vanished"} ELSE {})
      /\ UNCHANGED <<trunk, rescued, branch, cleanup, reaper, made>>
    BY DEF WT!Vanishes
<1>2. /\ t \in WT!Tree /\ t.at = "missing" /\ t.draft = tree[a].draft /\ t.dirty = tree[a].dirty
    BY MyTree DEF WT!Tree
<1> HIDE DEF t
<1>3. losses \subseteq losses' /\ (losses' = {} => tree[a].dirty = {} /\ tree[a].draft = rescued[a])
    BY <1>1
<1>4. t.draft >= tree[a].draft
    BY <1>2, MyTree
<1> QED
    BY <1>1, <1>2, <1>3, <1>4, TreeStep

-----------------------------------------------------------------------------
(* The cleanup. *)

LEMMA Asleep ==
    /\ WT!Asleep \in Cleanup /\ WT!Asleep.pc = "idle" /\ WT!Asleep.at = 0
    /\ \A e \in Agents, r \in WT!Reasons :
          /\ [WT!Asleep EXCEPT !.entry = e, !.reason = r] \in Cleanup
          /\ [WT!Asleep EXCEPT !.entry = e, !.reason = r].pc = "idle"
    /\ \A r \in WT!Reasons :
          [WT!Asleep EXCEPT !.reason = r] \in Cleanup /\ [WT!Asleep EXCEPT !.reason = r].pc = "idle"
    /\ \A r \in WT!Reasons :
          /\ [WT!Asleep EXCEPT !.pc = "verify", !.at = 1, !.reason = r] \in Cleanup
          /\ [WT!Asleep EXCEPT !.pc = "verify", !.at = 1, !.reason = r].pc = "verify"
          /\ [WT!Asleep EXCEPT !.pc = "verify", !.at = 1, !.reason = r].at = 1
<1>1. WT!Asleep \in Cleanup /\ WT!Asleep.pc = "idle" /\ WT!Asleep.at = 0
    BY WorktreeFacts DEF WT!Asleep, Cleanup, WT!Reasons
<1>2. 1 \in 0..Len(Manifest)
    BY WorktreeFacts
<1> QED
    BY <1>1, <1>2 DEF Cleanup

LEMMA Turning ==
    ASSUME WorktreesInv, cleanup.pc # "idle"
    PROVE  /\ \A pc \in {"verify", "deletions", "rescue", "status", "merge", "remove", "delete"} :
                 WT!Turns(pc) => /\ cleanup' \in Cleanup /\ cleanup'.pc = pc
                                 /\ cleanup'.at = cleanup.at /\ cleanup'.kept = cleanup.kept
           /\ \A reason \in WT!Reasons :
                 WT!Blocks(reason) => cleanup' \in Cleanup /\ cleanup'.pc = "idle"
           /\ \A reason \in WT!Reasons :
                 WT!NextEntry(reason) => /\ cleanup' \in Cleanup /\ cleanup'.pc \in {"idle", "verify"}
                                         /\ cleanup'.pc = "verify" => cleanup'.at # 0
<1> USE DEF cleanup
<1>1. cleanup \in Cleanup /\ cleanup.at # 0 /\ cleanup.at \in 0..Len(Manifest) /\ Len(Manifest) \in Nat
    BY WorktreeFacts DEF WorktreesInv, WorktreesType, Cleanup
<1>2. WT!Entry \in Agents
    BY EntryIsAgent
<1>3. ASSUME NEW pc \in {"verify", "deletions", "rescue", "status", "merge", "remove", "delete"}, WT!Turns(pc)
      PROVE  /\ cleanup' \in Cleanup /\ cleanup'.pc = pc
             /\ cleanup'.at = cleanup.at /\ cleanup'.kept = cleanup.kept
    BY <1>1, <1>3 DEF WT!Turns, Cleanup
<1>4. ASSUME NEW reason \in WT!Reasons, WT!Blocks(reason)
      PROVE  cleanup' \in Cleanup /\ cleanup'.pc = "idle"
    BY <1>2, <1>4, Asleep DEF WT!Blocks
<1>5. ASSUME NEW reason \in WT!Reasons, WT!NextEntry(reason)
      PROVE  /\ cleanup' \in Cleanup /\ cleanup'.pc \in {"idle", "verify"}
             /\ cleanup'.pc = "verify" => cleanup'.at # 0
  <2>1. CASE cleanup.at = Len(Manifest)
    BY <1>2, <1>5, <2>1, Asleep DEF WT!NextEntry
  <2>2. CASE cleanup.at # Len(Manifest)
    <3>1. cleanup.at + 1 \in 0..Len(Manifest) /\ cleanup.at + 1 # 0
      BY <1>1, <2>2
    <3>2. cleanup' = [cleanup EXCEPT !.pc = "verify", !.at = cleanup.at + 1, !.kept = FALSE, !.reason = reason]
      BY <1>5, <2>2 DEF WT!NextEntry
    <3> QED
      BY <1>1, <3>1, <3>2 DEF Cleanup
  <2> QED
    BY <2>1, <2>2
<1> QED
    BY <1>3, <1>4, <1>5

\* A step of the cleanup that leaves branches and worktrees alone.
LEMMA Turned ==
    ASSUME WorktreesInv, cleanup' \in Cleanup, cleanup'.pc # "idle" => cleanup'.at # 0,
           UNCHANGED <<branch, tree, reaper, made, losses>>,
           trunk \subseteq trunk', trunk' \subseteq Agents \X WT!Whats,
           rescued' \in [Agents -> Nat],
           \A a \in Agents : rescued'[a] \in {rescued[a], tree[a].draft},
           cleanup'.pc \notin {"idle", "verify"} => WT!Entry' \in DOMAIN branch,
           losses = {} => SummaryKept' /\ NothingLeft' /\ Merged'
    PROVE  WorktreesInv'
<1> USE DEF trunk, merging, rescued, branch, tree, cleanup, reaper, cleanups, slips, made, settled, losses
<1>1. WorktreesType'
    BY DEF WorktreesInv, WorktreesType, ReaperType
<1>2. NoneAhead'
  <2>1. SUFFICES ASSUME NEW a \in Agents PROVE rescued'[a] <= tree[a].draft
    BY DEF NoneAhead
  <2> QED
    BY MyTree
<1>3. LookedAt'
    BY DEF LookedAt
<1>4. WT!WorkSurvives'
  <2>1. SUFFICES ASSUME losses' = {}, NEW a \in Agents
                 PROVE  (a \in made' => WT!Kept(a)') /\ (tree[a].at = "there" \/ rescued'[a] = tree[a].draft)
    BY DEF WT!WorkSurvives
  <2>2. losses = {}
    BY <2>1
  <2> QED
    BY <2>1, <2>2, Survived DEF WT!Kept
<1> QED
    BY <1>1, <1>2, <1>3, <1>4 DEF WorktreesInv

LEMMA Kinds ==
    ASSUME WorktreesInv
    PROVE  /\ trunk \subseteq Agents \X WT!Whats /\ rescued \in [Agents -> Nat]
           /\ tree \in [Agents -> WT!Tree] /\ branch \in [DOMAIN branch -> SUBSET WT!Whats]
           /\ DOMAIN branch \subseteq Agents /\ cleanup \in Cleanup
           /\ (cleanup.pc # "idle" => cleanup.at # 0 /\ WT!Entry \in Agents)
           /\ (cleanup.pc \notin {"idle", "verify"} => WT!Entry \in DOMAIN branch)
BY EntryIsAgent DEF WorktreesInv, WorktreesType, LookedAt

LEMMA Unlooked ==
    cleanup'.pc \in {"idle", "verify", "deletions", "rescue"} => SummaryKept' /\ NothingLeft' /\ Merged'
BY DEF SummaryKept, NothingLeft, Merged, cleanup

LEMMA CleansStep == ASSUME WorktreesInv, WT!Cleans PROVE WorktreesInv'
<1> USE DEF trunk, merging, rescued, branch, tree, cleanup, reaper, cleanups, slips, made, settled, losses
<1>1. cleanup' = [WT!Asleep EXCEPT !.pc = "verify", !.at = 1, !.reason = "ok"]
      /\ UNCHANGED <<trunk, rescued, branch, tree, reaper, made, losses>>
    BY DEF WT!Cleans
<1>2. cleanup' \in Cleanup /\ cleanup'.pc = "verify" /\ cleanup'.at # 0
  <2>1. PICK r \in WT!Reasons : cleanup' = [WT!Asleep EXCEPT !.pc = "verify", !.at = 1, !.reason = r]
    BY <1>1 DEF WT!Reasons
  <2>2. /\ [WT!Asleep EXCEPT !.pc = "verify", !.at = 1, !.reason = r] \in Cleanup
        /\ [WT!Asleep EXCEPT !.pc = "verify", !.at = 1, !.reason = r].pc = "verify"
        /\ [WT!Asleep EXCEPT !.pc = "verify", !.at = 1, !.reason = r].at = 1
    BY Asleep, Zenon
  <2> QED
    BY <2>1, <2>2
<1> QED
    BY <1>1, <1>2, Kinds, Unlooked, Turned

LEMMA VerifyStep == ASSUME WorktreesInv, WT!Verify \/ WT!CheckDeletions PROVE WorktreesInv'
<1> USE DEF trunk, merging, rescued, branch, tree, cleanup, reaper, cleanups, slips, made, settled, losses
<1>1. cleanup.pc \in {"verify", "deletions"}
      /\ UNCHANGED <<trunk, rescued, branch, tree, reaper, made, losses>>
    BY DEF WT!Verify, WT!CheckDeletions, WT!Untouched
<1>2. \/ \E r \in WT!Reasons : WT!Blocks(r)
      \/ (WT!Turns("deletions") \/ WT!Turns("rescue")) /\ WT!Entry \in DOMAIN branch
  <2>1. {"branch_mismatch", "base_mismatch", "branch_contains_deletions"} \subseteq WT!Reasons
    BY DEF WT!Reasons
  <2>2. CASE WT!Verify
    BY <2>1, <2>2 DEF WT!Verify
  <2>3. CASE WT!CheckDeletions
    BY <2>1, <2>3 DEF WT!CheckDeletions, WorktreesInv, LookedAt
  <2> QED
    BY <2>2, <2>3
<1>3. cleanup' \in Cleanup /\ cleanup'.pc \in {"idle", "deletions", "rescue"}
      /\ (cleanup'.pc # "idle" => cleanup'.at = cleanup.at /\ WT!Entry \in DOMAIN branch)
    BY <1>1, <1>2, Turning
<1>4. cleanup'.pc # "idle" => cleanup'.at # 0 /\ WT!Entry' \in DOMAIN branch
    BY <1>1, <1>3 DEF WorktreesInv, WorktreesType, WT!Entry
<1> QED
    BY <1>1, <1>3, <1>4, Kinds, Unlooked, Turned

LEMMA RescueStep == ASSUME WorktreesInv, WT!Rescue PROVE WorktreesInv'
<1> USE DEF trunk, merging, rescued, branch, tree, cleanup, reaper, cleanups, slips, made, settled, losses
<1>1. cleanup.pc = "rescue" /\ UNCHANGED <<trunk, branch, tree, reaper, made, losses>>
    BY DEF WT!Rescue, WT!Untouched
<1>2. WT!Entry \in Agents /\ WT!Entry \in DOMAIN branch /\ cleanup.at # 0 /\ cleanup \in Cleanup
    BY <1>1, Kinds
<1> DEFINE keeps == tree[WT!Entry].at = "there" /\ tree[WT!Entry].draft > 0
           c == [cleanup EXCEPT !.pc = "status", !.kept = keeps]
<1>3. CASE /\ rescued' = IF keeps THEN [rescued EXCEPT ![WT!Entry] = tree[WT!Entry].draft] ELSE rescued
           /\ cleanup' = c
  <2>1. keeps \in BOOLEAN
    OBVIOUS
  <2>2. c \in Cleanup /\ c.pc = "status" /\ c.at = cleanup.at /\ c.kept = keeps
    BY <1>2, <2>1 DEF Cleanup
  <2>3. WT!Entry' = WT!Entry
    BY <1>3, <2>2 DEF WT!Entry
  <2>4. /\ rescued' \in [Agents -> Nat]
        /\ \A a \in Agents : rescued'[a] \in {rescued[a], tree[a].draft}
        /\ keeps => rescued'[WT!Entry] = tree[WT!Entry].draft
    BY <1>2, <1>3, Kinds, MyTree
  <2>5. SummaryKept' /\ NothingLeft' /\ Merged'
    BY <1>1, <1>3, <2>2, <2>3, <2>4 DEF SummaryKept, NothingLeft, Merged
  <2> HIDE DEF c
  <2> QED
    BY <1>1, <1>2, <1>3, <2>2, <2>3, <2>4, <2>5, Kinds, Turned
<1>4. CASE WT!Blocks("summary_rescue_failed") /\ UNCHANGED rescued
  <2>1. cleanup' \in Cleanup /\ cleanup'.pc = "idle"
    BY <1>1, <1>4, Turning DEF WT!Reasons
  <2> QED
    BY <1>1, <1>4, <2>1, Kinds, Unlooked, Turned
<1> QED
    BY <1>3, <1>4 DEF WT!Rescue

LEMMA CheckStatusStep == ASSUME WorktreesInv, WT!CheckStatus PROVE WorktreesInv'
<1> USE DEF trunk, merging, rescued, branch, tree, cleanup, reaper, cleanups, slips, made, settled, losses
<1> DEFINE t == tree[WT!Entry]
<1>1. cleanup.pc = "status" /\ UNCHANGED <<trunk, rescued, branch, tree, reaper, made, losses>>
    BY DEF WT!CheckStatus, WT!Untouched
<1>2. WT!Entry \in Agents /\ WT!Entry \in DOMAIN branch /\ cleanup.at # 0 /\ cleanup \in Cleanup
    BY <1>1, Kinds
<1>3. CASE WT!Turns("merge") /\ t.dirty = {} /\ (t.draft > 0 => cleanup.kept)
  <2>1. cleanup' \in Cleanup /\ cleanup'.pc = "merge" /\ cleanup'.at = cleanup.at
    BY <1>1, <1>3, Turning
  <2>2. WT!Entry' = WT!Entry
    BY <2>1 DEF WT!Entry
  <2>3. losses = {} => rescued[WT!Entry] = t.draft
    <3>1. t.draft \in Nat /\ rescued[WT!Entry] \in Nat /\ rescued[WT!Entry] <= t.draft
      BY <1>2, MyTree
    <3>2. t.draft > 0 => cleanup.kept = TRUE
      BY <1>2, <1>3 DEF Cleanup
    <3>3. losses = {} => SummaryKept
      BY DEF WorktreesInv, LookedAt
    <3> QED
      BY <1>1, <3>1, <3>2, <3>3 DEF SummaryKept
  <2>4. losses = {} => SummaryKept' /\ NothingLeft' /\ Merged'
    BY <1>1, <1>3, <2>1, <2>2, <2>3 DEF SummaryKept, NothingLeft, Merged
  <2> QED
    BY <1>1, <1>2, <2>1, <2>2, <2>4, Kinds, Turned
<1>4. CASE WT!Blocks("worktree_dirty")
  <2>1. cleanup' \in Cleanup /\ cleanup'.pc = "idle"
    BY <1>1, <1>4, Turning DEF WT!Reasons
  <2> QED
    BY <1>1, <2>1, Kinds, Unlooked, Turned
<1> QED
    BY <1>3, <1>4 DEF WT!CheckStatus

LEMMA MergeStep == ASSUME WorktreesInv, WT!Merge PROVE WorktreesInv'
<1> USE DEF trunk, merging, rescued, branch, tree, cleanup, reaper, cleanups, slips, made, settled, losses
<1>1. cleanup.pc = "merge" /\ UNCHANGED <<rescued, branch, tree, reaper, made, losses>>
    BY DEF WT!Merge, WT!Untouched
<1>2. /\ WT!Entry \in Agents /\ WT!Entry \in DOMAIN branch /\ cleanup.at # 0 /\ cleanup \in Cleanup
      /\ branch[WT!Entry] \subseteq WT!Whats
    BY <1>1, Kinds
<1>3. CASE WT!Turns("remove") /\ trunk' = trunk \cup ({WT!Entry} \X branch[WT!Entry])
  <2>1. cleanup' \in Cleanup /\ cleanup'.pc = "remove" /\ cleanup'.at = cleanup.at
    BY <1>1, <1>3, Turning
  <2>2. WT!Entry' = WT!Entry
    BY <2>1 DEF WT!Entry
  <2>3. trunk \subseteq trunk' /\ trunk' \subseteq Agents \X WT!Whats
    BY <1>2, <1>3, Kinds
  <2>4. losses = {} => SummaryKept' /\ NothingLeft' /\ Merged'
    <3>1. losses = {} => NothingLeft
      BY DEF WorktreesInv, LookedAt
    <3> QED
      BY <1>1, <1>3, <2>1, <2>2, <3>1 DEF SummaryKept, NothingLeft, Merged
  <2> QED
    BY <1>1, <1>2, <2>1, <2>2, <2>3, <2>4, Kinds, Turned
<1>4. CASE WT!Blocks("merge_failed") /\ UNCHANGED trunk
  <2>1. cleanup' \in Cleanup /\ cleanup'.pc = "idle"
    BY <1>1, <1>4, Turning DEF WT!Reasons
  <2> QED
    BY <1>1, <1>4, <2>1, Kinds, Unlooked, Turned
<1> QED
    BY <1>3, <1>4 DEF WT!Merge

LEMMA RemoveStep == ASSUME WorktreesInv, WT!Remove PROVE WorktreesInv'
<1> USE DEF trunk, merging, rescued, branch, tree, cleanup, reaper, cleanups, slips, made, settled, losses
<1> DEFINE e == WT!Entry
           gone == [tree[e] EXCEPT !.at = "gone", !.locked = "no"]
           loose == [tree[e] EXCEPT !.locked = "no"]
<1>1. cleanup.pc = "remove" /\ UNCHANGED <<trunk, rescued, branch, reaper, made, losses>>
    BY DEF WT!Remove, WT!Untouched
<1>2. /\ e \in Agents /\ e \in DOMAIN branch /\ cleanup.at # 0 /\ cleanup \in Cleanup
      /\ tree[e] \in WT!Tree /\ tree \in [Agents -> WT!Tree]
    BY <1>1, Kinds, MyTree
<1>3. \/ WT!Turns("delete") /\ tree' = [tree EXCEPT ![e] = gone]
      \/ WT!Blocks("worktree_remove_failed") /\ tree' = [tree EXCEPT ![e] = loose]
    BY <1>2 DEF WT!Remove
<1>4. /\ cleanup' \in Cleanup
      /\ \/ WT!Turns("delete") /\ cleanup'.pc = "delete" /\ cleanup'.at = cleanup.at
         \/ WT!Blocks("worktree_remove_failed") /\ cleanup'.pc = "idle"
    BY <1>1, <1>3, Turning DEF WT!Reasons
<1>5. /\ gone \in WT!Tree /\ gone.draft = tree[e].draft /\ gone.dirty = tree[e].dirty
      /\ loose \in WT!Tree /\ loose.at = tree[e].at /\ loose.draft = tree[e].draft
      /\ loose.dirty = tree[e].dirty
    BY <1>2 DEF WT!Tree
<1> HIDE DEF gone, loose
<1>6. PICK t \in WT!Tree : /\ tree' = [tree EXCEPT ![e] = t]
                           /\ t.draft = tree[e].draft /\ t.dirty = tree[e].dirty
                           /\ t.at = tree[e].at \/ cleanup.pc = "remove"
    BY <1>1, <1>3, <1>5
<1> HIDE DEF e
<1>7. /\ tree' \in [Agents -> WT!Tree] /\ tree'[e] = t /\ \A b \in Agents \ {e} : tree'[b] = tree[b]
    BY <1>2, <1>6
<1>8. losses = {} => /\ tree[e].dirty = {} /\ rescued[e] = tree[e].draft
                     /\ {e} \X branch[e] \subseteq trunk
    BY <1>1 DEF WorktreesInv, LookedAt, NothingLeft, Merged, e
<1>9. WorktreesType'
    BY <1>1, <1>2, <1>4, <1>7 DEF WorktreesInv, WorktreesType, ReaperType
<1>10. NoneAhead'
    BY <1>1, <1>6, <1>7 DEF WorktreesInv, NoneAhead
<1>11. LookedAt'
  <2>1. CASE cleanup'.pc = "idle"
    BY <2>1 DEF LookedAt, SummaryKept, NothingLeft, Merged
  <2>2. CASE cleanup'.pc = "delete" /\ cleanup'.at = cleanup.at
    <3>1. WT!Entry' = e
      BY <2>2 DEF WT!Entry, e
    <3> QED
      BY <1>1, <1>2, <1>6, <1>7, <1>8, <2>2, <3>1 DEF LookedAt, SummaryKept, NothingLeft, Merged
  <2> QED
    BY <1>4, <2>1, <2>2
<1>12. WT!WorkSurvives'
  <2>1. SUFFICES ASSUME losses' = {}, NEW a \in Agents
                 PROVE  /\ a \in made' => WT!Kept(a)'
                        /\ tree'[a].at = "there" \/ rescued'[a] = tree'[a].draft
    BY DEF WT!WorkSurvives
  <2>2. losses = {}
    BY <1>1, <2>1
  <2>3. /\ tree[a].at = "there" \/ rescued[a] = tree[a].draft
        /\ a \in made =>
             \/ <<a, "change">> \in trunk \/ (a \in DOMAIN branch /\ "change" \in branch[a])
             \/ tree[a].at = "there" /\ "change" \in tree[a].dirty
    BY <2>2, Survived
  <2>4. CASE a = e
    BY <1>1, <1>2, <1>6, <1>7, <1>8, <2>2, <2>3, <2>4 DEF WT!Kept
  <2>5. CASE a # e
    BY <1>1, <1>7, <2>3, <2>5 DEF WT!Kept
  <2> QED
    BY <2>4, <2>5
<1> QED
    BY <1>9, <1>10, <1>11, <1>12 DEF WorktreesInv

LEMMA DeleteBranchStep == ASSUME WorktreesInv, WT!DeleteBranch PROVE WorktreesInv'
<1> USE DEF trunk, merging, rescued, branch, tree, cleanup, reaper, cleanups, slips, made, settled, losses
<1> DEFINE e == WT!Entry
<1>1. cleanup.pc = "delete" /\ UNCHANGED <<trunk, rescued, tree, reaper, made, losses>>
    BY DEF WT!DeleteBranch, WT!Untouched
<1>2. e \in Agents /\ cleanup \in Cleanup /\ branch \in [DOMAIN branch -> SUBSET WT!Whats]
      /\ DOMAIN branch \subseteq Agents
    BY <1>1, Kinds
<1>3. /\ cleanup' \in Cleanup /\ cleanup'.pc \in {"idle", "verify"}
      /\ (cleanup'.pc = "verify" => cleanup'.at # 0)
  <2>1. PICK r \in WT!Reasons : WT!NextEntry(r)
    BY <1>2 DEF WT!DeleteBranch, WT!Reasons, Cleanup
  <2> QED
    BY <1>1, <2>1, Turning
<1>4. /\ DOMAIN branch' \subseteq DOMAIN branch /\ branch' \in [DOMAIN branch' -> SUBSET WT!Whats]
      /\ \A a \in DOMAIN branch \ {e} : a \in DOMAIN branch' /\ branch'[a] = branch[a]
      /\ e \in DOMAIN branch' => branch'[e] = branch[e]
    BY <1>2 DEF WT!DeleteBranch
<1> HIDE DEF e
<1>5. losses = {} => {e} \X branch[e] \subseteq trunk
    BY <1>1 DEF WorktreesInv, LookedAt, Merged, e
<1>6. WorktreesType'
    BY <1>1, <1>2, <1>3, <1>4 DEF WorktreesInv, WorktreesType, ReaperType
<1>7. NoneAhead' /\ LookedAt'
    BY <1>1, <1>3 DEF WorktreesInv, NoneAhead, LookedAt, SummaryKept, NothingLeft, Merged
<1>8. WT!WorkSurvives'
  <2>1. SUFFICES ASSUME losses' = {}, NEW a \in Agents
                 PROVE  /\ a \in made' => WT!Kept(a)'
                        /\ tree'[a].at = "there" \/ rescued'[a] = tree'[a].draft
    BY DEF WT!WorkSurvives
  <2>2. losses = {}
    BY <1>1, <2>1
  <2>3. /\ tree[a].at = "there" \/ rescued[a] = tree[a].draft
        /\ a \in made =>
             \/ <<a, "change">> \in trunk \/ (a \in DOMAIN branch /\ "change" \in branch[a])
             \/ tree[a].at = "there" /\ "change" \in tree[a].dirty
    BY <2>2, Survived
  <2>4. CASE a = e
    BY <1>1, <1>4, <1>5, <2>2, <2>3, <2>4 DEF WT!Kept
  <2>5. CASE a # e
    BY <1>1, <1>4, <2>3, <2>5 DEF WT!Kept
  <2> QED
    BY <2>4, <2>5
<1> QED
    BY <1>6, <1>7, <1>8 DEF WorktreesInv

\* Whoever resolves keeps the changes and takes the deletion back.
LEMMA ResolvesStep == ASSUME WorktreesInv, WT!Resolves PROVE WorktreesInv'
<1> USE DEF trunk, merging, rescued, branch, tree, cleanup, reaper, cleanups, slips, made, settled, losses
<1> DEFINE e == cleanup.entry
           t == [tree[e] EXCEPT !.dirty = {}]
<1>1. /\ e \in Agents /\ cleanup' = WT!Asleep
      /\ UNCHANGED <<trunk, rescued, reaper, made, losses>>
    BY DEF WT!Resolves
<1> HIDE DEF e
<1>2. cleanup' \in Cleanup /\ cleanup'.pc = "idle"
    BY <1>1, Asleep
<1>3. CASE UNCHANGED <<branch, tree>>
    BY <1>1, <1>2, <1>3, Kinds, Unlooked, Turned
<1>4. CASE /\ e \in DOMAIN branch
           /\ branch' = [branch EXCEPT ![e] = (@ \cup tree[e].dirty) \ {"deletion"}]
           /\ tree' = [tree EXCEPT ![e] = t]
  <2>1. /\ t \in WT!Tree /\ t.at = tree[e].at /\ t.draft = tree[e].draft
        /\ tree[e].dirty \in SUBSET WT!Whats
    BY <1>1, MyTree DEF WT!Tree
  <2> HIDE DEF t
  <2>2. /\ tree' \in [Agents -> WT!Tree] /\ tree'[e] = t /\ \A a \in Agents \ {e} : tree'[a] = tree[a]
        /\ DOMAIN branch' = DOMAIN branch /\ DOMAIN branch \subseteq Agents
        /\ branch' \in [DOMAIN branch -> SUBSET WT!Whats]
        /\ branch'[e] = (branch[e] \cup tree[e].dirty) \ {"deletion"}
        /\ \A a \in DOMAIN branch \ {e} : branch'[a] = branch[a]
    BY <1>1, <1>4, <2>1, Kinds
  <2>3. WorktreesType'
    BY <1>1, <1>2, <2>2 DEF WorktreesInv, WorktreesType, ReaperType
  <2>4. NoneAhead'
    BY <1>1, <2>1, <2>2 DEF WorktreesInv, NoneAhead
  <2>5. LookedAt'
    BY <1>2, Unlooked DEF LookedAt
  <2>6. WT!WorkSurvives'
    <3>1. SUFFICES ASSUME losses' = {}, NEW a \in Agents
                   PROVE  /\ a \in made' => WT!Kept(a)'
                          /\ tree'[a].at = "there" \/ rescued'[a] = tree'[a].draft
      BY DEF WT!WorkSurvives
    <3>2. losses = {}
      BY <1>1, <3>1
    <3>3. /\ tree[a].at = "there" \/ rescued[a] = tree[a].draft
          /\ a \in made =>
               \/ <<a, "change">> \in trunk \/ (a \in DOMAIN branch /\ "change" \in branch[a])
               \/ tree[a].at = "there" /\ "change" \in tree[a].dirty
      BY <3>2, Survived
    <3>4. CASE a = e
      BY <1>1, <1>4, <2>1, <2>2, <3>3, <3>4 DEF WT!Kept
    <3>5. CASE a # e
      BY <1>1, <2>2, <3>3, <3>5 DEF WT!Kept
    <3> QED
      BY <3>4, <3>5
  <2> QED
    BY <2>3, <2>4, <2>5, <2>6 DEF WorktreesInv
<1> QED
    BY <1>3, <1>4 DEF WT!Resolves, e, t

-----------------------------------------------------------------------------
(* The reaper. *)

LEMMA ReapStep == ASSUME WorktreesInv, WT!Reap PROVE WorktreesInv'
<1> USE DEF trunk, merging, rescued, branch, tree, cleanup, reaper, cleanups, slips, made, settled, losses
<1> DEFINE a == reaper.agent
           gone == [tree[a] EXCEPT !.at = "gone", !.locked = "no"]
           loose == [tree[a] EXCEPT !.locked = "no"]
<1>1. /\ reaper.pc = "reap" /\ reaper' = [reaper EXCEPT !.pc = "judge", !.agent = "none"]
      /\ UNCHANGED <<trunk, rescued, branch, cleanup, made>>
    BY DEF WT!Reap
<1>2. a \in Agents /\ reaper \in Reaper
    BY <1>1 DEF WorktreesInv, WorktreesType, ReaperType
<1>3. ReaperType'
    BY <1>1, <1>2 DEF ReaperType, Reaper
<1>4. tree \in [Agents -> WT!Tree] /\ tree[a] \in WT!Tree /\ tree[a].draft \in Nat
    BY <1>2, Kinds, MyTree
<1>5. \/ /\ tree' = [tree EXCEPT ![a] = gone] /\ losses \subseteq losses'
         /\ losses' = {} => \/ tree[a].at # "there"
                            \/ tree[a].dirty = {} /\ tree[a].draft = rescued[a]
      \/ tree' = [tree EXCEPT ![a] = loose] /\ losses' = losses
    BY <1>4 DEF WT!Reap
<1>6. /\ gone \in WT!Tree /\ gone.draft = tree[a].draft /\ gone.dirty = tree[a].dirty
      /\ loose \in WT!Tree /\ loose.at = tree[a].at /\ loose.draft = tree[a].draft
      /\ loose.dirty = tree[a].dirty
    BY <1>4 DEF WT!Tree
<1> HIDE DEF gone, loose
<1> HIDE DEF a
<1>7. losses = {} => tree[a].at = "there" \/ rescued[a] = tree[a].draft
    BY <1>2, Survived
<1>8. PICK t \in WT!Tree :
          /\ tree' = [tree EXCEPT ![a] = t] /\ losses \subseteq losses'
          /\ t.dirty = tree[a].dirty /\ t.draft = tree[a].draft
          /\ losses' = {} => /\ t.at = "there" \/ rescued[a] = t.draft
                             /\ t.at = "there" \/ tree[a].at # "there" \/ tree[a].dirty = {}
    BY <1>5, <1>6, <1>7
<1>9. t.draft >= tree[a].draft
    BY <1>4, <1>8
<1> QED
    BY <1>1, <1>2, <1>3, <1>8, <1>9, TreeStep

LEMMA PruneStep == ASSUME WorktreesInv, WT!ReaperEnds \/ WT!Prune PROVE WorktreesInv'
<1> USE DEF trunk, merging, rescued, branch, tree, cleanup, reaper, cleanups, slips, made, settled, losses
<1>1. /\ tree' = WT!Pruned /\ (reaper' = reaper \/ reaper' = WT!NoReaper)
      /\ UNCHANGED <<trunk, rescued, branch, cleanup, made, losses>>
    BY DEF WT!ReaperEnds, WT!Prune
<1>2. ReaperType'
    BY <1>1 DEF WorktreesInv, WorktreesType, ReaperType, Reaper, WT!NoReaper
<1>3. ASSUME NEW a \in Agents
      PROVE  /\ WT!Pruned[a] \in WT!Tree /\ WT!Pruned[a].draft = tree[a].draft
             /\ WT!Pruned[a].dirty = tree[a].dirty
             /\ WT!Pruned[a].at = "there" <=> tree[a].at = "there"
  <2>1. tree[a] \in WT!Tree
    BY MyTree
  <2>2. CASE tree[a].at = "missing" /\ tree[a].locked = "no"
    <3>1. WT!Pruned[a] = [tree[a] EXCEPT !.at = "gone"]
      BY <2>2 DEF WT!Pruned
    <3> QED
      BY <2>1, <2>2, <3>1 DEF WT!Tree
  <2>3. CASE ~(tree[a].at = "missing" /\ tree[a].locked = "no")
    <3>1. WT!Pruned[a] = tree[a]
      BY <2>3 DEF WT!Pruned
    <3> QED
      BY <2>1, <3>1
  <2> QED
    BY <2>2, <2>3
<1>4. tree' \in [Agents -> WT!Tree]
  <2>1. WT!Pruned = [a \in Agents |-> WT!Pruned[a]]
    BY DEF WT!Pruned
  <2> QED
    BY <1>1, <1>3, <2>1
<1>5. \A a \in Agents : /\ tree'[a].draft = tree[a].draft /\ tree'[a].dirty = tree[a].dirty
                        /\ tree'[a].at = "there" <=> tree[a].at = "there"
    BY <1>1, <1>3
<1>6. WorktreesType'
    BY <1>1, <1>2, <1>4 DEF WorktreesInv, WorktreesType
<1>7. NoneAhead'
    BY <1>1, <1>5 DEF WorktreesInv, NoneAhead
<1>8. LookedAt'
  <2>1. WT!Entry' = WT!Entry /\ (cleanup.pc # "idle" => WT!Entry \in Agents)
    BY <1>1, EntryIsAgent DEF WT!Entry
  <2> QED
    BY <1>1, <1>5, <2>1 DEF WorktreesInv, LookedAt, SummaryKept, NothingLeft, Merged
<1>9. WT!WorkSurvives'
    BY <1>1, <1>5 DEF WorktreesInv, WT!WorkSurvives, WT!Kept
<1> QED
    BY <1>6, <1>7, <1>8, <1>9 DEF WorktreesInv

\* Only the reaper's own record changes.
LEMMA JudgeStep == ASSUME WorktreesInv, WT!Reaps \/ WT!Judge PROVE WorktreesInv'
<1> USE DEF trunk, merging, rescued, branch, tree, cleanup, reaper, cleanups, slips, made, settled, losses
<1>1. UNCHANGED <<trunk, rescued, branch, tree, cleanup, made, losses>>
    BY DEF WT!Reaps, WT!Judge
<1>2. ReaperType'
  <2>1. CASE WT!Reaps
    <3>1. WT!NoReaper = [pc |-> "idle", tip |-> {}, agent |-> "none"] /\ trunk \in SUBSET (Agents \X WT!Whats)
      BY Kinds DEF WT!NoReaper
    <3>2. reaper' = [pc |-> "judge", tip |-> trunk, agent |-> "none"]
      BY <2>1, <3>1 DEF WT!Reaps
    <3> QED
      BY <3>1, <3>2 DEF ReaperType, Reaper
  <2>2. CASE WT!Judge
    <3>1. PICK a \in Agents : reaper' = [reaper EXCEPT !.pc = "reap", !.agent = a]
      BY <2>2 DEF WT!Judge
    <3>2. reaper \in Reaper
      BY DEF WorktreesInv, WorktreesType, ReaperType
    <3> QED
      BY <3>1, <3>2 DEF ReaperType, Reaper
  <2> QED
    BY <2>1, <2>2
<1>3. WorktreesType'
    BY <1>1, <1>2 DEF WorktreesInv, WorktreesType
<1>4. WT!Entry' = WT!Entry
    BY <1>1 DEF WT!Entry
<1>5. NoneAhead' /\ LookedAt' /\ WT!WorkSurvives'
    BY <1>1, <1>4 DEF WorktreesInv, NoneAhead, LookedAt, SummaryKept, NothingLeft, Merged,
                      WT!WorkSurvives, WT!Kept
<1> QED
    BY <1>3, <1>5 DEF WorktreesInv

-----------------------------------------------------------------------------
LEMMA WorktreesStep == ASSUME WorktreesInv, WT!Next \/ UNCHANGED WT!worktreeVars PROVE WorktreesInv'
<1>1. CASE \E a \in Agents :
              \/ \E what \in WT!Whats : WT!Writes(a, what)
              \/ WT!Commits(a) \/ WT!Summarises(a) \/ WT!Dies(a) \/ WT!Ages(a) \/ WT!Vanishes(a)
    BY <1>1, WritesStep, CommitsStep, SummarisesStep, DiesStep, VanishesStep
<1>2. CASE \/ WT!Cleans \/ WT!Verify \/ WT!CheckDeletions \/ WT!Rescue \/ WT!CheckStatus
           \/ WT!Merge \/ WT!Remove \/ WT!DeleteBranch \/ WT!Resolves
    BY <1>2, CleansStep, VerifyStep, RescueStep, CheckStatusStep, MergeStep, RemoveStep,
       DeleteBranchStep, ResolvesStep
<1>3. CASE WT!Reaps \/ WT!Judge \/ WT!Reap \/ WT!ReaperEnds \/ WT!Prune
    BY <1>3, JudgeStep, ReapStep, PruneStep
<1>4. CASE UNCHANGED WT!worktreeVars
    BY <1>4 DEF WT!worktreeVars, WorktreesInv, WorktreesType, ReaperType, NoneAhead, LookedAt, SummaryKept,
       NothingLeft, Merged, WT!WorkSurvives, WT!Kept, WT!Entry,
       trunk, merging, rescued, branch, tree, cleanup, reaper, cleanups, slips, made, settled, losses
<1> QED
    BY <1>1, <1>2, <1>3, <1>4 DEF WT!Next

LEMMA WorktreesAnswers == WorktreesInv => WT!WorkSurvives
BY DEF WorktreesInv

-----------------------------------------------------------------------------
(***************************************************************************)
(* The workstreams: while no two commands overlap and no rollback fails,   *)
(* the one command at work has every file in one of the two directories it *)
(* moves files between.                                                    *)
(***************************************************************************)
\* The part's variables, by their names in Workstreams.
flat == v1
topDir == v2        \* root
streams == v3
archives == v4
pointers == v5
call == v6
callsMade == v7     \* calls
failures == v8
filesMade == v9     \* files
lapses == v10

CallFields == {"pc", "op", "name", "id", "home", "todo", "moved", "active"}

\* A directory has one file of a name.
OneOfKind(dir) == \A f, g \in dir : f.kind = g.kind => f = g

\* Every file written is somewhere, and nothing else.
Kept(fl, st, ar, written) ==
    \A f : f \in written <=>
        f \in fl \/ (\E n \in DOMAIN st : f \in st[n]) \/ \E a \in DOMAIN ar : f \in ar[a]

Directories(fl, top, st, ar, n) ==
    /\ n \in Nat /\ n <= MaxCalls
    /\ ~top => DOMAIN st = {}
    /\ OneOfKind(fl) /\ (\A m \in DOMAIN st : OneOfKind(st[m])) /\ \A a \in DOMAIN ar : OneOfKind(ar[a])
    /\ \A m, k : <<m, k>> \in DOMAIN ar => k \in Nat /\ k < n

\* What has been moved from one directory to the other, and may have to go back.
Carried(from, to, moved) ==
    OneOfKind(from \cup to) /\ \A f \in to : \E i \in DOMAIN moved : moved[i] = f

AtWork(c, fl, st, ar, n, written) ==
    /\ c.pc \in {"migrate", "complete", "archive"} => c.moved = <<>>
    /\ c.pc = "migrate" => c.op = "migrate"
    /\ c.pc \in {"complete", "archive"} =>
          /\ n > 0 /\ c.op # "migrate" /\ c.name \in DOMAIN st
          /\ \A m, k : <<m, k>> \in DOMAIN ar => k < n - 1
    /\ c.pc = "archive" => c.home \notin DOMAIN ar /\ \E k \in Nat : k < n /\ c.home = <<c.name, k>>
    /\ c.pc \in {"move", "undo"} =>
          /\ c.moved \in Seq(written)
          /\ c.op = "migrate" => c.home \in DOMAIN st /\ Carried(fl, st[c.home], c.moved)
          /\ c.op # "migrate" => /\ c.name \in DOMAIN st /\ c.home \in DOMAIN ar
                                 /\ Carried(st[c.name], ar[c.home], c.moved)

StreamsSound ==
    /\ Directories(flat, topDir, streams, archives, callsMade)
    /\ Kept(flat, streams, archives, filesMade)
    /\ \A p, q \in Procs : call[p].pc # "idle" /\ call[q].pc # "idle" => p = q
    /\ \A p \in Procs : AtWork(call[p], flat, streams, archives, callsMade, filesMade)

StreamsInv ==
    /\ part = "streams"
    /\ DOMAIN call = Procs /\ \A p \in Procs : DOMAIN call[p] = CallFields
    /\ lapses = {} => StreamsSound

USE DEF flat, topDir, streams, archives, pointers, call, callsMade, failures, filesMade, lapses

LEMMA KeptIs == Kept(flat, streams, archives, filesMade) <=> filesMade = WS!Held
<1>1. \A f : f \in WS!Held <=>
          f \in flat \/ (\E n \in DOMAIN streams : f \in streams[n]) \/ \E a \in DOMAIN archives : f \in archives[a]
      BY DEF WS!Held, WS!Range
<1> QED BY <1>1 DEF Kept

LEMMA FreeIs == DOMAIN WS!Free = CallFields /\ WS!Free.pc = "idle" /\ WS!Free.moved = <<>>
BY DEF WS!Free, CallFields

\* A step of one process.
LEMMA StreamWorks ==
    ASSUME StreamsInv, part' = part, NEW p \in Procs, NEW c,
           call' = [call EXCEPT ![p] = c], DOMAIN c = CallFields, lapses \subseteq lapses',
           lapses' = {} => \A q \in Procs : call[q].pc # "idle" => q = p,
           lapses' = {} => /\ Directories(flat', topDir', streams', archives', callsMade')
                           /\ Kept(flat', streams', archives', filesMade')
                           /\ AtWork(c, flat', streams', archives', callsMade', filesMade')
    PROVE  StreamsInv'
<1>1. \A q \in Procs : call'[q] = IF q = p THEN c ELSE call[q] BY DEF StreamsInv
<1>2. DOMAIN call' = Procs /\ \A q \in Procs : DOMAIN call'[q] = CallFields BY <1>1 DEF StreamsInv
<1>3. ASSUME lapses' = {} PROVE StreamsSound'
      <2>1. \A q \in Procs : q # p => call'[q].pc = "idle" BY <1>1, <1>3
      <2>2. \A q, r \in Procs : call'[q].pc # "idle" /\ call'[r].pc # "idle" => q = r BY <2>1
      <2>3. \A q \in Procs : AtWork(call'[q], flat', streams', archives', callsMade', filesMade')
            <3> TAKE q \in Procs
            <3>1. CASE q = p BY <3>1, <1>1, <1>3
            <3>2. CASE q # p BY <3>2, <2>1 DEF AtWork
            <3> QED BY <3>1, <3>2
      <2> QED BY <1>3, <2>2, <2>3 DEF StreamsSound
<1> QED BY <1>2, <1>3 DEF StreamsInv

\* A process that is at work is alone.
LEMMA StreamAlone ==
    ASSUME StreamsInv, NEW p \in Procs, call[p].pc # "idle", lapses \subseteq lapses'
    PROVE  lapses' = {} =>
              /\ lapses = {} /\ StreamsSound /\ (\A q \in Procs : call[q].pc # "idle" => q = p)
              /\ Directories(flat, topDir, streams, archives, callsMade)
              /\ Kept(flat, streams, archives, filesMade)
              /\ AtWork(call[p], flat, streams, archives, callsMade, filesMade)
BY DEF StreamsInv, StreamsSound

LEMMA BeginFiles ==
    ASSUME StreamsInv, part' = part, NEW p \in Procs, WS!Create(p) \/ WS!Complete(p) \/ WS!Switch(p)
    PROVE  StreamsInv'
<1>1. PICK op, n : /\ WS!Begin(p, op, n) /\ op \in {"migrate", "make", "complete", "set"}
                   /\ op = "complete" => n \in DOMAIN streams
      BY DEF WS!Create, WS!Complete, WS!Switch
<1>2. UNCHANGED <<flat, topDir, streams, archives, filesMade>>
      BY DEF WS!Create, WS!Complete, WS!Switch
<1> DEFINE c == [WS!Free EXCEPT !.op = op, !.name = n, !.id = callsMade + 1, !.pc = op]
<1>3. /\ call' = [call EXCEPT ![p] = c] /\ callsMade < MaxCalls /\ callsMade' = callsMade + 1
      /\ lapses \subseteq lapses' /\ call[p].pc = "idle"
      /\ lapses' = {} => \A q \in Procs : call[q].pc = "idle"
      BY <1>1 DEF WS!Begin, WS!Put
<1>4. DOMAIN c = CallFields /\ c.pc = op /\ c.op = op /\ c.name = n /\ c.moved = <<>>
      BY FreeIs DEF CallFields
<1> HIDE DEF c
<1>5. ASSUME lapses' = {} PROVE /\ Directories(flat', topDir', streams', archives', callsMade')
                                /\ Kept(flat', streams', archives', filesMade')
                                /\ AtWork(c, flat', streams', archives', callsMade', filesMade')
      <2>1. /\ Directories(flat, topDir, streams, archives, callsMade)
            /\ Kept(flat, streams, archives, filesMade)
            BY <1>3, <1>5 DEF StreamsInv, StreamsSound
      <2>2. Directories(flat', topDir', streams', archives', callsMade')
            BY <2>1, <1>2, <1>3, DocumentConstants DEF Directories, WS!WorkstreamConstants
      <2>3. AtWork(c, flat', streams', archives', callsMade', filesMade')
            BY <1>1, <1>2, <1>3, <1>4, <2>1 DEF AtWork, Directories
      <2> QED BY <2>1, <2>2, <2>3, <1>2
<1> QED BY <1>3, <1>4, <1>5, StreamWorks

-----------------------------------------------------------------------------
(* Directories that are written, and that go. *)

LEMMA MadeIs ==
    ASSUME NEW dirs, NEW d
    PROVE  /\ DOMAIN WS!Made(dirs, d) = DOMAIN dirs \cup {d}
           /\ \A e \in DOMAIN dirs : WS!Made(dirs, d)[e] = dirs[e]
           /\ d \notin DOMAIN dirs => WS!Made(dirs, d)[d] = {}
BY DEF WS!Made

LEMMA DroppedIs ==
    ASSUME NEW dirs, NEW d
    PROVE  /\ DOMAIN WS!Dropped(dirs, d) = DOMAIN dirs \ {d}
           /\ \A e \in DOMAIN dirs \ {d} : WS!Dropped(dirs, d)[e] = dirs[e]
BY DEF WS!Dropped, WS!Restrict

\* Neither changes what is kept.
LEMMA DirectoriesStay ==
    ASSUME NEW fl, NEW top, NEW st, NEW ar, NEW n, NEW written, NEW d,
           Directories(fl, top, st, ar, n), Kept(fl, st, ar, written)
    PROVE  /\ Directories(fl, TRUE, WS!Made(st, d), ar, n) /\ Kept(fl, WS!Made(st, d), ar, written)
           /\ (d \in DOMAIN st => st[d] = {}) =>
                 /\ Directories(fl, top /\ DOMAIN WS!Dropped(st, d) # {}, WS!Dropped(st, d), ar, n)
                 /\ Kept(fl, WS!Dropped(st, d), ar, written)
<1>1. /\ DOMAIN WS!Made(st, d) = DOMAIN st \cup {d} /\ \A e \in DOMAIN st : WS!Made(st, d)[e] = st[e]
      /\ d \notin DOMAIN st => WS!Made(st, d)[d] = {}
      /\ DOMAIN WS!Dropped(st, d) = DOMAIN st \ {d} /\ \A e \in DOMAIN st \ {d} : WS!Dropped(st, d)[e] = st[e]
      BY ZenonT(40), MadeIs, DroppedIs
<1>2. Directories(fl, TRUE, WS!Made(st, d), ar, n) BY <1>1 DEF Directories, OneOfKind
<1>3. Kept(fl, WS!Made(st, d), ar, written) BY <1>1 DEF Kept
<1>4. ASSUME d \in DOMAIN st => st[d] = {}
      PROVE  /\ Directories(fl, top /\ DOMAIN WS!Dropped(st, d) # {}, WS!Dropped(st, d), ar, n)
             /\ Kept(fl, WS!Dropped(st, d), ar, written)
      <2>1. Directories(fl, top /\ DOMAIN WS!Dropped(st, d) # {}, WS!Dropped(st, d), ar, n)
            BY <1>1 DEF Directories
      <2>2. Kept(fl, WS!Dropped(st, d), ar, written) BY <1>1, <1>4 DEF Kept
      <2> QED BY <2>1, <2>2
<1> QED BY <1>2, <1>3, <1>4

LEMMA MigrationBeginsStep == ASSUME StreamsInv, part' = part, NEW p \in Procs, WS!MigrationBegins(p) PROVE StreamsInv'
<1>1. /\ call[p].pc = "migrate"
      /\ UNCHANGED <<flat, archives, callsMade, filesMade, lapses>>
      BY DEF WS!MigrationBegins
<1>2. /\ lapses \subseteq lapses'
      /\ lapses' = {} =>
            /\ (\A q \in Procs : call[q].pc # "idle" => q = p)
            /\ Directories(flat, topDir, streams, archives, callsMade)
            /\ Kept(flat, streams, archives, filesMade)
            /\ AtWork(call[p], flat, streams, archives, callsMade, filesMade)
      BY <1>1, StreamAlone
<1>3. CASE topDir
      <2>1. UNCHANGED <<topDir, streams>> /\ call' = [call EXCEPT ![p] = WS!Free]
            BY <1>3 DEF WS!MigrationBegins, WS!Put
      <2>3. AtWork(WS!Free, flat', streams', archives', callsMade', filesMade') BY FreeIs DEF AtWork
      <2> QED BY <1>1, <1>2, <2>1, <2>3, FreeIs, StreamWorks
<1>4. CASE ~topDir
      <2> DEFINE c == [call[p] EXCEPT !.pc = "move", !.home = MainStream, !.todo = flat]
      <2>1. call' = [call EXCEPT ![p] = c] /\ topDir' = TRUE /\ streams' = WS!Made(streams, MainStream)
            BY <1>4 DEF WS!MigrationBegins, WS!Put
      <2>2. DOMAIN call[p] = CallFields BY DEF StreamsInv
      <2>3. DOMAIN c = CallFields /\ c.pc = "move" /\ c.home = MainStream /\ c.op = call[p].op /\ c.moved = call[p].moved
            BY <2>2 DEF CallFields
      <2> HIDE DEF c
      <2>4. lapses' = {} => AtWork(c, flat', streams', archives', callsMade', filesMade')
            <3> SUFFICES ASSUME lapses' = {} PROVE AtWork(c, flat', streams', archives', callsMade', filesMade')
                OBVIOUS
            <3>1. c.op = "migrate" /\ c.moved = <<>> BY <1>1, <1>2, <2>3 DEF AtWork
            <3>2. MainStream \in DOMAIN streams' /\ streams'[MainStream] = {}
                  <4>1. DOMAIN streams = {} BY <1>2, <1>4 DEF Directories
                  <4>2. /\ DOMAIN WS!Made(streams, MainStream) = DOMAIN streams \cup {MainStream}
                        /\ MainStream \notin DOMAIN streams => WS!Made(streams, MainStream)[MainStream] = {}
                        BY MadeIs
                  <4> QED BY <2>1, <4>1, <4>2
            <3>3. Carried(flat', streams'[MainStream], c.moved)
                  BY <1>1, <1>2, <3>2 DEF Carried, Directories, OneOfKind
            <3>4. c.moved \in Seq(filesMade') BY <3>1
            <3> QED BY <2>3, <3>1, <3>2, <3>3, <3>4 DEF AtWork
      <2>5. lapses' = {} => /\ Directories(flat', topDir', streams', archives', callsMade')
                            /\ Kept(flat', streams', archives', filesMade')
            BY <1>1, <1>2, <2>1, DirectoriesStay
      <2> QED BY <1>2, <2>1, <2>3, <2>4, <2>5, StreamWorks
<1> QED BY <1>3, <1>4

LEMMA MakeDirStep == ASSUME StreamsInv, part' = part, NEW p \in Procs, WS!MakeDir(p) PROVE StreamsInv'
<1> DEFINE c == [call[p] EXCEPT !.pc = "state"]
<1>1. /\ call[p].pc = "make" /\ UNCHANGED <<flat, archives, callsMade, filesMade, lapses>>
      /\ topDir' = TRUE /\ streams' = WS!Made(streams, call[p].name) /\ call' = [call EXCEPT ![p] = c]
      BY DEF WS!MakeDir, WS!Goes, WS!Put
<1>2. DOMAIN call[p] = CallFields BY DEF StreamsInv
<1>3. DOMAIN c = CallFields /\ c.pc = "state" BY <1>2 DEF CallFields
<1> HIDE DEF c
<1>4. AtWork(c, flat', streams', archives', callsMade', filesMade') BY <1>3 DEF AtWork
<1>5. lapses' = {} => /\ \A q \in Procs : call[q].pc # "idle" => q = p
                      /\ Directories(flat', topDir', streams', archives', callsMade')
                      /\ Kept(flat', streams', archives', filesMade')
      BY <1>1, StreamAlone, DirectoriesStay
<1> QED BY <1>1, <1>3, <1>4, <1>5, StreamWorks

LEMMA WriteStateStep == ASSUME StreamsInv, part' = part, NEW p \in Procs, WS!WriteState(p) PROVE StreamsInv'
<1> DEFINE n == call[p].name
           new == [kind |-> "STATE", by |-> call[p].id]
           have == n \in DOMAIN streams /\ \E f \in streams[n] : f.kind = "STATE"
           st == WS!Made(streams, n)
           with == [st EXCEPT ![n] = @ \cup {new}]
<1>1. /\ call[p].pc = "state" /\ UNCHANGED <<flat, archives, callsMade, lapses>> /\ topDir' = TRUE
      /\ call' = [call EXCEPT ![p] = WS!Free]
      /\ filesMade' = IF have THEN filesMade ELSE filesMade \cup {new}
      /\ streams' = WS!Made(IF have THEN streams ELSE with, n)
      BY DEF WS!WriteState, WS!SetPointer, WS!Put
<1>2. AtWork(WS!Free, flat', streams', archives', callsMade', filesMade') BY FreeIs DEF AtWork
<1>3. ASSUME lapses' = {} PROVE /\ \A q \in Procs : call[q].pc # "idle" => q = p
                                /\ Directories(flat', topDir', streams', archives', callsMade')
                                /\ Kept(flat', streams', archives', filesMade')
      <2>1. /\ \A q \in Procs : call[q].pc # "idle" => q = p
            /\ Directories(flat, topDir, streams, archives, callsMade)
            /\ Kept(flat, streams, archives, filesMade)
            BY <1>1, <1>3, StreamAlone
      <2>2. CASE have BY ZenonT(40), <1>1, <2>1, <2>2, DirectoriesStay
      <2>3. CASE ~have
            <3>1. /\ DOMAIN st = DOMAIN streams \cup {n} /\ \A e \in DOMAIN streams : st[e] = streams[e]
                  /\ n \notin DOMAIN streams => st[n] = {}
                  BY MadeIs
            <3>2. Directories(flat, TRUE, st, archives, callsMade) /\ Kept(flat, st, archives, filesMade)
                  BY <2>1, DirectoriesStay
            <3>3. DOMAIN with = DOMAIN st /\ \A e \in DOMAIN st : with[e] = IF e = n THEN st[n] \cup {new} ELSE st[e]
                  <4> HIDE DEF st, new
                  <4> QED OBVIOUS
            <3>4. \A f \in st[n] : f.kind # "STATE" BY <2>3, <3>1
            <3>5. new.kind = "STATE" OBVIOUS
            <3> HIDE DEF st, with, new, have
            <3>6. OneOfKind(st[n] \cup {new}) BY <3>1, <3>2, <3>4, <3>5 DEF Directories, OneOfKind
            <3>7. Directories(flat, TRUE, with, archives, callsMade)
                  BY <3>1, <3>2, <3>3, <3>6 DEF Directories
            <3>8. Kept(flat, with, archives, filesMade \cup {new})
                  BY <3>1, <3>2, <3>3 DEF Kept
            <3> QED BY <1>1, <2>1, <2>3, <3>7, <3>8, DirectoriesStay
      <2> QED BY <2>2, <2>3
<1> QED BY <1>1, <1>2, <1>3, FreeIs, StreamWorks

-----------------------------------------------------------------------------
(* Archives. *)

LEMMA LeastSuffix == ASSUME NEW S \in SUBSET Nat, S # {} PROVE \E k \in S : \A d \in S : k <= d
<1> DEFINE Less == {pair \in Nat \X Nat : pair[1] < pair[2]}
<1>1. IsWellFoundedOn(OpToRel(<, Nat), Nat) BY NatLessThanWellFounded
<1>2. OpToRel(<, Nat) = Less BY DEF OpToRel
<1>3. PICK k \in S : \A d \in S : <<d, k>> \notin Less
      <2> HIDE DEF Less
      <2> QED BY <1>1, <1>2, WFMin
<1>4. \A x, y \in Nat : x < y => <<x, y>> \in Less OBVIOUS
<1>5. \A d \in S : ~(d < k) BY <1>3, <1>4
<1> QED BY <1>3, <1>5

\* There have not been as many archives as commands.
LEMMA FreeArchiveIs ==
    ASSUME NEW n, NEW m \in Nat, m > 0, m <= MaxCalls, MaxCalls \in Nat,
           \A d, k : <<d, k>> \in DOMAIN archives => k < m - 1
    PROVE  \E k \in Nat : k < m /\ WS!FreeArchive(n) = <<n, k>> /\ <<n, k>> \notin DOMAIN archives
<1> DEFINE S == {k \in WS!DaySuffixes : <<n, k>> \notin DOMAIN archives}
<1>1. m - 1 \in S BY DEF WS!DaySuffixes
<1>2. S \in SUBSET Nat BY DEF WS!DaySuffixes
<1>3. \E k \in S : \A d \in S : k <= d
      <2> HIDE DEF S
      <2> QED BY <1>1, <1>2, LeastSuffix
<1>4. WS!FreeArchive(n) = <<n, CHOOSE k \in S : \A d \in S : k <= d>> BY DEF WS!FreeArchive, WS!Min
<1>5. PICK k : k \in S /\ (\A d \in S : k <= d) /\ WS!FreeArchive(n) = <<n, k>>
      <2> HIDE DEF S
      <2> QED BY <1>3, <1>4
<1> QED BY <1>1, <1>2, <1>5

LEMMA ChooseArchiveStep == ASSUME StreamsInv, part' = part, NEW p \in Procs, WS!ChooseArchive(p) PROVE StreamsInv'
<1> DEFINE active == WS!Active(p) = call[p].name
           c == [call[p] EXCEPT !.pc = "archive", !.home = WS!FreeArchive(call[p].name), !.active = active]
<1>1. /\ call[p].pc = "complete" /\ call' = [call EXCEPT ![p] = c]
      /\ UNCHANGED <<flat, topDir, streams, archives, callsMade, filesMade, lapses>>
      BY DEF WS!ChooseArchive, WS!Put
<1>2. DOMAIN call[p] = CallFields BY DEF StreamsInv
<1>3. /\ DOMAIN c = CallFields /\ c.pc = "archive" /\ c.home = WS!FreeArchive(call[p].name)
      /\ c.op = call[p].op /\ c.name = call[p].name /\ c.moved = call[p].moved
      BY <1>2 DEF CallFields
<1> HIDE DEF c, active
<1>4. ASSUME lapses' = {} PROVE /\ \A q \in Procs : call[q].pc # "idle" => q = p
                                /\ Directories(flat', topDir', streams', archives', callsMade')
                                /\ Kept(flat', streams', archives', filesMade')
                                /\ AtWork(c, flat', streams', archives', callsMade', filesMade')
      <2>1. /\ \A q \in Procs : call[q].pc # "idle" => q = p
            /\ Directories(flat, topDir, streams, archives, callsMade)
            /\ Kept(flat, streams, archives, filesMade)
            /\ AtWork(call[p], flat, streams, archives, callsMade, filesMade)
            BY <1>1, <1>4, StreamAlone
      <2>2. /\ callsMade \in Nat /\ callsMade <= MaxCalls /\ callsMade > 0
            /\ call[p].op # "migrate" /\ call[p].name \in DOMAIN streams /\ call[p].moved = <<>>
            /\ \A m, k : <<m, k>> \in DOMAIN archives => k < callsMade - 1
            BY <1>1, <2>1 DEF AtWork, Directories
      <2>3. PICK k \in Nat : k < callsMade /\ c.home = <<c.name, k>> /\ c.home \notin DOMAIN archives
            BY <2>2, <1>3, FreeArchiveIs, DocumentConstants DEF WS!WorkstreamConstants
      <2>4. AtWork(c, flat, streams, archives, callsMade, filesMade)
            BY <1>3, <2>2, <2>3 DEF AtWork
      <2> QED BY <1>1, <2>1, <2>4
<1> QED BY <1>1, <1>3, <1>4, StreamWorks

LEMMA MakeArchiveStep == ASSUME StreamsInv, part' = part, NEW p \in Procs, WS!MakeArchive(p) PROVE StreamsInv'
<1> DEFINE there == call[p].name \in DOMAIN streams
           c == IF there THEN [call[p] EXCEPT !.pc = "move", !.todo = streams[call[p].name]]
                ELSE [call[p] EXCEPT !.pc = "undo"]
<1>1. /\ call[p].pc = "archive" /\ call' = [call EXCEPT ![p] = c]
      /\ archives' = WS!Made(archives, call[p].home)
      /\ UNCHANGED <<flat, topDir, streams, callsMade, filesMade, lapses>>
      BY DEF WS!MakeArchive, WS!Put
<1>2. DOMAIN call[p] = CallFields BY DEF StreamsInv
<1>3. /\ DOMAIN c = CallFields /\ c.pc \in {"move", "undo"} /\ c.home = call[p].home
      /\ c.op = call[p].op /\ c.name = call[p].name /\ c.moved = call[p].moved
      BY <1>2 DEF CallFields
<1> HIDE DEF c, there
<1>4. ASSUME lapses' = {} PROVE /\ \A q \in Procs : call[q].pc # "idle" => q = p
                                /\ Directories(flat', topDir', streams', archives', callsMade')
                                /\ Kept(flat', streams', archives', filesMade')
                                /\ AtWork(c, flat', streams', archives', callsMade', filesMade')
      <2>1. /\ \A q \in Procs : call[q].pc # "idle" => q = p
            /\ Directories(flat, topDir, streams, archives, callsMade)
            /\ Kept(flat, streams, archives, filesMade)
            /\ AtWork(call[p], flat, streams, archives, callsMade, filesMade)
            BY <1>1, <1>4, StreamAlone
      <2>2. /\ c.op # "migrate" /\ c.name \in DOMAIN streams /\ c.moved = <<>>
            /\ c.home \notin DOMAIN archives /\ \E k \in Nat : k < callsMade /\ c.home = <<c.name, k>>
            BY <1>1, <1>3, <2>1 DEF AtWork
      <2>3. /\ DOMAIN archives' = DOMAIN archives \cup {c.home} /\ archives'[c.home] = {}
            /\ \A a \in DOMAIN archives : archives'[a] = archives[a]
            <3>1. /\ DOMAIN WS!Made(archives, c.home) = DOMAIN archives \cup {c.home}
                  /\ \A a \in DOMAIN archives : WS!Made(archives, c.home)[a] = archives[a]
                  /\ c.home \notin DOMAIN archives => WS!Made(archives, c.home)[c.home] = {}
                  BY MadeIs
            <3> QED BY <1>1, <1>3, <2>2, <3>1
      <2>4. Directories(flat, topDir, streams, archives', callsMade)
            BY <2>1, <2>2, <2>3 DEF Directories, OneOfKind
      <2>5. Kept(flat, streams, archives', filesMade) BY <2>1, <2>3 DEF Kept
      <2>6. Carried(streams[c.name], archives'[c.home], c.moved)
            BY <2>1, <2>2, <2>3 DEF Carried, Directories, OneOfKind
      <2>7. AtWork(c, flat, streams, archives', callsMade, filesMade)
            BY <1>3, <2>2, <2>3, <2>6 DEF AtWork
      <2> QED BY <1>1, <2>1, <2>4, <2>5, <2>7
<1> QED BY <1>1, <1>3, <1>4, StreamWorks

-----------------------------------------------------------------------------
(* Files that are moved from one directory to the other, and back. *)

LEMMA TailHas ==
    ASSUME NEW S, NEW s \in Seq(S), s # <<>>
    PROVE  /\ Tail(s) \in Seq(S) /\ Head(s) \in S
           /\ \A i \in DOMAIN s : s[i] = Head(s) \/ \E j \in DOMAIN Tail(s) : Tail(s)[j] = s[i]
<1>1. /\ Len(s) \in Nat /\ Len(s) > 0 /\ DOMAIN s = 1..Len(s) /\ Head(s) = s[1]
      /\ Tail(s) \in Seq(S) /\ DOMAIN Tail(s) = 1..(Len(s) - 1)
      /\ \A j \in 1..(Len(s) - 1) : Tail(s)[j] = s[j + 1]
      OBVIOUS
<1>2. ASSUME NEW i \in DOMAIN s, i # 1 PROVE \E j \in DOMAIN Tail(s) : Tail(s)[j] = s[i]
      <2>1. i - 1 \in 1..(Len(s) - 1) /\ (i - 1) + 1 = i BY <1>1, <1>2
      <2> QED BY <1>1, <2>1
<1>3. \A i \in DOMAIN s : i = 1 => s[i] = Head(s) BY <1>1
<1>4. Head(s) \in S BY <1>1
<1> QED BY <1>1, <1>2, <1>3, <1>4

LEMMA AppendHas ==
    ASSUME NEW S, NEW s \in Seq(S), NEW f \in S
    PROVE  /\ Append(s, f) \in Seq(S)
           /\ \E i \in DOMAIN Append(s, f) : Append(s, f)[i] = f
           /\ \A i \in DOMAIN s : \E j \in DOMAIN Append(s, f) : Append(s, f)[j] = s[i]
<1>1. /\ Append(s, f) \in Seq(S) /\ DOMAIN Append(s, f) = 1..(Len(s) + 1) /\ DOMAIN s = 1..Len(s)
      /\ Append(s, f)[Len(s) + 1] = f /\ \A i \in 1..Len(s) : Append(s, f)[i] = s[i]
      OBVIOUS
<1>2. Len(s) \in Nat OBVIOUS
<1> QED BY <1>1, <1>2

\* A file that is moved replaces none but itself.
LEMMA OverIs ==
    ASSUME NEW from, NEW to, NEW f \in from, OneOfKind(from \cup to)
    PROVE  /\ WS!Over(to, f) = to \cup {f} /\ (from \ {f}) \cup WS!Over(to, f) = from \cup to
BY DEF WS!Over, OneOfKind

\* One of a pair of directories gives a file to the other.
LEMMA MovedOver ==
    ASSUME NEW from, NEW to, NEW f \in from, NEW written, NEW moved \in Seq(written), f \in written,
           Carried(from, to, moved)
    PROVE  /\ Carried(from \ {f}, WS!Over(to, f), Append(moved, f)) /\ Append(moved, f) \in Seq(written)
           /\ OneOfKind(from \ {f}) /\ OneOfKind(WS!Over(to, f))
           /\ (from \ {f}) \cup WS!Over(to, f) = from \cup to
<1>1. WS!Over(to, f) = to \cup {f} /\ (from \ {f}) \cup WS!Over(to, f) = from \cup to
      BY OverIs DEF Carried
<1>2. OneOfKind(from \ {f}) /\ OneOfKind(WS!Over(to, f)) BY <1>1 DEF Carried, OneOfKind
<1>3. \A g \in to \cup {f} : \E j \in DOMAIN Append(moved, f) : Append(moved, f)[j] = g
      <2> DEFINE longer == Append(moved, f)
      <2>1. /\ Len(moved) \in Nat /\ DOMAIN moved = 1..Len(moved) /\ DOMAIN longer = 1..(Len(moved) + 1)
            /\ longer[Len(moved) + 1] = f /\ \A i \in 1..Len(moved) : longer[i] = moved[i]
            OBVIOUS
      <2> HIDE DEF longer
      <2>2. \A g \in to : \E i \in DOMAIN moved : moved[i] = g BY DEF Carried
      <2>3. \A g \in to \cup {f} : \E j \in DOMAIN longer : longer[j] = g BY <2>1, <2>2
      <2> QED BY <2>3 DEF longer
<1> QED BY <1>1, <1>2, <1>3, AppendHas DEF Carried

\* And takes it back.
LEMMA TakenBack ==
    ASSUME NEW from, NEW to, NEW written, NEW moved \in Seq(written), moved # <<>>, Carried(from, to, moved)
    PROVE  LET f == Head(moved) IN
           /\ Tail(moved) \in Seq(written)
           /\ f \in to =>
                 /\ Carried(WS!Over(from, f), to \ {f}, Tail(moved))
                 /\ OneOfKind(WS!Over(from, f)) /\ OneOfKind(to \ {f})
                 /\ WS!Over(from, f) \cup (to \ {f}) = from \cup to
           /\ f \notin to => Carried(from, to, Tail(moved))
<1> DEFINE f == Head(moved)
<1>1. /\ Tail(moved) \in Seq(written)
      /\ \A i \in DOMAIN moved : moved[i] = f \/ \E j \in DOMAIN Tail(moved) : Tail(moved)[j] = moved[i]
      BY TailHas
<1> HIDE DEF f
<1>2. \A g \in to : g = f \/ \E j \in DOMAIN Tail(moved) : Tail(moved)[j] = g BY <1>1 DEF Carried
<1>3. ASSUME f \in to
      PROVE  /\ Carried(WS!Over(from, f), to \ {f}, Tail(moved))
             /\ OneOfKind(WS!Over(from, f)) /\ OneOfKind(to \ {f})
             /\ WS!Over(from, f) \cup (to \ {f}) = from \cup to
      <2>1. to \cup from = from \cup to OBVIOUS
      <2>2. WS!Over(from, f) = from \cup {f} /\ (to \ {f}) \cup WS!Over(from, f) = to \cup from
            BY <1>3, <2>1, OverIs DEF Carried
      <2>3. WS!Over(from, f) \cup (to \ {f}) = from \cup to BY <2>2
      <2>4. OneOfKind(WS!Over(from, f)) /\ OneOfKind(to \ {f}) BY <1>3, <2>2 DEF Carried, OneOfKind
      <2>5. Carried(WS!Over(from, f), to \ {f}, Tail(moved)) BY <1>2, <2>3 DEF Carried
      <2> QED BY <2>3, <2>4, <2>5
<1>4. f \notin to => Carried(from, to, Tail(moved)) BY <1>2 DEF Carried
<1> QED BY <1>1, <1>3, <1>4 DEF f

\* What is kept when the flat layout and a workstream exchange files.
LEMMA FlatExchanges ==
    ASSUME NEW fl, NEW top, NEW st, NEW ar, NEW n, NEW written, NEW h \in DOMAIN st, NEW fl2, NEW d2,
           Directories(fl, top, st, ar, n), Kept(fl, st, ar, written),
           fl2 \cup d2 = fl \cup st[h], OneOfKind(fl2), OneOfKind(d2)
    PROVE  LET st2 == [st EXCEPT ![h] = d2] IN
           Directories(fl2, top, st2, ar, n) /\ Kept(fl2, st2, ar, written) /\ DOMAIN st2 = DOMAIN st /\ st2[h] = d2
<1> DEFINE st2 == [st EXCEPT ![h] = d2]
<1>1. DOMAIN st2 = DOMAIN st /\ \A e \in DOMAIN st : st2[e] = IF e = h THEN d2 ELSE st[e] OBVIOUS
<1> HIDE DEF st2
<1>2. Directories(fl2, top, st2, ar, n) BY <1>1 DEF Directories
<1>3. \A f : f \in fl2 \/ f \in d2 <=> f \in fl \/ f \in st[h] OBVIOUS
<1>4. ASSUME NEW f
      PROVE  f \in written <=> f \in fl2 \/ (\E e \in DOMAIN st2 : f \in st2[e]) \/ \E a \in DOMAIN ar : f \in ar[a]
      <2>1. f \in fl2 \/ f \in d2 <=> f \in fl \/ f \in st[h] BY <1>3
      <2>2. (\E e \in DOMAIN st2 : f \in st2[e]) <=> f \in d2 \/ \E e \in DOMAIN st : e # h /\ f \in st[e] BY <1>1
      <2>3. (\E e \in DOMAIN st : f \in st[e]) <=> f \in st[h] \/ \E e \in DOMAIN st : e # h /\ f \in st[e] OBVIOUS
      <2>4. f \in written <=> f \in fl \/ (\E e \in DOMAIN st : f \in st[e]) \/ \E a \in DOMAIN ar : f \in ar[a]
            BY DEF Kept
      <2> QED BY <2>1, <2>2, <2>3, <2>4
<1> QED BY <1>1, <1>2, <1>4 DEF Kept, st2

\* And when a workstream and an archive do.
LEMMA ArchiveExchanges ==
    ASSUME NEW fl, NEW top, NEW st, NEW ar, NEW n, NEW written, NEW h \in DOMAIN st, NEW b \in DOMAIN ar,
           NEW d2, NEW a2, Directories(fl, top, st, ar, n), Kept(fl, st, ar, written),
           d2 \cup a2 = st[h] \cup ar[b], OneOfKind(d2), OneOfKind(a2)
    PROVE  LET st2 == [st EXCEPT ![h] = d2]
               ar2 == [ar EXCEPT ![b] = a2] IN
           /\ Directories(fl, top, st2, ar2, n) /\ Kept(fl, st2, ar2, written)
           /\ DOMAIN st2 = DOMAIN st /\ st2[h] = d2 /\ DOMAIN ar2 = DOMAIN ar /\ ar2[b] = a2
<1> DEFINE st2 == [st EXCEPT ![h] = d2]
           ar2 == [ar EXCEPT ![b] = a2]
<1>1. /\ DOMAIN st2 = DOMAIN st /\ \A e \in DOMAIN st : st2[e] = IF e = h THEN d2 ELSE st[e]
      /\ DOMAIN ar2 = DOMAIN ar /\ \A a \in DOMAIN ar : ar2[a] = IF a = b THEN a2 ELSE ar[a]
      OBVIOUS
<1> HIDE DEF st2, ar2
<1>2. Directories(fl, top, st2, ar2, n) BY <1>1 DEF Directories
<1>3. \A f : f \in d2 \/ f \in a2 <=> f \in st[h] \/ f \in ar[b] OBVIOUS
<1>4. ASSUME NEW f
      PROVE  f \in written <=> f \in fl \/ (\E e \in DOMAIN st2 : f \in st2[e]) \/ \E a \in DOMAIN ar2 : f \in ar2[a]
      <2>1. f \in d2 \/ f \in a2 <=> f \in st[h] \/ f \in ar[b] BY <1>3
      <2>2. (\E e \in DOMAIN st2 : f \in st2[e]) <=> f \in d2 \/ \E e \in DOMAIN st : e # h /\ f \in st[e] BY <1>1
      <2>3. (\E e \in DOMAIN st : f \in st[e]) <=> f \in st[h] \/ \E e \in DOMAIN st : e # h /\ f \in st[e] OBVIOUS
      <2>4. (\E a \in DOMAIN ar2 : f \in ar2[a]) <=> f \in a2 \/ \E a \in DOMAIN ar : a # b /\ f \in ar[a] BY <1>1
      <2>5. (\E a \in DOMAIN ar : f \in ar[a]) <=> f \in ar[b] \/ \E a \in DOMAIN ar : a # b /\ f \in ar[a] OBVIOUS
      <2>6. f \in written <=> f \in fl \/ (\E e \in DOMAIN st : f \in st[e]) \/ \E a \in DOMAIN ar : f \in ar[a]
            BY DEF Kept
      <2> QED BY <2>1, <2>2, <2>3, <2>4, <2>5, <2>6
<1> QED BY <1>1, <1>2, <1>4 DEF Kept, st2, ar2

LEMMA MoveStep == ASSUME StreamsInv, part' = part, NEW p \in Procs, WS!Move(p) PROVE StreamsInv'
<1>1. /\ call[p].pc = "move" /\ UNCHANGED <<topDir, callsMade, filesMade, lapses>> BY DEF WS!Move
<1>2. DOMAIN call[p] = CallFields BY DEF StreamsInv
<1>3. ASSUME lapses' = {}
      PROVE  /\ \A q \in Procs : call[q].pc # "idle" => q = p
             /\ Directories(flat, topDir, streams, archives, callsMade)
             /\ Kept(flat, streams, archives, filesMade)
             /\ AtWork(call[p], flat, streams, archives, callsMade, filesMade)
      BY <1>1, <1>3, StreamAlone
<1>4. PICK f \in call[p].todo :
        LET c == call[p] IN
        IF f \in WS!Source(c) /\ WS!Ready(c)
        THEN /\ IF WS!Migrating(c) THEN /\ flat' = flat \ {f} /\ streams' = WS!Into(c, f)
                                     /\ UNCHANGED archives
                ELSE /\ streams' = [streams EXCEPT ![c.name] = @ \ {f}] /\ archives' = WS!Into(c, f)
                     /\ UNCHANGED flat
             /\ call' = [call EXCEPT ![p] = [c EXCEPT !.todo = @ \ {f}, !.moved = Append(@, f)]]
        ELSE /\ \/ call' = [call EXCEPT ![p] = [c EXCEPT !.todo = @ \ {f}]]
                \/ call' = [call EXCEPT ![p] = [c EXCEPT !.pc = "undo"]]
             /\ UNCHANGED <<flat, streams, archives>>
      BY DEF WS!Move, WS!Put, WS!Goes
<1>5. CASE ~(f \in WS!Source(call[p]) /\ WS!Ready(call[p]))
      <2>1. PICK c : /\ call' = [call EXCEPT ![p] = c]
                     /\ c = [call[p] EXCEPT !.todo = @ \ {f}] \/ c = [call[p] EXCEPT !.pc = "undo"]
            BY <1>4, <1>5
      <2>2. UNCHANGED <<flat, streams, archives>> BY <1>4, <1>5
      <2>3. /\ DOMAIN c = CallFields /\ c.pc \in {"move", "undo"} /\ c.op = call[p].op /\ c.name = call[p].name
            /\ c.home = call[p].home /\ c.moved = call[p].moved
            BY <1>1, <1>2, <2>1 DEF CallFields
      <2>4. lapses' = {} => AtWork(c, flat', streams', archives', callsMade', filesMade')
            BY <1>1, <1>3, <2>2, <2>3 DEF AtWork
      <2>5. lapses' = {} => Directories(flat', topDir', streams', archives', callsMade')
                              /\ Kept(flat', streams', archives', filesMade')
            BY <1>1, <1>3, <2>2
      <2> QED BY <1>1, <1>3, <2>1, <2>3, <2>4, <2>5, StreamWorks
<1>6. CASE f \in WS!Source(call[p]) /\ WS!Ready(call[p])
      <2> DEFINE c == [call[p] EXCEPT !.todo = @ \ {f}, !.moved = Append(@, f)]
      <2>1. call' = [call EXCEPT ![p] = c] BY <1>4, <1>6
      <2>2. /\ DOMAIN c = CallFields /\ c.pc = "move" /\ c.op = call[p].op /\ c.name = call[p].name
            /\ c.home = call[p].home /\ c.moved = Append(call[p].moved, f)
            BY <1>1, <1>2 DEF CallFields
      <2> HIDE DEF c
      <2>3. ASSUME lapses' = {} PROVE /\ Directories(flat', topDir', streams', archives', callsMade')
                                      /\ Kept(flat', streams', archives', filesMade')
                                      /\ AtWork(c, flat', streams', archives', callsMade', filesMade')
            <3>1. /\ Directories(flat, topDir, streams, archives, callsMade)
                  /\ Kept(flat, streams, archives, filesMade) /\ call[p].moved \in Seq(filesMade)
                  BY <1>1, <1>3, <2>3 DEF AtWork
            <3>2. CASE call[p].op = "migrate"
                  <4> DEFINE h == call[p].home
                  <4>1. /\ flat' = flat \ {f} /\ streams' = [streams EXCEPT ![h] = WS!Over(streams[h], f)]
                        /\ UNCHANGED archives /\ f \in flat
                        BY <1>4, <1>6, <3>2 DEF WS!Source, WS!Migrating, WS!Into
                  <4>2. h \in DOMAIN streams /\ Carried(flat, streams[h], call[p].moved)
                        BY <1>1, <1>3, <2>3, <3>2 DEF AtWork
                  <4>3. f \in filesMade BY <3>1, <4>1 DEF Kept
                  <4> HIDE DEF h
                  <4>4. /\ Carried(flat \ {f}, WS!Over(streams[h], f), Append(call[p].moved, f))
                        /\ Append(call[p].moved, f) \in Seq(filesMade)
                        /\ OneOfKind(flat \ {f}) /\ OneOfKind(WS!Over(streams[h], f))
                        /\ (flat \ {f}) \cup WS!Over(streams[h], f) = flat \cup streams[h]
                        BY ZenonT(40), <3>1, <4>1, <4>2, <4>3, MovedOver
                  <4>5. /\ Carried(flat \ {f}, WS!Over(streams[h], f), c.moved) /\ c.moved \in Seq(filesMade)
                        /\ OneOfKind(flat \ {f}) /\ OneOfKind(WS!Over(streams[h], f))
                        /\ (flat \ {f}) \cup WS!Over(streams[h], f) = flat \cup streams[h]
                        BY <2>2, <4>4
                  <4>6. /\ Directories(flat', topDir, streams', archives, callsMade)
                        /\ Kept(flat', streams', archives, filesMade)
                        /\ h \in DOMAIN streams' /\ streams'[h] = WS!Over(streams[h], f)
                        BY <3>1, <4>1, <4>2, <4>5, FlatExchanges
                  <4>7. c.home = h BY <2>2 DEF h
                  <4>8. AtWork(c, flat', streams', archives, callsMade, filesMade)
                        BY <2>2, <3>2, <4>1, <4>5, <4>6, <4>7 DEF AtWork
                  <4> QED BY <1>1, <4>1, <4>6, <4>8
            <3>3. CASE call[p].op # "migrate"
                  <4> DEFINE n == call[p].name
                             h == call[p].home
                  <4>1. /\ n \in DOMAIN streams /\ h \in DOMAIN archives
                        /\ Carried(streams[n], archives[h], call[p].moved)
                        BY <1>1, <1>3, <2>3, <3>3 DEF AtWork
                  <4>2. /\ streams' = [streams EXCEPT ![n] = streams[n] \ {f}]
                        /\ archives' = [archives EXCEPT ![h] = WS!Over(archives[h], f)]
                        /\ UNCHANGED flat /\ f \in streams[n]
                        BY <1>4, <1>6, <3>3, <4>1 DEF WS!Source, WS!Migrating, WS!Into
                  <4>3. f \in filesMade BY <3>1, <4>1, <4>2 DEF Kept
                  <4>4. c.home = h /\ c.name = n BY <2>2
                  <4> HIDE DEF h, n
                  <4>5. /\ Carried(streams[n] \ {f}, WS!Over(archives[h], f), Append(call[p].moved, f))
                        /\ Append(call[p].moved, f) \in Seq(filesMade)
                        /\ OneOfKind(streams[n] \ {f}) /\ OneOfKind(WS!Over(archives[h], f))
                        /\ (streams[n] \ {f}) \cup WS!Over(archives[h], f) = streams[n] \cup archives[h]
                        BY ZenonT(40), <3>1, <4>1, <4>2, <4>3, MovedOver
                  <4>6. /\ Carried(streams[n] \ {f}, WS!Over(archives[h], f), c.moved) /\ c.moved \in Seq(filesMade)
                        /\ OneOfKind(streams[n] \ {f}) /\ OneOfKind(WS!Over(archives[h], f))
                        /\ (streams[n] \ {f}) \cup WS!Over(archives[h], f) = streams[n] \cup archives[h]
                        BY <2>2, <4>5
                  <4>7. /\ Directories(flat, topDir, streams', archives', callsMade)
                        /\ Kept(flat, streams', archives', filesMade)
                        /\ n \in DOMAIN streams' /\ streams'[n] = streams[n] \ {f}
                        /\ h \in DOMAIN archives' /\ archives'[h] = WS!Over(archives[h], f)
                        <5> DEFINE d2 == streams[n] \ {f}
                                   a2 == WS!Over(archives[h], f)
                                   st2 == [streams EXCEPT ![n] = d2]
                                   ar2 == [archives EXCEPT ![h] = a2]
                        <5>1. OneOfKind(d2) /\ OneOfKind(a2) /\ d2 \cup a2 = streams[n] \cup archives[h] BY <4>6
                        <5>2. streams' = st2 /\ archives' = ar2 BY <4>2
                        <5>3. /\ Directories(flat, topDir, st2, ar2, callsMade) /\ Kept(flat, st2, ar2, filesMade)
                              /\ DOMAIN st2 = DOMAIN streams /\ st2[n] = d2
                              /\ DOMAIN ar2 = DOMAIN archives /\ ar2[h] = a2
                              <6> HIDE DEF d2, a2
                              <6> QED BY <3>1, <4>1, <5>1, ArchiveExchanges
                        <5> HIDE DEF st2, ar2
                        <5> QED BY <4>1, <5>2, <5>3
                  <4>8. AtWork(c, flat, streams', archives', callsMade, filesMade)
                        BY <2>2, <3>3, <4>4, <4>6, <4>7 DEF AtWork
                  <4> QED BY <1>1, <4>2, <4>7, <4>8
            <3> QED BY <3>2, <3>3
      <2> QED BY <1>1, <1>3, <2>1, <2>2, <2>3, StreamWorks
<1> QED BY <1>5, <1>6

\* Steps of a process that leave every file where it is.
LEMMA StreamGoesOn ==
    ASSUME StreamsInv, part' = part, NEW p \in Procs, NEW c, call[p].pc # "idle",
           call' = [call EXCEPT ![p] = c], DOMAIN c = CallFields, lapses \subseteq lapses',
           UNCHANGED <<flat, topDir, streams, archives, callsMade, filesMade>>,
           \/ c.pc \notin {"migrate", "complete", "archive", "move", "undo"}
           \/ call[p].pc \in {"move", "undo"} /\ c.pc \in {"move", "undo"} /\ c.op = call[p].op /\ c.name = call[p].name
              /\ c.home = call[p].home /\ c.moved = call[p].moved
    PROVE  StreamsInv'
<1>1. lapses' = {} =>
            /\ (\A q \in Procs : call[q].pc # "idle" => q = p)
            /\ Directories(flat, topDir, streams, archives, callsMade)
            /\ Kept(flat, streams, archives, filesMade)
            /\ AtWork(call[p], flat, streams, archives, callsMade, filesMade)
      BY StreamAlone
<1>2. lapses' = {} => AtWork(c, flat, streams, archives, callsMade, filesMade) BY <1>1 DEF AtWork
<1> QED BY <1>1, <1>2, StreamWorks

LEMMA PassingSteps ==
    ASSUME StreamsInv, part' = part, NEW p \in Procs, WS!MoveFails(p) \/ WS!Moved(p) \/ WS!Crash(p)
    PROVE  StreamsInv'
<1>1. /\ call[p].pc # "idle" /\ UNCHANGED <<flat, topDir, streams, archives, callsMade, filesMade, lapses>>
      BY DEF WS!MoveFails, WS!Moved, WS!Crash
<1>2. DOMAIN call[p] = CallFields BY DEF StreamsInv
<1>3. PICK c : /\ call' = [call EXCEPT ![p] = c]
               /\ \/ c = WS!Free
                  \/ call[p].pc = "move" /\ \E pc \in {"undo", "make", "clean"} : c = [call[p] EXCEPT !.pc = pc]
      BY DEF WS!MoveFails, WS!Moved, WS!Crash, WS!Put, WS!Goes
<1>4. CASE c = WS!Free BY <1>1, <1>3, <1>4, FreeIs, StreamGoesOn
<1>5. CASE call[p].pc = "move" /\ \E pc \in {"undo", "make", "clean"} : c = [call[p] EXCEPT !.pc = pc]
      <2>1. /\ DOMAIN c = CallFields /\ c.pc \in {"undo", "make", "clean"} /\ c.op = call[p].op /\ c.name = call[p].name
            /\ c.home = call[p].home /\ c.moved = call[p].moved
            BY <1>2, <1>5 DEF CallFields
      <2> QED BY <1>1, <1>3, <1>5, <2>1, StreamGoesOn
<1> QED BY <1>3, <1>4, <1>5

LEMMA PointerSteps ==
    ASSUME StreamsInv, part' = part, NEW p \in Procs, WS!Forget(p) \/ WS!Consult(p)
    PROVE  StreamsInv'
<1>1. UNCHANGED <<flat, topDir, streams, archives, call, callsMade, filesMade, lapses>>
      BY DEF WS!Forget, WS!Consult
<1> QED BY <1>1 DEF StreamsInv, StreamsSound

LEMMA PointStep == ASSUME StreamsInv, part' = part, NEW p \in Procs, WS!Point(p) PROVE StreamsInv'
<1>1. /\ call[p].pc = "set" /\ UNCHANGED <<flat, archives, callsMade, filesMade, lapses>>
      /\ topDir' = TRUE /\ streams' = WS!Made(streams, call[p].name) /\ call' = [call EXCEPT ![p] = WS!Free]
      BY DEF WS!Point, WS!SetPointer, WS!Put
<1>2. AtWork(WS!Free, flat', streams', archives', callsMade', filesMade') BY FreeIs DEF AtWork
<1>3. lapses' = {} => /\ \A q \in Procs : call[q].pc # "idle" => q = p
                      /\ Directories(flat', topDir', streams', archives', callsMade')
                      /\ Kept(flat', streams', archives', filesMade')
      BY <1>1, StreamAlone, DirectoriesStay
<1> QED BY <1>1, <1>2, <1>3, FreeIs, StreamWorks

LEMMA CleanUpStep == ASSUME StreamsInv, part' = part, NEW p \in Procs, WS!CleanUp(p) PROVE StreamsInv'
<1> DEFINE n == call[p].name
           empty == n \in DOMAIN streams /\ streams[n] = {}
<1>1. /\ call[p].pc = "clean" /\ UNCHANGED <<flat, archives, callsMade, filesMade, lapses>>
      /\ streams' = (IF empty THEN WS!Dropped(streams, n) ELSE streams)
      /\ topDir' = (topDir /\ DOMAIN streams' # {}) /\ call' = [call EXCEPT ![p] = WS!Free]
      BY DEF WS!CleanUp, WS!Put
<1>2. AtWork(WS!Free, flat', streams', archives', callsMade', filesMade') BY FreeIs DEF AtWork
<1>3. ASSUME lapses' = {} PROVE /\ \A q \in Procs : call[q].pc # "idle" => q = p
                                /\ Directories(flat', topDir', streams', archives', callsMade')
                                /\ Kept(flat', streams', archives', filesMade')
      <2>1. /\ \A q \in Procs : call[q].pc # "idle" => q = p
            /\ Directories(flat, topDir, streams, archives, callsMade)
            /\ Kept(flat, streams, archives, filesMade)
            BY <1>1, <1>3, StreamAlone
      <2>2. CASE empty
            <3> DEFINE st == WS!Dropped(streams, n)
            <3>1. streams' = st /\ streams[n] = {} BY <1>1, <2>2
            <3> HIDE DEF n
            <3>2. /\ Directories(flat, topDir /\ DOMAIN st # {}, st, archives, callsMade)
                  /\ Kept(flat, st, archives, filesMade)
                  BY <2>1, <3>1, DirectoriesStay
            <3> HIDE DEF st
            <3> QED BY <1>1, <2>1, <3>1, <3>2
      <2>3. CASE ~empty
            <3>1. Directories(flat, topDir /\ DOMAIN streams # {}, streams, archives, callsMade)
                  BY <2>1 DEF Directories
            <3> QED BY <1>1, <2>1, <2>3, <3>1
      <2> QED BY <2>2, <2>3
<1> QED BY <1>1, <1>2, <1>3, FreeIs, StreamWorks

LEMMA UndoStep == ASSUME StreamsInv, part' = part, NEW p \in Procs, WS!Undo(p) PROVE StreamsInv'
<1> DEFINE f == Head(call[p].moved)
           c == [call[p] EXCEPT !.moved = Tail(@)]
<1>1. /\ call[p].pc = "undo" /\ call[p].moved # <<>> /\ call' = [call EXCEPT ![p] = c]
      /\ UNCHANGED <<topDir, callsMade, filesMade>>
      BY DEF WS!Undo, WS!Put
<1>2. lapses \subseteq lapses' BY DEF WS!Undo
<1>3. DOMAIN call[p] = CallFields BY DEF StreamsInv
<1>4. /\ DOMAIN c = CallFields /\ c.pc = "undo" /\ c.op = call[p].op /\ c.name = call[p].name
      /\ c.home = call[p].home /\ c.moved = Tail(call[p].moved)
      BY <1>1, <1>3 DEF CallFields
<1> HIDE DEF c
<1>5. ASSUME lapses' = {} PROVE /\ \A q \in Procs : call[q].pc # "idle" => q = p
                                /\ Directories(flat', topDir', streams', archives', callsMade')
                                /\ Kept(flat', streams', archives', filesMade')
                                /\ AtWork(c, flat', streams', archives', callsMade', filesMade')
      <2>1. /\ \A q \in Procs : call[q].pc # "idle" => q = p
            /\ Directories(flat, topDir, streams, archives, callsMade)
            /\ Kept(flat, streams, archives, filesMade)
            /\ AtWork(call[p], flat, streams, archives, callsMade, filesMade)
            BY <1>1, <1>2, <1>5, StreamAlone
      <2>2. call[p].moved \in Seq(filesMade) BY <1>1, <2>1 DEF AtWork
      <2> DEFINE there == WS!Ready(call[p]) /\ f \in (IF WS!Migrating(call[p]) THEN streams[call[p].home]
                                                      ELSE archives[call[p].home])
                 back == WS!Migrating(call[p]) \/ call[p].name \in DOMAIN streams
      <2>3. IF ~there \/ ~back THEN UNCHANGED <<flat, streams, archives>>
            ELSE IF WS!Migrating(call[p])
            THEN /\ flat' = WS!Over(flat, f)
                 /\ streams' = [streams EXCEPT ![call[p].home] = @ \ {f}] /\ UNCHANGED archives
            ELSE /\ streams' = [streams EXCEPT ![call[p].name] = WS!Over(@, f)]
                 /\ archives' = [archives EXCEPT ![call[p].home] = @ \ {f}] /\ UNCHANGED flat
            BY <1>5 DEF WS!Undo
      <2>4. CASE call[p].op = "migrate"
            <3> DEFINE h == call[p].home
            <3>1. h \in DOMAIN streams /\ Carried(flat, streams[h], call[p].moved)
                  BY <1>1, <2>1, <2>4 DEF AtWork
            <3>2. c.home = h /\ WS!Migrating(call[p]) /\ WS!Ready(call[p]) /\ back
                  BY <1>4, <2>4, <3>1 DEF WS!Migrating, WS!Ready
            <3>3. IF f \notin streams[h] THEN UNCHANGED <<flat, streams, archives>>
                  ELSE /\ flat' = WS!Over(flat, f)
                       /\ streams' = [streams EXCEPT ![h] = streams[h] \ {f}] /\ UNCHANGED archives
                  BY <2>3, <3>2
            <3> HIDE DEF h
            <3>4. /\ Tail(call[p].moved) \in Seq(filesMade)
                  /\ f \in streams[h] =>
                       /\ Carried(WS!Over(flat, f), streams[h] \ {f}, Tail(call[p].moved))
                       /\ OneOfKind(WS!Over(flat, f)) /\ OneOfKind(streams[h] \ {f})
                       /\ WS!Over(flat, f) \cup (streams[h] \ {f}) = flat \cup streams[h]
                  /\ f \notin streams[h] => Carried(flat, streams[h], Tail(call[p].moved))
                  BY <1>1, <2>2, <3>1, TakenBack
            <3>5. CASE f \notin streams[h]
                  <4>1. AtWork(c, flat, streams, archives, callsMade, filesMade)
                        BY <1>4, <2>4, <3>1, <3>2, <3>4, <3>5 DEF AtWork
                  <4> QED BY <1>1, <2>1, <3>3, <3>5, <4>1
            <3>6. CASE f \in streams[h]
                  <4> DEFINE fl2 == WS!Over(flat, f)
                             d2 == streams[h] \ {f}
                             st2 == [streams EXCEPT ![h] = d2]
                  <4>1. flat' = fl2 /\ streams' = st2 /\ UNCHANGED archives BY <3>3, <3>6
                  <4>2. /\ OneOfKind(fl2) /\ OneOfKind(d2) /\ fl2 \cup d2 = flat \cup streams[h]
                        /\ Carried(fl2, d2, c.moved) /\ c.moved \in Seq(filesMade)
                        BY <1>4, <3>4, <3>6
                  <4>3. /\ Directories(fl2, topDir, st2, archives, callsMade) /\ Kept(fl2, st2, archives, filesMade)
                        /\ DOMAIN st2 = DOMAIN streams /\ st2[h] = d2
                        <5> HIDE DEF fl2, d2, f
                        <5> QED BY <2>1, <3>1, <4>2, FlatExchanges
                  <4> HIDE DEF fl2, st2, d2
                  <4>4. AtWork(c, fl2, st2, archives, callsMade, filesMade)
                        BY <1>4, <2>4, <3>1, <3>2, <4>2, <4>3 DEF AtWork
                  <4> QED BY <1>1, <2>1, <4>1, <4>3, <4>4
            <3> QED BY <3>5, <3>6
      <2>5. CASE call[p].op # "migrate"
            <3> DEFINE n == call[p].name
                       h == call[p].home
            <3>1. n \in DOMAIN streams /\ h \in DOMAIN archives /\ Carried(streams[n], archives[h], call[p].moved)
                  BY <1>1, <2>1, <2>5 DEF AtWork
            <3>2. c.home = h /\ c.name = n /\ ~WS!Migrating(call[p]) /\ WS!Ready(call[p]) /\ back
                  BY <1>4, <2>5, <3>1 DEF WS!Migrating, WS!Ready
            <3>3. IF f \notin archives[h] THEN UNCHANGED <<flat, streams, archives>>
                  ELSE /\ streams' = [streams EXCEPT ![n] = WS!Over(streams[n], f)]
                       /\ archives' = [archives EXCEPT ![h] = archives[h] \ {f}] /\ UNCHANGED flat
                  BY <2>3, <3>1, <3>2
            <3> HIDE DEF h, n
            <3>4. /\ Tail(call[p].moved) \in Seq(filesMade)
                  /\ f \in archives[h] =>
                       /\ Carried(WS!Over(streams[n], f), archives[h] \ {f}, Tail(call[p].moved))
                       /\ OneOfKind(WS!Over(streams[n], f)) /\ OneOfKind(archives[h] \ {f})
                       /\ WS!Over(streams[n], f) \cup (archives[h] \ {f}) = streams[n] \cup archives[h]
                  /\ f \notin archives[h] => Carried(streams[n], archives[h], Tail(call[p].moved))
                  BY <1>1, <2>2, <3>1, TakenBack
            <3>5. CASE f \notin archives[h]
                  <4>1. AtWork(c, flat, streams, archives, callsMade, filesMade)
                        BY <1>4, <2>5, <3>1, <3>2, <3>4, <3>5 DEF AtWork
                  <4> QED BY <1>1, <2>1, <3>3, <3>5, <4>1
            <3>6. CASE f \in archives[h]
                  <4> DEFINE d2 == WS!Over(streams[n], f)
                             a2 == archives[h] \ {f}
                             st2 == [streams EXCEPT ![n] = d2]
                             ar2 == [archives EXCEPT ![h] = a2]
                  <4>1. streams' = st2 /\ archives' = ar2 /\ UNCHANGED flat BY <3>3, <3>6
                  <4>2. /\ OneOfKind(d2) /\ OneOfKind(a2) /\ d2 \cup a2 = streams[n] \cup archives[h]
                        /\ Carried(d2, a2, c.moved) /\ c.moved \in Seq(filesMade)
                        BY <1>4, <3>4, <3>6
                  <4>3. /\ Directories(flat, topDir, st2, ar2, callsMade) /\ Kept(flat, st2, ar2, filesMade)
                        /\ DOMAIN st2 = DOMAIN streams /\ st2[n] = d2
                        /\ DOMAIN ar2 = DOMAIN archives /\ ar2[h] = a2
                        <5> HIDE DEF d2, a2, f
                        <5> QED BY <2>1, <3>1, <4>2, ArchiveExchanges
                  <4> HIDE DEF d2, a2, st2, ar2
                  <4>4. AtWork(c, flat, st2, ar2, callsMade, filesMade)
                        BY <1>4, <2>5, <3>1, <3>2, <4>2, <4>3 DEF AtWork
                  <4> QED BY <1>1, <2>1, <4>1, <4>3, <4>4
            <3> QED BY <3>5, <3>6
      <2> QED BY <2>4, <2>5
<1> QED BY <1>1, <1>2, <1>4, <1>5, StreamWorks

LEMMA UndoneStep == ASSUME StreamsInv, part' = part, NEW p \in Procs, WS!Undone(p) PROVE StreamsInv'
<1> DEFINE h == call[p].home
<1>1. /\ call[p].pc = "undo" /\ call[p].moved = <<>> /\ call' = [call EXCEPT ![p] = WS!Free]
      /\ UNCHANGED <<flat, callsMade, filesMade, lapses>>
      /\ IF call[p].op = "migrate"
         THEN streams' = WS!Dropped(streams, h) /\ topDir' = (DOMAIN streams' # {}) /\ UNCHANGED archives
         ELSE /\ archives' = WS!Dropped(archives, h)
              /\ \/ topDir' = TRUE /\ streams' = WS!Made(streams, call[p].name)
                 \/ UNCHANGED <<topDir, streams>>
      BY DEF WS!Undone, WS!Put, WS!Migrating, WS!SetPointer
<1>2. AtWork(WS!Free, flat', streams', archives', callsMade', filesMade') BY FreeIs DEF AtWork
<1>3. ASSUME lapses' = {} PROVE /\ \A q \in Procs : call[q].pc # "idle" => q = p
                                /\ Directories(flat', topDir', streams', archives', callsMade')
                                /\ Kept(flat', streams', archives', filesMade')
      <2>1. /\ \A q \in Procs : call[q].pc # "idle" => q = p
            /\ Directories(flat, topDir, streams, archives, callsMade)
            /\ Kept(flat, streams, archives, filesMade)
            /\ AtWork(call[p], flat, streams, archives, callsMade, filesMade)
            BY <1>1, <1>3, StreamAlone
      <2>2. CASE call[p].op = "migrate"
            <3>1. h \in DOMAIN streams /\ streams[h] = {} BY <1>1, <2>1, <2>2 DEF AtWork, Carried
            <3> DEFINE st == WS!Dropped(streams, h)
            <3>2. streams' = st /\ topDir' = (DOMAIN st # {}) /\ UNCHANGED archives BY <1>1, <2>2
            <3> HIDE DEF h
            <3>3. /\ Directories(flat, topDir /\ DOMAIN st # {}, st, archives, callsMade)
                  /\ Kept(flat, st, archives, filesMade)
                  BY <2>1, <3>1, DirectoriesStay
            <3> HIDE DEF st
            <3>4. Directories(flat, DOMAIN st # {}, st, archives, callsMade) BY <3>3 DEF Directories
            <3> QED BY <1>1, <2>1, <3>2, <3>3, <3>4
      <2>3. CASE call[p].op # "migrate"
            <3>1. h \in DOMAIN archives /\ archives[h] = {} BY <1>1, <2>1, <2>3 DEF AtWork, Carried
            <3> DEFINE ar == WS!Dropped(archives, h)
            <3>2. archives' = ar BY <1>1, <2>3
            <3>3. DOMAIN ar = DOMAIN archives \ {h} /\ \A a \in DOMAIN archives \ {h} : ar[a] = archives[a]
                  BY DroppedIs
            <3> HIDE DEF h, ar
            <3>4. Directories(flat, topDir, streams, ar, callsMade) /\ Kept(flat, streams, ar, filesMade)
                  BY <2>1, <3>1, <3>3 DEF Directories, Kept
            <3>5. /\ Directories(flat, TRUE, WS!Made(streams, call[p].name), ar, callsMade)
                  /\ Kept(flat, WS!Made(streams, call[p].name), ar, filesMade)
                  BY <3>4, DirectoriesStay
            <3> QED BY <1>1, <2>1, <2>3, <3>2, <3>4, <3>5
      <2> QED BY <2>2, <2>3
<1> QED BY <1>1, <1>2, <1>3, FreeIs, StreamWorks

-----------------------------------------------------------------------------
(* Altogether. *)

LEMMA StreamsInit == part = "streams" /\ WS!Init => StreamsInv
<1> SUFFICES ASSUME part = "streams", WS!Init PROVE StreamsInv
    OBVIOUS
<1>1. /\ call = [p \in Procs |-> WS!Free] /\ callsMade = 0 /\ archives = << >>
      /\ filesMade = [kind : WS!Kinds, by : {0}]
      /\ \/ flat = filesMade /\ topDir = FALSE /\ streams = << >>
         \/ flat = {} /\ topDir = TRUE /\ streams = [n \in {MainStream} |-> filesMade]
      BY DEF WS!Init
<1>2. DOMAIN archives = {} BY <1>1
<1>3. OneOfKind(filesMade) /\ OneOfKind({}) BY <1>1 DEF OneOfKind
<1>4. /\ \A f : f \in filesMade <=> f \in flat \/ \E n \in DOMAIN streams : f \in streams[n]
      /\ OneOfKind(flat) /\ (\A n \in DOMAIN streams : OneOfKind(streams[n])) /\ (~topDir => DOMAIN streams = {})
      <2>1. CASE flat = filesMade /\ topDir = FALSE /\ streams = << >>
            <3>1. DOMAIN streams = {} BY <2>1
            <3> QED BY <2>1, <3>1, <1>3
      <2>2. CASE flat = {} /\ topDir = TRUE /\ streams = [n \in {MainStream} |-> filesMade]
            BY <2>2, <1>3
      <2> QED BY <1>1, <2>1, <2>2
<1>5. Directories(flat, topDir, streams, archives, callsMade)
      BY <1>1, <1>2, <1>4, DocumentConstants DEF Directories, WS!WorkstreamConstants
<1>6. Kept(flat, streams, archives, filesMade) BY <1>2, <1>4 DEF Kept
<1>7. \A p \in Procs : call[p] = WS!Free BY <1>1
<1>8. \A p \in Procs : AtWork(call[p], flat, streams, archives, callsMade, filesMade)
      BY <1>7, FreeIs DEF AtWork
<1> QED BY <1>1, <1>5, <1>6, <1>7, <1>8, FreeIs DEF StreamsInv, StreamsSound

LEMMA StreamsStep ==
    ASSUME StreamsInv, part' = part, [WS!Next]_(WS!streamVars)
    PROVE  StreamsInv'
<1>1. ASSUME NEW p \in Procs,
          \/ WS!Create(p) \/ WS!MigrationBegins(p) \/ WS!MakeDir(p) \/ WS!WriteState(p)
          \/ WS!Complete(p) \/ WS!ChooseArchive(p) \/ WS!MakeArchive(p)
          \/ WS!Move(p) \/ WS!MoveFails(p) \/ WS!Undo(p) \/ WS!Undone(p) \/ WS!Moved(p) \/ WS!CleanUp(p)
          \/ WS!Switch(p) \/ WS!Point(p) \/ WS!Forget(p) \/ WS!Consult(p) \/ WS!Crash(p)
      PROVE StreamsInv'
      BY <1>1, BeginFiles, MigrationBeginsStep, MakeDirStep, WriteStateStep, ChooseArchiveStep, MakeArchiveStep,
         MoveStep, PassingSteps, UndoStep, UndoneStep, CleanUpStep, PointStep, PointerSteps
<1>2. CASE UNCHANGED WS!streamVars
      BY <1>2 DEF WS!streamVars, StreamsInv, StreamsSound
<1> QED BY <1>1, <1>2 DEF WS!Next

LEMMA StreamsAnswers == StreamsInv => WS!FilesSurvive
BY KeptIs DEF StreamsInv, StreamsSound, WS!FilesSurvive

-----------------------------------------------------------------------------
(* The installer's migrations, for any installers, runs and failing steps. *)
(* While no two of them overlap where the model says so, the one that      *)
(* holds the lock is the only one to change files, except for a later      *)
(* rollback, which runs alone.                                             *)

\* The part's variables, by their names in InstallerMigrations.
files == v1         \* config
applied == v2
copies == v3
migrator == v6
runs == v7
wrote == v9
flaws == v10
USE DEF files, applied, copies, migrator, runs, wrote, flaws

MigratorFields == {"pc", "run", "plan", "ids", "undo", "prev", "broken", "done", "locked"}
Waiting == {"idle", "lock", "reclaim", "created"}
Owning == {"plan", "mark", "start", "act", "change", "restore", "unlock"}

\* The migrations that clean a file, the file and what must go from it.
Cleaning == {"hooks", "rename"}
Place(id) == IF id = "hooks" THEN "hooks" ELSE IF id = "rename" THEN "old" ELSE "odd"
Dirt(id) == IF id = "hooks" THEN "hook" ELSE "shipped"
IsClean(id, cf) == Dirt(id) \notin cf[Place(id)]

Actions == [id : IM!Ids, type : {"record-baseline", "prompt-user", "rewrite-json", "remove-managed",
                                 "backup-and-remove", "baseline-preserve-user"},
            path : IM!Paths, value : SUBSET IM!Parts]

\* An action touches its migration's file alone, and takes the dirt out of it.
ActionSound(a, users) ==
    /\ IM!Touches(a) => a.path = Place(a.id) /\ Dirt(a.id) \notin a.value /\ (a.id # "hooks" => a.value = {})
    /\ a.id = "hooks" => a.type = "rewrite-json" /\ a.value \cap IM!UserParts = users
    /\ a.type = "prompt-user" => a.id = "baseline"

PlanSound(plan, users) ==
    /\ plan \in Seq(Actions)
    /\ \A i \in DOMAIN plan : ActionSound(plan[i], users)
    /\ \A i, j \in DOMAIN plan :
          IM!Touches(plan[i]) /\ IM!Touches(plan[j]) /\ plan[i].id = plan[j].id => i = j

Undoes(m, f) == \E i \in DOMAIN m.undo : m.undo[i] = f
Pending(m, id) == \E i \in DOMAIN m.plan : IM!Touches(m.plan[i]) /\ m.plan[i].id = id
Asks(m) == IM!Prompts(m.plan) # {}

\* What a run has in hand at each of its steps.
Stage(m) ==
    /\ m.pc = "idle" <=> m.run = 0
    /\ m.pc \in Waiting \cup {"plan", "mark"} => m.plan = <<>>
    /\ m.pc \in Waiting \cup {"plan", "mark", "start", "resolve", "tidy"} => m.undo = <<>>
    /\ m.pc \in Waiting \cup {"plan", "mark", "start", "act", "change", "resolve"} => ~m.done /\ ~m.broken
    /\ m.pc \in {"start", "act", "change", "restore"} => ~m.done /\ ~Asks(m)
    /\ m.pc = "unlock" => (m.done \/ m.undo = <<>>) /\ (Asks(m) => ~m.done /\ ~m.broken)
    /\ m.pc \in {"installed", "undo", "tidy"} => m.done
    /\ m.done => ~m.broken
    /\ m.pc = "change" => m.plan # <<>> /\ IM!Touches(Head(m.plan)) /\ Undoes(m, Head(m.plan).path)

Planned(m) == m.pc \in {"mark", "start", "act", "change", "resolve"} \/ (m.pc = "unlock" /\ Asks(m))
Early(m) == m.pc \in Waiting \cup {"plan"} \/ Planned(m)

\* The copies of a run are of the files it can undo; each holds what the user
\* has in the file.
Copied(m, cf, cs, w) ==
    /\ Early(m) =>
          \A c \in cs : c[1] = m.run => Undoes(m, c[3])
    /\ \A f : Undoes(m, f) => \E c \in cs : c[1] = m.run /\ c[2] = "rollback" /\ c[3] = f
    /\ \A c \in cs : c[1] = m.run /\ Undoes(m, c[3]) =>
          /\ cf[c[3]] \cap IM!UserParts \subseteq c[4]
          /\ c[3] = "hooks" => c[4] \cap IM!UserParts = w["hooks"]
    /\ m.pc = "act" => \A i \in DOMAIN m.plan : IM!Touches(m.plan[i]) => ~Undoes(m, m.plan[i].path)
    /\ m.pc = "change" => \A i \in DOMAIN m.plan : i # 1 /\ IM!Touches(m.plan[i]) => ~Undoes(m, m.plan[i].path)

\* What it will record is done or still planned.
Records(m, cf, ap) ==
    /\ m.pc \in {"act", "change", "restore"} => m.prev = ap
    /\ m.done => m.prev \subseteq ap
    /\ Planned(m) =>
          \A id \in m.ids \cap Cleaning : IsClean(id, cf) \/ Pending(m, id)

InstallerSound(m, cf, ap, cs, n, w) ==
    /\ DOMAIN m = MigratorFields /\ m.run \in Nat /\ m.run <= n /\ m.ids \subseteq IM!Ids
    /\ m.undo \in Seq(IM!Paths) /\ PlanSound(m.plan, w["hooks"])
    /\ Stage(m) /\ Copied(m, cf, cs, w) /\ Records(m, cf, ap)

\* Two installers.
Apart(m, q, cs) ==
    /\ m.pc # "idle" /\ q.pc # "idle" => m.run # q.run
    /\ ~(m.pc \in Owning /\ q.pc \in Owning)
    /\ ~(m.pc \in IM!Undoing /\ q.pc \in IM!Undoing)
    /\ m.pc \in Owning /\ q.pc \notin Owning =>
          \A c, d \in cs :
             c[1] = m.run /\ d[1] = q.run /\ c[3] = d[3] /\ Undoes(m, c[3]) /\ Undoes(q, c[3]) =>
                c[4] \cap IM!UserParts \subseteq d[4]
    /\ m.pc \in Owning /\ q.pc = "resolve" =>
          \A id \in q.ids \cap Cleaning, c \in cs :
             c[1] = m.run /\ c[3] = Place(id) /\ Undoes(m, c[3]) /\ ~Pending(q, id) => Dirt(id) \notin c[4]

\* A later rollback of another run than p will take id out of the record.
Withdrawn(id, p, mg) == \E q \in Procs : q # p /\ mg[q].pc = "undo" /\ id \notin mg[q].prev

CopiesClean(cs, mg) ==
    \A p \in Procs, id \in Cleaning, c \in cs :
        c[1] = mg[p].run /\ c[3] = Place(id) /\ Undoes(mg[p], c[3]) /\ id \in mg[p].prev =>
           Dirt(id) \notin c[4] \/ Withdrawn(id, p, mg)

RecordKept(cf, ap, mg) ==
    \A id \in ap \cap Cleaning :
        IsClean(id, cf) \/ \E q \in Procs : mg[q].pc = "undo" /\ id \notin mg[q].prev

\* A copy that no run will drop before its file is put back.
Safe(c, mg) == \A p \in Procs : mg[p].run = c[1] => mg[p].broken \/ Undoes(mg[p], c[3])
UserKept(cf, cs, mg, w) ==
    \A f \in IM!Paths : \A u \in w[f] :
        u \in cf[f] \/ \E c \in cs : c[3] = f /\ u \in c[4] /\ Safe(c, mg)

CopiesSound(cs, n) ==
    /\ \A c \in cs : c \in Nat \X {"rollback", "backup"} \X IM!Paths \X SUBSET IM!Parts /\ c[1] > 0 /\ c[1] <= n
    /\ \A c, d \in cs : c[1] = d[1] /\ c[3] = d[3] => c[4] = d[4]

FilesSound(cf, w) ==
    /\ cf \in [IM!Paths -> SUBSET IM!Parts] /\ w \in [IM!Paths -> SUBSET IM!UserParts]
    /\ cf["hooks"] \cap IM!UserParts = w["hooks"]

MigrationsSound(cf, ap, cs, mg, n, w) ==
    /\ FilesSound(cf, w) /\ CopiesSound(cs, n)
    /\ \A p \in Procs : InstallerSound(mg[p], cf, ap, cs, n, w)
    /\ \A p, q \in Procs : p # q => Apart(mg[p], mg[q], cs)
    /\ CopiesClean(cs, mg) /\ RecordKept(cf, ap, mg) /\ UserKept(cf, cs, mg, w)

MigrationsInv ==
    /\ DOMAIN migrator = Procs /\ runs \in Nat
    /\ flaws = {} => MigrationsSound(files, applied, copies, migrator, runs, wrote)

-----------------------------------------------------------------------------
(* Steps that change no file and no copy. *)

\* What such a step may do to the record of the installer that takes it.
Passes(m, m2, others, n) ==
    /\ (m2.run = m.run /\ m.pc # "idle") \/ m2.pc = "idle" \/ m2.run > n
    /\ \A f : Undoes(m2, f) => Undoes(m, f) /\ m2.prev = m.prev /\ m2.run = m.run
    /\ m2.run = m.run /\ m2.pc # "idle" =>
          /\ m.broken => m2.broken
          /\ m2.broken \/ \A f : Undoes(m, f) => Undoes(m2, f)
    /\ m.pc = "undo" => m2.pc = "undo" /\ m2.prev = m.prev
    /\ m2.pc \in Owning /\ m.pc \notin Owning =>
          (\A f : ~Undoes(m2, f)) /\ \A q \in others : q.pc \notin Owning
    /\ m2.pc = "resolve" => m.pc \in Owning
    /\ m2.pc \in IM!Undoing /\ m.pc \notin IM!Undoing => \A q \in others : q.pc \notin IM!Undoing

LEMMA PassesApart ==
    ASSUME NEW m, NEW m2, NEW q, NEW others, NEW cs, NEW n \in Nat, q \in others, q.run <= n, q.run \in Nat,
           m2.run \in Nat, Passes(m, m2, others, n), Apart(m, q, cs), Apart(q, m, cs)
    PROVE  Apart(m2, q, cs) /\ Apart(q, m2, cs)
<1>1. m2.pc # "idle" /\ q.pc # "idle" => m2.run # q.run BY DEF Passes, Apart
<1>2. /\ ~(m2.pc \in Owning /\ q.pc \in Owning)
      /\ ~(m2.pc \in IM!Undoing /\ q.pc \in IM!Undoing)
      BY DEF Passes, Apart
<1>3. ASSUME m2.pc \in Owning, q.pc \notin Owning, NEW c \in cs, NEW d \in cs,
             c[1] = m2.run, d[1] = q.run, c[3] = d[3], Undoes(m2, c[3]), Undoes(q, c[3])
      PROVE  c[4] \cap IM!UserParts \subseteq d[4]
      <2>1. Undoes(m, c[3]) /\ m2.run = m.run /\ m.pc \in Owning BY <1>3 DEF Passes
      <2> QED BY <1>3, <2>1 DEF Apart
<1>4. ASSUME q.pc \in Owning, m2.pc \notin Owning, NEW c \in cs, NEW d \in cs,
             c[1] = q.run, d[1] = m2.run, c[3] = d[3], Undoes(q, c[3]), Undoes(m2, c[3])
      PROVE  c[4] \cap IM!UserParts \subseteq d[4]
      <2>1. Undoes(m, c[3]) /\ m2.run = m.run BY <1>4 DEF Passes
      <2>2. m.pc \notin Owning BY <1>4 DEF Apart
      <2> QED BY <1>4, <2>1, <2>2 DEF Apart
<1>5. ASSUME m2.pc \in Owning, q.pc = "resolve", NEW id \in q.ids \cap Cleaning, NEW c \in cs,
             c[1] = m2.run, c[3] = Place(id), Undoes(m2, c[3]), ~Pending(q, id)
      PROVE  Dirt(id) \notin c[4]
      <2>1. Undoes(m, c[3]) /\ m2.run = m.run /\ m.pc \in Owning BY <1>5 DEF Passes
      <2> QED BY <1>5, <2>1 DEF Apart
<1>6. ~(q.pc \in Owning /\ m2.pc = "resolve") BY DEF Passes, Apart
<1>7. Apart(m2, q, cs) BY <1>1, <1>2, <1>3, <1>5 DEF Apart
<1>8. Apart(q, m2, cs) BY <1>1, <1>2, <1>4, <1>6 DEF Apart
<1> QED BY <1>7, <1>8

\* The record can only grow, by the installer that holds the lock, by what is clean.
LEMMA PassesOn ==
    ASSUME NEW cf, NEW ap, NEW cs, NEW mg, NEW n \in Nat, NEW w, MigrationsSound(cf, ap, cs, mg, n, w),
           NEW p \in Procs, NEW m2, NEW ap2, NEW n2 \in Nat, n <= n2, DOMAIN mg = Procs,
           Passes(mg[p], m2, {mg[q] : q \in Procs \ {p}}, n), InstallerSound(m2, cf, ap2, cs, n2, w),
           ap \subseteq ap2, ap2 # ap => mg[p].pc \in Owning,
           \A id \in (ap2 \ ap) \cap Cleaning : IsClean(id, cf)
    PROVE  MigrationsSound(cf, ap2, cs, [mg EXCEPT ![p] = m2], n2, w)
<1> DEFINE mg2 == [mg EXCEPT ![p] = m2]
<1>1. mg2[p] = m2 /\ \A q \in Procs : q # p => mg2[q] = mg[q] OBVIOUS
<1> HIDE DEF mg2
<1>2. FilesSound(cf, w) /\ CopiesSound(cs, n2) BY DEF MigrationsSound, CopiesSound
<1>3. ASSUME NEW q \in Procs PROVE InstallerSound(mg2[q], cf, ap2, cs, n2, w)
      <2>1. CASE q = p BY <1>1, <2>1
      <2>2. CASE q # p
            <3>1. mg2[q] = mg[q] /\ InstallerSound(mg[q], cf, ap, cs, n, w) BY <2>2, <1>1 DEF MigrationsSound
            <3>2. ap2 # ap => mg[q].pc \notin Owning BY <2>2 DEF MigrationsSound, Apart
            <3>3. Records(mg[q], cf, ap2) BY <3>1, <3>2 DEF InstallerSound, Records, Owning
            <3> QED BY <3>1, <3>3 DEF InstallerSound
      <2> QED BY <2>1, <2>2
<1>4. ASSUME NEW q \in Procs, q # p PROVE Apart(m2, mg[q], cs) /\ Apart(mg[q], m2, cs)
      <2>1. mg[q].run \in Nat /\ mg[q].run <= n /\ m2.run \in Nat BY DEF MigrationsSound, InstallerSound
      <2>2. Apart(mg[p], mg[q], cs) /\ Apart(mg[q], mg[p], cs) BY <1>4 DEF MigrationsSound
      <2>3. mg[q] \in {mg[r] : r \in Procs \ {p}} BY <1>4
      <2> QED BY <2>1, <2>2, <2>3, PassesApart
<1>5. \A q, r \in Procs : q # r => Apart(mg2[q], mg2[r], cs)
      BY <1>1, <1>4 DEF MigrationsSound
<1>6. CopiesClean(cs, mg2)
      <2> SUFFICES ASSUME NEW q \in Procs, NEW id \in Cleaning, NEW c \in cs, c[1] = mg2[q].run,
                          c[3] = Place(id), Undoes(mg2[q], c[3]), id \in mg2[q].prev
                   PROVE  Dirt(id) \notin c[4] \/ Withdrawn(id, q, mg2)
          BY DEF CopiesClean
      <2>1. c[1] = mg[q].run /\ Undoes(mg[q], c[3]) /\ id \in mg[q].prev BY <1>1 DEF Passes
      <2>2. Dirt(id) \notin c[4] \/ Withdrawn(id, q, mg) BY <2>1 DEF MigrationsSound, CopiesClean
      <2>3. Withdrawn(id, q, mg) => Withdrawn(id, q, mg2) BY <1>1 DEF Withdrawn, Passes
      <2> QED BY <2>2, <2>3
<1>7. RecordKept(cf, ap2, mg2)
      <2> SUFFICES ASSUME NEW id \in ap2 \cap Cleaning
                   PROVE  IsClean(id, cf) \/ \E q \in Procs : mg2[q].pc = "undo" /\ id \notin mg2[q].prev
          BY DEF RecordKept
      <2>1. CASE id \in ap
            <3>1. IsClean(id, cf) \/ \E q \in Procs : mg[q].pc = "undo" /\ id \notin mg[q].prev
                  BY <2>1 DEF MigrationsSound, RecordKept
            <3>2. ASSUME NEW q \in Procs, mg[q].pc = "undo", id \notin mg[q].prev
                  PROVE  mg2[q].pc = "undo" /\ id \notin mg2[q].prev
                  BY <3>2, <1>1 DEF Passes
            <3> QED BY <3>1, <3>2
      <2>2. CASE id \notin ap BY <2>2
      <2> QED BY <2>1, <2>2
<1>8. UserKept(cf, cs, mg2, w)
      <2>1. ASSUME NEW c \in cs, Safe(c, mg) PROVE Safe(c, mg2)
            <3> SUFFICES ASSUME NEW q \in Procs, mg2[q].run = c[1]
                         PROVE  mg2[q].broken \/ Undoes(mg2[q], c[3])
                BY DEF Safe
            <3>1. c[1] > 0 /\ c[1] <= n /\ c[1] \in Nat BY DEF MigrationsSound, CopiesSound
            <3>2. CASE q # p BY <3>2, <1>1, <2>1 DEF Safe
            <3>3. CASE q = p
                  <4>1. m2.pc # "idle" BY <3>1, <3>3, <1>1 DEF InstallerSound, Stage
                  <4>2. m2.run = mg[p].run BY <3>1, <3>3, <4>1, <1>1 DEF Passes
                  <4>3. mg[p].broken \/ Undoes(mg[p], c[3]) BY <2>1, <3>3, <1>1, <4>2 DEF Safe
                  <4> QED BY <4>1, <4>2, <4>3, <3>3, <1>1 DEF Passes
            <3> QED BY <3>2, <3>3
      <2> QED BY <2>1 DEF MigrationsSound, UserKept
<1> QED BY <1>2, <1>3, <1>5, <1>6, <1>7, <1>8 DEF MigrationsSound, mg2

LEMMA StepPasses ==
    ASSUME MigrationsInv, NEW p \in Procs, NEW m2, migrator' = [migrator EXCEPT ![p] = m2],
           runs' \in Nat, runs <= runs', UNCHANGED <<files, copies, wrote>>, flaws \subseteq flaws',
           applied \subseteq applied',
           flaws' = {} /\ MigrationsSound(files, applied, copies, migrator, runs, wrote) =>
              /\ Passes(migrator[p], m2, {migrator[q] : q \in Procs \ {p}}, runs)
              /\ InstallerSound(m2, files, applied', copies, runs', wrote)
              /\ applied' # applied => migrator[p].pc \in Owning
              /\ \A id \in (applied' \ applied) \cap Cleaning : IsClean(id, files)
    PROVE  MigrationsInv'
<1>1. DOMAIN migrator' = Procs BY DEF MigrationsInv
<1>2. ASSUME flaws' = {}
      PROVE  MigrationsSound(files', applied', copies', migrator', runs', wrote')
      <2>1. /\ MigrationsSound(files, applied, copies, migrator, runs, wrote)
            /\ runs \in Nat /\ DOMAIN migrator = Procs
            BY <1>2 DEF MigrationsInv
      <2>2. MigrationsSound(files, applied', copies, [migrator EXCEPT ![p] = m2], runs', wrote)
            BY <2>1, <1>2, PassesOn
      <2> QED BY <2>2
<1> QED BY <1>1, <1>2 DEF MigrationsInv

LEMMA AwayIs ==
    /\ DOMAIN IM!Away = MigratorFields /\ IM!Away.pc = "idle" /\ IM!Away.run = 0
    /\ IM!Away.plan = <<>> /\ IM!Away.undo = <<>> /\ IM!Away.ids = {}
    /\ IM!Away.done = FALSE /\ IM!Away.broken = FALSE
BY DEF IM!Away, MigratorFields

LEMMA NoPlan == ASSUME NEW users PROVE PlanSound(<<>>, users) /\ IM!Prompts(<<>>) = {}
BY DEF PlanSound, IM!Prompts

\* One who has nothing in hand.
LEMMA EmptyHands ==
    ASSUME NEW cf, NEW ap, NEW cs, NEW n \in Nat, NEW w, CopiesSound(cs, n), NEW m2,
           DOMAIN m2 = MigratorFields, m2.run \in Nat, m2.run <= n, m2.ids \subseteq IM!Ids,
           m2.pc \in Waiting \cup {"plan"}, m2.plan = <<>>, m2.undo = <<>>, ~m2.done, ~m2.broken,
           m2.pc = "idle" <=> m2.run = 0, \A c \in cs : c[1] # m2.run
    PROVE  InstallerSound(m2, cf, ap, cs, n, w)
<1>1. \A f : ~Undoes(m2, f) BY DEF Undoes
<1>2. Stage(m2) BY DEF Stage, Waiting
<1>3. Copied(m2, cf, cs, w) BY <1>1 DEF Copied, Waiting
<1>4. Records(m2, cf, ap) BY DEF Records, Planned, Waiting
<1>5. m2.undo \in Seq(IM!Paths) OBVIOUS
<1> QED BY <1>2, <1>3, <1>4, <1>5, NoPlan DEF InstallerSound

LEMMA GoesAway ==
    ASSUME NEW cf, NEW ap, NEW cs, NEW n \in Nat, NEW w, CopiesSound(cs, n)
    PROVE  InstallerSound(IM!Away, cf, ap, cs, n, w)
<1>1. \A c \in cs : c[1] # 0 BY DEF CopiesSound
<1> QED BY <1>1, AwayIs, EmptyHands DEF Waiting

\* The same in hand at another step.
SameInHand(m2, m) ==
    /\ DOMAIN m2 = MigratorFields /\ m2.run = m.run /\ m2.plan = m.plan /\ m2.ids = m.ids /\ m2.undo = m.undo
    /\ m2.prev = m.prev /\ m2.broken = m.broken /\ m2.done = m.done

LEMMA GoesIs ==
    ASSUME NEW m, DOMAIN m = MigratorFields, NEW pc
    PROVE  [m EXCEPT !.pc = pc].pc = pc /\ SameInHand([m EXCEPT !.pc = pc], m)
BY DEF SameInHand, MigratorFields

Rests(m2, m, n, n2) ==
    \/ m2 = IM!Away
    \/ /\ DOMAIN m2 = MigratorFields /\ m2.pc = "lock" /\ m2.run = n2 /\ n2 = n + 1
       /\ m2.plan = <<>> /\ m2.undo = <<>> /\ m2.ids = {} /\ m2.done = FALSE /\ m2.broken = FALSE
    \/ SameInHand(m2, m) /\ m2.pc \in {"created", "reclaim", "lock", "plan"} /\ m.pc # "idle"

LEMMA RestsOn ==
    ASSUME MigrationsInv, NEW p \in Procs, NEW m2, migrator' = [migrator EXCEPT ![p] = m2],
           runs' \in Nat, runs <= runs', UNCHANGED <<files, copies, wrote, applied>>, flaws \subseteq flaws',
           migrator[p].pc \in Waiting,
           DOMAIN migrator[p] = MigratorFields => Rests(m2, migrator[p], runs, runs'),
           flaws' = {} /\ DOMAIN migrator[p] = MigratorFields /\ m2.pc = "plan" =>
              \A q \in Procs \ {p} : migrator[q].pc \notin Owning
    PROVE  MigrationsInv'
<1> DEFINE m == migrator[p]
<1>1. ASSUME flaws' = {}, MigrationsSound(files, applied, copies, migrator, runs, wrote)
      PROVE  /\ Passes(m, m2, {migrator[q] : q \in Procs \ {p}}, runs)
             /\ InstallerSound(m2, files, applied', copies, runs', wrote)
      <2>1. /\ DOMAIN m = MigratorFields /\ m.run \in Nat /\ m.run <= runs /\ m.ids \subseteq IM!Ids
            /\ m.plan = <<>> /\ m.undo = <<>> /\ ~m.done /\ ~m.broken /\ (m.pc = "idle" <=> m.run = 0)
            /\ \A c \in copies : c[1] = m.run => Undoes(m, c[3])
            BY <1>1 DEF MigrationsSound, InstallerSound, Stage, Copied, Early, Waiting
      <2>2. CopiesSound(copies, runs) /\ CopiesSound(copies, runs') /\ runs \in Nat
            BY <1>1 DEF MigrationsSound, CopiesSound, MigrationsInv
      <2>3. /\ DOMAIN m2 = MigratorFields /\ m2.run \in Nat /\ m2.run <= runs' /\ m2.ids \subseteq IM!Ids
            /\ m2.plan = <<>> /\ m2.undo = <<>> /\ ~m2.done /\ ~m2.broken
            /\ m2.pc \in Waiting \cup {"plan"} /\ (m2.pc = "idle" <=> m2.run = 0)
            /\ (m2.run = m.run /\ m.pc # "idle") \/ m2.pc = "idle" \/ m2.run > runs
            BY <2>1, <2>2, AwayIs DEF Rests, SameInHand, Waiting
      <2>4. \A f : ~Undoes(m, f) /\ ~Undoes(m2, f) BY <2>1, <2>3 DEF Undoes
      <2>5. \A c \in copies : c[1] # m2.run
            <3> SUFFICES ASSUME NEW c \in copies, c[1] = m2.run PROVE FALSE OBVIOUS
            <3>1. c[1] > 0 /\ c[1] <= runs /\ c[1] \in Nat BY <2>2 DEF CopiesSound
            <3>2. m2.run = m.run BY <3>1, <2>2, <2>3
            <3> QED BY <3>2, <2>1, <2>4
      <2>6. InstallerSound(m2, files, applied', copies, runs', wrote)
            BY <2>2, <2>3, <2>5, EmptyHands
      <2>7. m2.pc = "plan" => \A q \in {migrator[r] : r \in Procs \ {p}} : q.pc \notin Owning
            BY <1>1, <2>1
      <2>8. Passes(m, m2, {migrator[q] : q \in Procs \ {p}}, runs)
            BY <2>1, <2>3, <2>4, <2>7 DEF Passes, Waiting, Owning, IM!Undoing
      <2> QED BY <2>6, <2>8
<1> HIDE DEF m
<1>2. runs \in Nat BY DEF MigrationsInv
<1> QED BY <1>1, StepPasses DEF m

LEMMA LockingSteps ==
    ASSUME MigrationsInv, NEW p \in Procs,
           \/ IM!Begin(p) \/ IM!Create(p) \/ IM!WritePid(p) \/ IM!FindsDead(p) \/ IM!Reclaim(p) \/ IM!TimesOut(p)
    PROVE  MigrationsInv'
<1>1. runs \in Nat BY DEF MigrationsInv
<1>2. CASE IM!Begin(p)
      <2> DEFINE m2 == [IM!Away EXCEPT !.pc = "lock", !.run = runs + 1]
      <2>1. /\ migrator' = [migrator EXCEPT ![p] = m2] /\ runs' = runs + 1
            /\ UNCHANGED <<files, copies, wrote, applied, flaws>> /\ migrator[p].pc \in Waiting
            BY <1>2 DEF IM!Begin, IM!Put, Waiting
      <2>2. /\ DOMAIN m2 = MigratorFields /\ m2.pc = "lock" /\ m2.run = runs + 1
            /\ m2.plan = <<>> /\ m2.undo = <<>> /\ m2.ids = {} /\ m2.done = FALSE /\ m2.broken = FALSE
            BY AwayIs DEF MigratorFields
      <2> HIDE DEF m2
      <2>3. Rests(m2, migrator[p], runs, runs') /\ runs' \in Nat /\ runs <= runs'
            BY <1>1, <2>1, <2>2 DEF Rests
      <2> QED BY <2>1, <2>2, <2>3, RestsOn
<1>3. CASE IM!WritePid(p)
      <2>1. /\ flaws' = {} => \A q \in Procs \ {p} : migrator[q].pc \notin Owning
            /\ flaws \subseteq flaws' /\ migrator[p].pc \in Waiting /\ migrator[p].pc # "idle"
            /\ UNCHANGED <<files, copies, wrote, applied, runs>>
            BY <1>3 DEF IM!WritePid, IM!Others, IM!Holding, Owning, Waiting
      <2>2. CASE migrator' = [migrator EXCEPT ![p] = IM!Away]
            <3>1. Rests(IM!Away, migrator[p], runs, runs') /\ IM!Away.pc # "plan" BY AwayIs DEF Rests
            <3>2. runs' \in Nat /\ runs <= runs' BY <1>1, <2>1
            <3> QED BY <2>1, <2>2, <3>1, <3>2, RestsOn
      <2>3. CASE migrator' = [migrator EXCEPT ![p] = [migrator[p] EXCEPT !.pc = "plan"]]
            <3> DEFINE m2 == [migrator[p] EXCEPT !.pc = "plan"]
            <3>1. DOMAIN migrator[p] = MigratorFields => SameInHand(m2, migrator[p]) /\ m2.pc = "plan" BY GoesIs
            <3>2. migrator' = [migrator EXCEPT ![p] = m2] BY <2>3
            <3> HIDE DEF m2
            <3>3. DOMAIN migrator[p] = MigratorFields => Rests(m2, migrator[p], runs, runs')
                  BY <2>1, <3>1 DEF Rests
            <3>4. runs' \in Nat /\ runs <= runs' BY <1>1, <2>1
            <3> QED BY <2>1, <3>2, <3>3, <3>4, RestsOn
      <2> QED BY <1>3, <2>2, <2>3 DEF IM!WritePid, IM!Put, IM!Goes
<1>4. CASE IM!Create(p) \/ IM!FindsDead(p) \/ IM!Reclaim(p) \/ IM!TimesOut(p)
      <2>1. /\ migrator[p].pc \in Waiting /\ migrator[p].pc # "idle"
            /\ UNCHANGED <<files, copies, wrote, applied, runs, flaws>>
            BY <1>4 DEF IM!Create, IM!FindsDead, IM!Reclaim, IM!TimesOut, Waiting
      <2>2. CASE migrator' = [migrator EXCEPT ![p] = IM!Away]
            <3>1. Rests(IM!Away, migrator[p], runs, runs') /\ IM!Away.pc # "plan" BY AwayIs DEF Rests
            <3>2. runs' \in Nat /\ runs <= runs' BY <1>1, <2>1
            <3> QED BY <2>1, <2>2, <3>1, <3>2, RestsOn
      <2>3. ASSUME NEW pc \in {"created", "reclaim", "lock"},
                   migrator' = [migrator EXCEPT ![p] = [migrator[p] EXCEPT !.pc = pc]]
            PROVE  MigrationsInv'
            <3> DEFINE m2 == [migrator[p] EXCEPT !.pc = pc]
            <3>1. DOMAIN migrator[p] = MigratorFields => SameInHand(m2, migrator[p]) /\ m2.pc = pc BY GoesIs
            <3>2. migrator' = [migrator EXCEPT ![p] = m2] BY <2>3
            <3> HIDE DEF m2
            <3>3. DOMAIN migrator[p] = MigratorFields => Rests(m2, migrator[p], runs, runs')
                  BY <2>1, <3>1 DEF Rests
            <3>4. runs' \in Nat /\ runs <= runs' BY <1>1, <2>1
            <3>5. DOMAIN migrator[p] = MigratorFields => m2.pc # "plan" BY <3>1
            <3> QED BY <2>1, <3>2, <3>3, <3>4, <3>5, RestsOn
      <2>4. \/ migrator' = [migrator EXCEPT ![p] = IM!Away]
            \/ \E pc \in {"created", "reclaim", "lock"} :
                  migrator' = [migrator EXCEPT ![p] = [migrator[p] EXCEPT !.pc = pc]]
            BY <1>4 DEF IM!Create, IM!FindsDead, IM!Reclaim, IM!TimesOut, IM!Put, IM!Goes
      <2> QED BY <2>2, <2>3, <2>4
<1> QED BY <1>2, <1>3, <1>4

-----------------------------------------------------------------------------
(* What is planned. *)

Lists(s, a) == \E i \in DOMAIN s : s[i] = a

LEMMA JoinHas ==
    ASSUME NEW S, NEW s \in Seq(S), NEW t \in Seq(S)
    PROVE  /\ s \o t \in Seq(S)
           /\ \A a : Lists(s \o t, a) <=> Lists(s, a) \/ Lists(t, a)
<1>1. /\ s \o t \in Seq(S) /\ Len(s \o t) = Len(s) + Len(t)
      /\ \A i \in 1..Len(s) : (s \o t)[i] = s[i]
      /\ \A i \in 1..Len(t) : (s \o t)[Len(s) + i] = t[i]
      OBVIOUS
<1>2. /\ DOMAIN s = 1..Len(s) /\ DOMAIN t = 1..Len(t) /\ DOMAIN (s \o t) = 1..(Len(s) + Len(t))
      /\ Len(s) \in Nat /\ Len(t) \in Nat
      BY <1>1
<1>3. ASSUME NEW a, Lists(s, a) PROVE Lists(s \o t, a)
      <2>1. PICK i \in 1..Len(s) : s[i] = a BY <1>3, <1>2 DEF Lists
      <2>2. i \in DOMAIN (s \o t) /\ (s \o t)[i] = a BY <2>1, <1>1, <1>2
      <2> QED BY <2>2 DEF Lists
<1>4. ASSUME NEW a, Lists(t, a) PROVE Lists(s \o t, a)
      <2>1. PICK i \in 1..Len(t) : t[i] = a BY <1>4, <1>2 DEF Lists
      <2>2. Len(s) + i \in DOMAIN (s \o t) /\ (s \o t)[Len(s) + i] = a BY <2>1, <1>1, <1>2
      <2> QED BY <2>2 DEF Lists
<1>5. ASSUME NEW a, Lists(s \o t, a) PROVE Lists(s, a) \/ Lists(t, a)
      <2>1. PICK i \in 1..(Len(s) + Len(t)) : (s \o t)[i] = a BY <1>5, <1>2 DEF Lists
      <2>2. CASE i <= Len(s) BY <2>1, <2>2, <1>1, <1>2 DEF Lists
      <2>3. CASE i > Len(s)
            <3>1. i - Len(s) \in 1..Len(t) /\ Len(s) + (i - Len(s)) = i BY <2>3, <1>2
            <3>2. t[i - Len(s)] = a BY <3>1, <2>1, <1>1
            <3> QED BY <3>1, <3>2, <1>2 DEF Lists
      <2> QED BY <2>2, <2>3, <1>2
<1> QED BY <1>1, <1>3, <1>4, <1>5

\* Two plans with no migration in common that touches a file.
LEMMA PlansJoin ==
    ASSUME NEW users, NEW s, NEW t, PlanSound(s, users), PlanSound(t, users),
           \A a, b : Lists(s, a) /\ Lists(t, b) /\ IM!Touches(a) /\ IM!Touches(b) => a.id # b.id
    PROVE  /\ PlanSound(s \o t, users)
           /\ \A a : Lists(s \o t, a) <=> Lists(s, a) \/ Lists(t, a)
<1>1. s \in Seq(Actions) /\ t \in Seq(Actions) BY DEF PlanSound
<1>2. s \o t \in Seq(Actions) /\ \A a : Lists(s \o t, a) <=> Lists(s, a) \/ Lists(t, a) BY <1>1, JoinHas
<1>3. ASSUME NEW i \in DOMAIN (s \o t) PROVE ActionSound((s \o t)[i], users)
      <2>1. Lists(s \o t, (s \o t)[i]) BY DEF Lists
      <2>2. Lists(s, (s \o t)[i]) \/ Lists(t, (s \o t)[i]) BY <2>1, <1>2
      <2> QED BY <2>2 DEF Lists, PlanSound
<1>4. ASSUME NEW i \in DOMAIN (s \o t), NEW j \in DOMAIN (s \o t), IM!Touches((s \o t)[i]), IM!Touches((s \o t)[j]),
             (s \o t)[i].id = (s \o t)[j].id
      PROVE  i = j
      <2>1. /\ Len(s \o t) = Len(s) + Len(t) /\ Len(s) \in Nat /\ Len(t) \in Nat
            /\ \A k \in 1..Len(s) : (s \o t)[k] = s[k]
            /\ \A k \in 1..Len(t) : (s \o t)[Len(s) + k] = t[k]
            /\ DOMAIN s = 1..Len(s) /\ DOMAIN t = 1..Len(t) /\ DOMAIN (s \o t) = 1..(Len(s) + Len(t))
            BY <1>1
      <2>2. ASSUME NEW k \in 1..(Len(s) + Len(t))
            PROVE  \/ k \in DOMAIN s /\ (s \o t)[k] = s[k]
                   \/ k > Len(s) /\ k - Len(s) \in DOMAIN t /\ (s \o t)[k] = t[k - Len(s)]
            <3>1. CASE k <= Len(s) BY <3>1, <2>1
            <3>2. CASE k > Len(s)
                  <4>1. k - Len(s) \in 1..Len(t) /\ Len(s) + (k - Len(s)) = k BY <3>2, <2>1
                  <4> QED BY <4>1, <3>2, <2>1
            <3> QED BY <3>1, <3>2, <2>1
      <2>3. i \in 1..(Len(s) + Len(t)) /\ j \in 1..(Len(s) + Len(t)) BY <2>1
      <2>4. \/ i \in DOMAIN s /\ (s \o t)[i] = s[i]
            \/ i > Len(s) /\ i - Len(s) \in DOMAIN t /\ (s \o t)[i] = t[i - Len(s)]
            BY <2>2, <2>3
      <2>5. \/ j \in DOMAIN s /\ (s \o t)[j] = s[j]
            \/ j > Len(s) /\ j - Len(s) \in DOMAIN t /\ (s \o t)[j] = t[j - Len(s)]
            BY <2>2, <2>3
      <2>6. CASE i \in DOMAIN s /\ (s \o t)[i] = s[i] /\ j \in DOMAIN s /\ (s \o t)[j] = s[j]
            BY <2>6, <1>4 DEF PlanSound
      <2>7. CASE /\ i - Len(s) \in DOMAIN t /\ (s \o t)[i] = t[i - Len(s)]
                 /\ j - Len(s) \in DOMAIN t /\ (s \o t)[j] = t[j - Len(s)]
            <3>1. i - Len(s) = j - Len(s) BY <2>7, <1>4 DEF PlanSound
            <3> QED BY <3>1, <2>1, <2>3
      <2>8. CASE i \in DOMAIN s /\ (s \o t)[i] = s[i] /\ j - Len(s) \in DOMAIN t /\ (s \o t)[j] = t[j - Len(s)]
            <3>1. Lists(s, (s \o t)[i]) /\ Lists(t, (s \o t)[j]) BY <2>8 DEF Lists
            <3> QED BY <3>1, <1>4
      <2>9. CASE j \in DOMAIN s /\ (s \o t)[j] = s[j] /\ i - Len(s) \in DOMAIN t /\ (s \o t)[i] = t[i - Len(s)]
            <3>1. Lists(s, (s \o t)[j]) /\ Lists(t, (s \o t)[i]) BY <2>9 DEF Lists
            <3> QED BY <3>1, <1>4
      <2> QED BY <2>4, <2>5, <2>6, <2>7, <2>8, <2>9
<1> QED BY <1>2, <1>3, <1>4 DEF PlanSound

LEMMA WhenIs ==
    ASSUME NEW users, NEW c, NEW a
    PROVE  /\ \A b : Lists(IM!When(c, a), b) <=> c /\ b = a
           /\ (c => a \in Actions /\ ActionSound(a, users)) => PlanSound(IM!When(c, a), users)
<1>1. CASE c
      <2>1. IM!When(c, a) = <<a>> BY <1>1 DEF IM!When
      <2>2. DOMAIN <<a>> = {1} /\ <<a>>[1] = a OBVIOUS
      <2>3. \A b : Lists(<<a>>, b) <=> b = a BY <2>2 DEF Lists
      <2>4. ASSUME a \in Actions, ActionSound(a, users) PROVE PlanSound(<<a>>, users)
            BY <2>2, <2>4 DEF PlanSound
      <2> QED BY <1>1, <2>1, <2>3, <2>4
<1>2. CASE ~c
      <2>1. IM!When(c, a) = <<>> BY <1>2 DEF IM!When
      <2> QED BY <1>2, <2>1, NoPlan DEF Lists
<1> QED BY <1>1, <1>2

LEMMA ActionIs ==
    ASSUME NEW id, NEW type, NEW f, NEW value
    PROVE  /\ IM!Action(id, type, f, value).id = id /\ IM!Action(id, type, f, value).type = type
           /\ IM!Action(id, type, f, value).path = f /\ IM!Action(id, type, f, value).value = value
BY DEF IM!Action

\* The plans of one migration.
OfOne(s, id, users) ==
    /\ PlanSound(s, users) /\ \A a : Lists(s, a) => a.id = id

LEMMA BaselineIs == ASSUME NEW users, NEW scan PROVE OfOne(IM!Baseline(scan), "baseline", users)
<1> DEFINE a == IM!Action("baseline", "record-baseline", "old", {})
           b == IM!Action("baseline", "prompt-user", "odd", {})
           s == IM!When(scan /\ files["old"] # {}, a)
           t == IM!When(scan /\ files["odd"] # {}, b)
<1>1. /\ a.id = "baseline" /\ a.type = "record-baseline" /\ b.id = "baseline" /\ b.type = "prompt-user"
      /\ b.path = "odd" /\ b.value = {}
      BY ActionIs
<1>2. a \in Actions /\ b \in Actions BY DEF IM!Action, Actions, IM!Ids, IM!Paths, IM!Parts
<1>3. ~IM!Touches(a) /\ ActionSound(a, users) BY <1>1 DEF IM!Touches, ActionSound
<1>4. ActionSound(b, users) BY <1>1 DEF ActionSound, Place
<1>5. IM!Baseline(scan) = s \o t BY DEF IM!Baseline
<1> HIDE DEF a, b
<1>6. PlanSound(s, users) /\ \A c : Lists(s, c) => c = a BY <1>2, <1>3, WhenIs
<1>7. PlanSound(t, users) /\ \A c : Lists(t, c) => c = b BY <1>2, <1>4, WhenIs
<1> HIDE DEF s, t
<1>8. PlanSound(s \o t, users) /\ \A c : Lists(s \o t, c) <=> Lists(s, c) \/ Lists(t, c)
      <2>1. \A c, d : Lists(s, c) /\ Lists(t, d) /\ IM!Touches(c) /\ IM!Touches(d) => c.id # d.id
            BY <1>3, <1>6
      <2>2. PlanSound(s, users) /\ PlanSound(t, users) BY <1>6, <1>7
      <2> QED BY <2>1, <2>2, PlansJoin
<1> QED BY <1>1, <1>5, <1>6, <1>7, <1>8 DEF OfOne

LEMMA HooksIs ==
    ASSUME FilesSound(files, wrote)
    PROVE  /\ OfOne(IM!Hooks, "hooks", wrote["hooks"])
           /\ IsClean("hooks", files) \/ \E a : Lists(IM!Hooks, a) /\ IM!Touches(a)
<1> DEFINE a == IM!Action("hooks", "rewrite-json", "hooks", files["hooks"] \ {"hook"})
<1>1. /\ a.id = "hooks" /\ a.type = "rewrite-json" /\ a.path = "hooks" /\ a.value = files["hooks"] \ {"hook"}
      BY ActionIs
<1>2. files["hooks"] \subseteq IM!Parts /\ files["hooks"] \cap IM!UserParts = wrote["hooks"]
      BY DEF FilesSound, IM!Paths
<1>3. a \in Actions BY <1>2 DEF IM!Action, Actions, IM!Ids, IM!Paths
<1>4. (files["hooks"] \ {"hook"}) \cap IM!UserParts = wrote["hooks"] BY <1>2 DEF IM!UserParts
<1>5. ActionSound(a, wrote["hooks"]) BY <1>1, <1>4 DEF ActionSound, Place, Dirt
<1>6. IM!Touches(a) BY <1>1 DEF IM!Touches
<1>7. IM!Hooks = IM!When("hook" \in files["hooks"], a) BY DEF IM!Hooks
<1> HIDE DEF a
<1>8. /\ PlanSound(IM!Hooks, wrote["hooks"])
      /\ \A b : Lists(IM!Hooks, b) <=> "hook" \in files["hooks"] /\ b = a
      <2>1. \A b : Lists(IM!When("hook" \in files["hooks"], a), b) <=> "hook" \in files["hooks"] /\ b = a
            BY WhenIs
      <2>2. PlanSound(IM!When("hook" \in files["hooks"], a), wrote["hooks"]) BY <1>3, <1>5, WhenIs
      <2> QED BY <2>1, <2>2, <1>7
<1> QED BY <1>1, <1>6, <1>8 DEF OfOne, IsClean, Place, Dirt

LEMMA RenameIs ==
    ASSUME NEW users
    PROVE  /\ OfOne(IM!Rename, "rename", users)
           /\ IsClean("rename", files) \/ \E a : Lists(IM!Rename, a) /\ IM!Touches(a)
<1> DEFINE a == IM!Action("rename", "remove-managed", "old", {})
           b == IM!Action("rename", "backup-and-remove", "old", {})
           d == IM!Action("rename", "baseline-preserve-user", "mine", {})
           s == IM!When(IM!Classify("old") = "managed-pristine", a)
           t == IM!When(IM!Classify("old") = "managed-modified", b)
           r == IM!When(IM!Classify("mine") = "unknown", d)
<1>1. /\ a.id = "rename" /\ a.type = "remove-managed" /\ a.path = "old" /\ a.value = {}
      /\ b.id = "rename" /\ b.type = "backup-and-remove" /\ b.path = "old" /\ b.value = {}
      /\ d.id = "rename" /\ d.type = "baseline-preserve-user"
      BY ActionIs
<1>2. a \in Actions /\ b \in Actions /\ d \in Actions BY DEF IM!Action, Actions, IM!Ids, IM!Paths, IM!Parts
<1>3. /\ IM!Touches(a) /\ IM!Touches(b) /\ ~IM!Touches(d)
      /\ ActionSound(a, users) /\ ActionSound(b, users) /\ ActionSound(d, users)
      BY <1>1 DEF IM!Touches, ActionSound, Place
<1>4. IM!Rename = (s \o t) \o r BY DEF IM!Rename
<1> HIDE DEF a, b, d
<1>5. PlanSound(s, users) /\ \A c : Lists(s, c) <=> IM!Classify("old") = "managed-pristine" /\ c = a
      BY ZenonT(40), <1>2, <1>3, WhenIs
<1>6. PlanSound(t, users) /\ \A c : Lists(t, c) <=> IM!Classify("old") = "managed-modified" /\ c = b
      BY ZenonT(40), <1>2, <1>3, WhenIs
<1>7. PlanSound(r, users) /\ \A c : Lists(r, c) <=> IM!Classify("mine") = "unknown" /\ c = d
      BY ZenonT(40), <1>2, <1>3, WhenIs
<1> HIDE DEF s, t, r
<1>8. PlanSound(s \o t, users) /\ \A c : Lists(s \o t, c) <=> Lists(s, c) \/ Lists(t, c)
      BY <1>5, <1>6, PlansJoin
<1>9. PlanSound((s \o t) \o r, users) /\ \A c : Lists((s \o t) \o r, c) <=> Lists(s \o t, c) \/ Lists(r, c)
      <2>1. \A x, y : Lists(s \o t, x) /\ Lists(r, y) /\ IM!Touches(x) /\ IM!Touches(y) => x.id # y.id BY <1>3, <1>7
      <2> QED BY <2>1, <1>7, <1>8, PlansJoin
<1>10. IsClean("rename", files) \/ IM!Classify("old") \in {"managed-pristine", "managed-modified"}
      BY DEF IsClean, Place, Dirt, IM!Classify, IM!Managed
<1>11. \A c : Lists((s \o t) \o r, c) => c.id = "rename" BY <1>1, <1>5, <1>6, <1>7, <1>8, <1>9
<1>12. IsClean("rename", files) \/ Lists((s \o t) \o r, a) \/ Lists((s \o t) \o r, b)
      BY <1>5, <1>6, <1>8, <1>9, <1>10
<1> QED BY <1>3, <1>4, <1>9, <1>11, <1>12 DEF OfOne

LEMMA NothingOfOne == ASSUME NEW id, NEW users PROVE OfOne(<<>>, id, users) /\ \A a : ~Lists(<<>>, a)
BY NoPlan DEF OfOne, Lists

\* A plan is of what is not recorded, and plans whatever is not clean.
LEMMA PlanOfIs ==
    ASSUME FilesSound(files, wrote), NEW scan
    PROVE  /\ PlanSound(IM!PlanOf(scan), wrote["hooks"])
           /\ \A a : Lists(IM!PlanOf(scan), a) => a.id \in IM!Ids \ applied
           /\ \A id \in Cleaning \ applied :
                 IsClean(id, files) \/ \E a : Lists(IM!PlanOf(scan), a) /\ IM!Touches(a) /\ a.id = id
<1> DEFINE users == wrote["hooks"]
           b == IF "baseline" \in applied THEN <<>> ELSE IM!Baseline(scan)
           h == IF "hooks" \in applied THEN <<>> ELSE IM!Hooks
           r == IF "rename" \in applied THEN <<>> ELSE IM!Rename
<1>1. OfOne(b, "baseline", users) /\ ("baseline" \in applied => \A a : ~Lists(b, a))
      BY BaselineIs, NothingOfOne
<1>2. /\ OfOne(h, "hooks", users) /\ ("hooks" \in applied => \A a : ~Lists(h, a))
      /\ "hooks" \notin applied => IsClean("hooks", files) \/ \E a : Lists(h, a) /\ IM!Touches(a)
      BY HooksIs, NothingOfOne
<1>3. /\ OfOne(r, "rename", users) /\ ("rename" \in applied => \A a : ~Lists(r, a))
      /\ "rename" \notin applied => IsClean("rename", files) \/ \E a : Lists(r, a) /\ IM!Touches(a)
      BY RenameIs, NothingOfOne
<1>4. IM!PlanOf(scan) = (b \o h) \o r BY DEF IM!PlanOf
<1> HIDE DEF b, h, r, users
<1>5. PlanSound(b \o h, users) /\ \A c : Lists(b \o h, c) <=> Lists(b, c) \/ Lists(h, c)
      BY <1>1, <1>2, PlansJoin DEF OfOne
<1>6. PlanSound((b \o h) \o r, users) /\ \A c : Lists((b \o h) \o r, c) <=> Lists(b \o h, c) \/ Lists(r, c)
      BY SMTT(30), <1>1, <1>2, <1>3, <1>5, PlansJoin DEF OfOne
<1>7. \A a : Lists((b \o h) \o r, a) => a.id \in IM!Ids \ applied
      BY <1>1, <1>2, <1>3, <1>5, <1>6 DEF OfOne, IM!Ids
<1>8. ASSUME NEW id \in Cleaning \ applied
      PROVE  IsClean(id, files) \/ \E a : Lists((b \o h) \o r, a) /\ IM!Touches(a) /\ a.id = id
      <2>1. CASE id = "hooks" BY <2>1, <1>2, <1>5, <1>6, <1>8 DEF OfOne
      <2>2. CASE id = "rename" BY <2>2, <1>3, <1>6, <1>8 DEF OfOne
      <2> QED BY <2>1, <2>2 DEF Cleaning
<1> QED BY <1>4, <1>6, <1>7, <1>8 DEF users

-----------------------------------------------------------------------------
(* From the plan to the first change. *)

\* A run that has changed nothing so far.
LEMMA CleanHands ==
    ASSUME NEW cf, NEW ap, NEW cs, NEW n \in Nat, NEW w, NEW m, InstallerSound(m, cf, ap, cs, n, w), NEW m2,
           Early(m), m.pc # "idle", m.undo = <<>>, ~m.done, ~m.broken,
           DOMAIN m2 = MigratorFields, m2.run = m.run, m2.undo = <<>>, ~m2.done, ~m2.broken,
           m2.ids \subseteq IM!Ids, PlanSound(m2.plan, w["hooks"]),
           m2.pc \in {"mark", "start", "resolve"} \/ (m2.pc = "unlock" /\ Asks(m2)),
           m2.pc = "mark" => m2.plan = <<>>, m2.pc = "start" => ~Asks(m2),
           \A id \in m2.ids \cap Cleaning : IsClean(id, cf) \/ Pending(m2, id)
    PROVE  InstallerSound(m2, cf, ap, cs, n, w)
<1>1. \A f : ~Undoes(m, f) /\ ~Undoes(m2, f) BY DEF Undoes
<1>2. \A c \in cs : c[1] # m2.run BY <1>1 DEF InstallerSound, Copied
<1>3. Stage(m2) BY DEF InstallerSound, Stage, Waiting
<1>4. Copied(m2, cf, cs, w) BY <1>1, <1>2 DEF Copied
<1>5. Records(m2, cf, ap) BY DEF Records
<1>6. m2.undo \in Seq(IM!Paths) OBVIOUS
<1> QED BY <1>3, <1>4, <1>5, <1>6 DEF InstallerSound

LEMMA CleanHandsPass ==
    ASSUME NEW m, NEW m2, NEW others, NEW n, m.pc \in Owning \/ \A q \in others : q.pc \notin Owning,
           m2.pc = "resolve" => m.pc \in Owning,
           m.undo = <<>>, m2.undo = <<>>, m2.run = m.run, m.pc \notin {"idle", "undo"}, ~m.broken,
           m2.pc \in {"mark", "start", "resolve", "unlock"}
    PROVE  Passes(m, m2, others, n)
<1>1. \A f : ~Undoes(m, f) /\ ~Undoes(m2, f) BY DEF Undoes
<1> QED BY <1>1 DEF Passes, Owning, IM!Undoing

LEMMA PlanStep == ASSUME MigrationsInv, NEW p \in Procs, IM!Plan(p) PROVE MigrationsInv'
<1> DEFINE m == migrator[p]
<1>1. PICK scan \in BOOLEAN :
         migrator' = [migrator EXCEPT ![p] = [migrator[p] EXCEPT !.plan = IM!PlanOf(scan),
              !.ids = IF IM!PlanOf(scan) = <<>> THEN IM!Ids \ applied
                      ELSE {IM!PlanOf(scan)[i].id : i \in DOMAIN IM!PlanOf(scan)},
              !.pc = IF IM!PlanOf(scan) = <<>> THEN "mark"
                     ELSE IF IM!Prompts(IM!PlanOf(scan)) # {} THEN "unlock" ELSE "start"]]
      BY DEF IM!Plan, IM!Put
<1> DEFINE plan == IM!PlanOf(scan)
           ids == IF plan = <<>> THEN IM!Ids \ applied ELSE {plan[i].id : i \in DOMAIN plan}
           pc == IF plan = <<>> THEN "mark" ELSE IF IM!Prompts(plan) # {} THEN "unlock" ELSE "start"
           m2 == [migrator[p] EXCEPT !.plan = plan, !.ids = ids, !.pc = pc]
<1>2. /\ migrator' = [migrator EXCEPT ![p] = m2] /\ migrator[p].pc = "plan"
      /\ UNCHANGED <<files, copies, wrote, applied, runs, flaws>>
      BY <1>1 DEF IM!Plan
<1>3. DOMAIN m = MigratorFields => /\ DOMAIN m2 = MigratorFields /\ m2.plan = plan /\ m2.ids = ids /\ m2.pc = pc
                                   /\ m2.run = m.run /\ m2.undo = m.undo /\ m2.done = m.done
                                   /\ m2.broken = m.broken
      BY DEF MigratorFields
<1> HIDE DEF m2
<1>4. ASSUME MigrationsSound(files, applied, copies, migrator, runs, wrote), runs \in Nat
      PROVE  /\ Passes(migrator[p], m2, {migrator[q] : q \in Procs \ {p}}, runs)
             /\ InstallerSound(m2, files, applied, copies, runs, wrote)
      <2>1. /\ InstallerSound(m, files, applied, copies, runs, wrote) /\ Stage(m)
            /\ DOMAIN m = MigratorFields /\ m.undo = <<>> /\ ~m.done /\ ~m.broken
            BY <1>2, <1>4 DEF MigrationsSound, InstallerSound, Stage
      <2>2. /\ PlanSound(plan, wrote["hooks"])
            /\ \A a : Lists(plan, a) => a.id \in IM!Ids \ applied
            /\ \A id \in Cleaning \ applied :
                  IsClean(id, files) \/ \E a : Lists(plan, a) /\ IM!Touches(a) /\ a.id = id
            BY <1>4, PlanOfIs DEF MigrationsSound
      <2> HIDE DEF plan
      <2>3. ids \subseteq IM!Ids \ applied BY <2>2 DEF Lists
      <2>4. ASSUME NEW id \in ids \cap Cleaning PROVE IsClean(id, files) \/ Pending(m2, id)
            <3>1. IsClean(id, files) \/ \E a : Lists(plan, a) /\ IM!Touches(a) /\ a.id = id BY <2>2, <2>3
            <3> QED BY <3>1, <2>1, <1>3 DEF Lists, Pending
      <2>5. /\ pc \in {"mark", "start", "unlock"} /\ (pc = "mark" => plan = <<>>)
            /\ pc = "unlock" => IM!Prompts(plan) # {}
            /\ pc = "start" => IM!Prompts(plan) = {}
            OBVIOUS
      <2> HIDE DEF pc, ids
      <2>6. Early(m) BY <1>2 DEF Early
      <2>7. InstallerSound(m2, files, applied, copies, runs, wrote)
            BY <1>2, <1>3, <1>4, <2>1, <2>2, <2>3, <2>4, <2>5, <2>6, CleanHands DEF Asks
      <2>8. Passes(m, m2, {migrator[q] : q \in Procs \ {p}}, runs)
            BY <1>2, <1>3, <2>1, <2>5, CleanHandsPass DEF Owning
      <2> QED BY <2>7, <2>8
<1>5. runs \in Nat BY DEF MigrationsInv
<1>6. /\ runs' \in Nat /\ runs <= runs' /\ flaws \subseteq flaws' /\ applied \subseteq applied'
      /\ UNCHANGED <<files, copies, wrote>>
      BY <1>2, <1>5
<1> HIDE DEF m
<1> QED BY <1>2, <1>4, <1>5, <1>6, StepPasses

\* A run that goes on with what it has.
LEMMA HandsKept ==
    ASSUME NEW cf, NEW ap, NEW ap2, NEW cs, NEW n, NEW w, NEW m, InstallerSound(m, cf, ap, cs, n, w), NEW m2,
           DOMAIN m2 = MigratorFields, m2.run = m.run, m2.plan = m.plan, m2.ids = m.ids, m2.undo = m.undo,
           m2.prev = m.prev, m2.broken = m.broken, Stage(m2), ap \subseteq ap2,
           m2.pc \in {"unlock", "restore", "installed", "resolve", "undo"},
           m2.pc = "restore" => m.pc \in {"act", "change"} /\ ap2 = ap,
           m2.done => m.prev \subseteq ap, Planned(m2) => Planned(m)
    PROVE  InstallerSound(m2, cf, ap2, cs, n, w)
<1>1. \A f : Undoes(m2, f) <=> Undoes(m, f) BY DEF Undoes
<1>2. \A id : Pending(m2, id) <=> Pending(m, id) BY DEF Pending
<1>3. Early(m2) => Early(m) BY DEF Early, Waiting
<1>4. Copied(m2, cf, cs, w) BY <1>1, <1>3 DEF InstallerSound, Copied
<1>5. Records(m2, cf, ap2) BY <1>2 DEF InstallerSound, Records
<1> QED BY <1>4, <1>5 DEF InstallerSound

LEMMA HandsKeptPass ==
    ASSUME NEW m, NEW m2, NEW others, NEW n, m2.undo = m.undo, m2.prev = m.prev, m2.run = m.run,
           m.pc # "idle", m.broken => m2.broken, m.pc = "undo" => m2.pc = "undo",
           m2.pc \in Owning => m.pc \in Owning, m2.pc = "resolve" => m.pc \in Owning,
           m2.pc \in IM!Undoing => m.pc \in IM!Undoing \/ \A q \in others : q.pc \notin IM!Undoing
    PROVE  Passes(m, m2, others, n)
<1>1. \A f : Undoes(m2, f) <=> Undoes(m, f) BY DEF Undoes
<1> QED BY <1>1 DEF Passes

LEMMA MarkStep == ASSUME MigrationsInv, NEW p \in Procs, IM!Mark(p) PROVE MigrationsInv'
<1> DEFINE m == migrator[p]
           m2 == [migrator[p] EXCEPT !.pc = "unlock"]
<1>1. /\ migrator' = [migrator EXCEPT ![p] = m2] /\ m.pc = "mark"
      /\ UNCHANGED <<files, copies, wrote, runs, flaws>>
      /\ applied' = applied \/ applied' = applied \cup m.ids
      BY DEF IM!Mark, IM!Goes, IM!Put
<1>2. DOMAIN m = MigratorFields => m2.pc = "unlock" /\ SameInHand(m2, m) BY GoesIs
<1> HIDE DEF m2
<1>3. runs \in Nat BY DEF MigrationsInv
<1>4. ASSUME MigrationsSound(files, applied, copies, migrator, runs, wrote)
      PROVE  /\ Passes(migrator[p], m2, {migrator[q] : q \in Procs \ {p}}, runs)
             /\ InstallerSound(m2, files, applied', copies, runs, wrote)
             /\ \A id \in (applied' \ applied) \cap Cleaning : IsClean(id, files)
      <2>1. /\ InstallerSound(m, files, applied, copies, runs, wrote) /\ Stage(m) /\ Records(m, files, applied)
            /\ DOMAIN m = MigratorFields /\ m.plan = <<>> /\ m.undo = <<>> /\ ~m.done
            BY <1>1, <1>4 DEF MigrationsSound, InstallerSound, Stage
      <2>2. SameInHand(m2, m) /\ m2.pc = "unlock" BY <1>2, <2>1
      <2>3. ~Asks(m) /\ ~Asks(m2) /\ \A id : ~Pending(m, id)
            BY <2>1, <2>2, NoPlan DEF Asks, SameInHand, Pending
      <2>4. \A id \in m.ids \cap Cleaning : IsClean(id, files) BY <1>1, <2>1, <2>3 DEF Records, Planned
      <2>5. Stage(m2) BY <1>1, <2>1, <2>2, <2>3 DEF Stage, SameInHand, Waiting
      <2>6. ~Planned(m2) BY <2>2, <2>3 DEF Planned
      <2>7. InstallerSound(m2, files, applied', copies, runs, wrote)
            BY <1>1, <2>1, <2>2, <2>5, <2>6, HandsKept DEF SameInHand
      <2>8. Passes(m, m2, {migrator[q] : q \in Procs \ {p}}, runs)
            BY <1>1, <2>2, HandsKeptPass DEF SameInHand, Owning, IM!Undoing
      <2> QED BY <1>1, <2>4, <2>7, <2>8
<1>5. /\ runs' \in Nat /\ runs <= runs' /\ flaws \subseteq flaws' /\ applied \subseteq applied'
      /\ UNCHANGED <<files, copies, wrote>> /\ runs' = runs /\ migrator[p].pc \in Owning
      BY <1>1, <1>3 DEF Owning
<1> HIDE DEF m
<1> QED BY <1>1, <1>4, <1>5, StepPasses

LEMMA StartRunStep == ASSUME MigrationsInv, NEW p \in Procs, IM!StartRun(p) PROVE MigrationsInv'
<1> DEFINE m == migrator[p]
           m2 == [migrator[p] EXCEPT !.pc = "act", !.prev = applied]
<1>1. /\ migrator' = [migrator EXCEPT ![p] = m2] /\ m.pc = "start"
      /\ UNCHANGED <<files, copies, wrote, runs, flaws, applied>>
      BY DEF IM!StartRun, IM!Put
<1>2. DOMAIN m = MigratorFields =>
         /\ DOMAIN m2 = MigratorFields /\ m2.pc = "act" /\ m2.prev = applied /\ m2.plan = m.plan
         /\ m2.ids = m.ids /\ m2.run = m.run /\ m2.undo = m.undo /\ m2.done = m.done /\ m2.broken = m.broken
      BY DEF MigratorFields
<1> HIDE DEF m2
<1>3. runs \in Nat BY DEF MigrationsInv
<1>4. ASSUME MigrationsSound(files, applied, copies, migrator, runs, wrote)
      PROVE  /\ Passes(migrator[p], m2, {migrator[q] : q \in Procs \ {p}}, runs)
             /\ InstallerSound(m2, files, applied, copies, runs, wrote)
      <2>1. /\ InstallerSound(m, files, applied, copies, runs, wrote)
            /\ DOMAIN m = MigratorFields /\ m.undo = <<>> /\ ~m.done /\ ~m.broken /\ ~Asks(m)
            BY <1>1, <1>4 DEF MigrationsSound, InstallerSound, Stage
      <2>2. /\ \A f : ~Undoes(m, f) /\ ~Undoes(m2, f)
            /\ ~Asks(m2) /\ \A id : Pending(m2, id) <=> Pending(m, id)
            BY <1>2, <2>1 DEF Undoes, Asks, Pending
      <2>3. Early(m) /\ Planned(m) BY <1>1 DEF Early, Planned
      <2>4. Stage(m2) BY <1>1, <1>2, <2>1, <2>2 DEF InstallerSound, Stage, Waiting
      <2>5. Copied(m2, files, copies, wrote) BY <1>2, <2>1, <2>2, <2>3 DEF InstallerSound, Copied
      <2>6. Records(m2, files, applied) BY <1>2, <2>1, <2>2, <2>3 DEF InstallerSound, Records
      <2>7. InstallerSound(m2, files, applied, copies, runs, wrote)
            BY <1>2, <2>1, <2>4, <2>5, <2>6 DEF InstallerSound
      <2>8. Passes(m, m2, {migrator[q] : q \in Procs \ {p}}, runs)
            BY <1>1, <1>2, <2>1, <2>2 DEF Passes, Owning, IM!Undoing
      <2> QED BY <2>7, <2>8
<1>5. /\ runs' \in Nat /\ runs <= runs' /\ flaws \subseteq flaws' /\ applied \subseteq applied'
      /\ UNCHANGED <<files, copies, wrote>> /\ runs' = runs /\ applied' = applied
      BY <1>1, <1>3
<1> HIDE DEF m
<1> QED BY <1>1, <1>4, <1>5, StepPasses

TailOf(rest, plan) ==
    /\ \A i \in DOMAIN rest : \E j \in DOMAIN plan : j # 1 /\ rest[i] = plan[j]
    /\ \A j \in DOMAIN plan : j = 1 \/ \E i \in DOMAIN rest : rest[i] = plan[j]

LEMMA TailIs ==
    ASSUME NEW users, NEW plan, PlanSound(plan, users), plan # <<>>
    PROVE  /\ PlanSound(Tail(plan), users) /\ 1 \in DOMAIN plan /\ Head(plan) = plan[1]
           /\ Head(plan) \in Actions /\ ActionSound(Head(plan), users)
           /\ TailOf(Tail(plan), plan)
<1>1. plan \in Seq(Actions) /\ Len(plan) \in Nat /\ DOMAIN plan = 1..Len(plan) /\ Len(plan) > 0
      BY DEF PlanSound
<1>2. /\ Tail(plan) \in Seq(Actions) /\ DOMAIN Tail(plan) = 1..(Len(plan) - 1)
      /\ \A i \in 1..(Len(plan) - 1) : Tail(plan)[i] = plan[i + 1]
      /\ Head(plan) = plan[1]
      BY <1>1
<1>3. \A i \in DOMAIN Tail(plan) : i + 1 \in DOMAIN plan /\ i + 1 # 1 /\ Tail(plan)[i] = plan[i + 1]
      BY <1>1, <1>2
<1>4. ASSUME NEW i \in DOMAIN plan, i # 1 PROVE i - 1 \in DOMAIN Tail(plan) /\ Tail(plan)[i - 1] = plan[i]
      <2>1. i - 1 \in 1..(Len(plan) - 1) /\ (i - 1) + 1 = i BY <1>1, <1>4
      <2> QED BY <2>1, <1>2
<1>5. ASSUME NEW i \in DOMAIN Tail(plan), NEW j \in DOMAIN Tail(plan), IM!Touches(Tail(plan)[i]),
             IM!Touches(Tail(plan)[j]), Tail(plan)[i].id = Tail(plan)[j].id
      PROVE  i = j
      <2>1. i + 1 = j + 1 BY <1>3, <1>5 DEF PlanSound
      <2> QED BY <2>1, <1>2
<1>6. PlanSound(Tail(plan), users) BY <1>2, <1>3, <1>5 DEF PlanSound
<1>7. 1 \in DOMAIN plan BY <1>1
<1>8. TailOf(Tail(plan), plan) BY <1>3, <1>4 DEF TailOf
<1> QED BY <1>1, <1>2, <1>6, <1>7, <1>8 DEF PlanSound

\* With the next action gone, unless it was still to be done.
LeavesPlanned(m, m2) ==
    /\ ~Asks(m) => ~Asks(m2)
    /\ \A id : Pending(m, id) => Pending(m2, id) \/ (IM!Touches(Head(m.plan)) /\ Head(m.plan).id = id)
    /\ \A i \in DOMAIN m2.plan : \E j \in DOMAIN m.plan : j # 1 /\ m2.plan[i] = m.plan[j]

LEMMA TailPlans ==
    ASSUME NEW users, NEW m, NEW m2, PlanSound(m.plan, users), m.plan # <<>>, m2.plan = Tail(m.plan)
    PROVE  LeavesPlanned(m, m2)
<1>1. 1 \in DOMAIN m.plan /\ Head(m.plan) = m.plan[1] /\ TailOf(m2.plan, m.plan) BY TailIs
<1>2. ~Asks(m) => ~Asks(m2) BY <1>1 DEF Asks, IM!Prompts, TailOf
<1>3. ASSUME NEW id, Pending(m, id)
      PROVE  Pending(m2, id) \/ (IM!Touches(Head(m.plan)) /\ Head(m.plan).id = id)
      <2>1. PICK j \in DOMAIN m.plan : IM!Touches(m.plan[j]) /\ m.plan[j].id = id BY <1>3 DEF Pending
      <2>2. CASE j = 1 BY <2>1, <2>2, <1>1
      <2>3. CASE j # 1
            <3>1. PICK i \in DOMAIN m2.plan : m2.plan[i] = m.plan[j] BY <2>3, <1>1 DEF TailOf
            <3>2. IM!Touches(m2.plan[i]) /\ m2.plan[i].id = id BY <2>1, <3>1
            <3> QED BY <3>2 DEF Pending
      <2> QED BY <2>2, <2>3
<1>4. \A i \in DOMAIN m2.plan : \E j \in DOMAIN m.plan : j # 1 /\ m2.plan[i] = m.plan[j] BY <1>1 DEF TailOf
<1> QED BY <1>2, <1>3, <1>4 DEF LeavesPlanned

\* A file that is absent is left, as is one that is only kept.
LEMMA SkipStep ==
    ASSUME MigrationsInv, NEW p \in Procs, migrator[p].pc = "act", migrator[p].plan # <<>>,
           files[Head(migrator[p].plan).path] = {} \/ ~IM!Touches(Head(migrator[p].plan)),
           migrator' = [migrator EXCEPT ![p] = [migrator[p] EXCEPT !.plan = Tail(@)]],
           UNCHANGED <<files, copies, wrote, runs, flaws, applied>>
    PROVE  MigrationsInv'
<1> DEFINE m == migrator[p]
           m2 == [migrator[p] EXCEPT !.plan = Tail(migrator[p].plan)]
<1>1. /\ migrator' = [migrator EXCEPT ![p] = m2] /\ m.pc = "act"
      BY DEF MigratorFields
<1>2. DOMAIN m = MigratorFields =>
         /\ DOMAIN m2 = MigratorFields /\ m2.pc = "act" /\ m2.prev = m.prev /\ m2.plan = Tail(m.plan)
         /\ m2.ids = m.ids /\ m2.run = m.run /\ m2.undo = m.undo /\ m2.done = m.done /\ m2.broken = m.broken
      BY DEF MigratorFields
<1> HIDE DEF m2
<1>3. runs \in Nat BY DEF MigrationsInv
<1>4. ASSUME MigrationsSound(files, applied, copies, migrator, runs, wrote)
      PROVE  /\ Passes(migrator[p], m2, {migrator[q] : q \in Procs \ {p}}, runs)
             /\ InstallerSound(m2, files, applied, copies, runs, wrote)
      <2>1. /\ InstallerSound(m, files, applied, copies, runs, wrote) /\ PlanSound(m.plan, wrote["hooks"])
            /\ DOMAIN m = MigratorFields /\ ~m.done /\ ~m.broken /\ ~Asks(m)
            BY <1>1, <1>4 DEF MigrationsSound, InstallerSound, Stage
      <2>2. /\ PlanSound(Tail(m.plan), wrote["hooks"]) /\ ActionSound(Head(m.plan), wrote["hooks"])
            BY <2>1, TailIs
      <2>3. /\ ~Asks(m2)
            /\ \A id : Pending(m, id) => Pending(m2, id) \/ (IM!Touches(Head(m.plan)) /\ Head(m.plan).id = id)
            /\ \A i \in DOMAIN m2.plan : \E j \in DOMAIN m.plan : j # 1 /\ m2.plan[i] = m.plan[j]
            <3>1. m2.plan = Tail(m.plan) /\ m.plan # <<>> BY <1>2, <2>1
            <3>2. LeavesPlanned(m, m2) BY <2>1, <3>1, TailPlans
            <3> QED BY <2>1, <3>2 DEF LeavesPlanned
      <2>4. /\ \A f : Undoes(m2, f) <=> Undoes(m, f) BY <1>2, <2>1 DEF Undoes
      <2>5. Stage(m2) BY <1>1, <1>2, <2>1, <2>3 DEF InstallerSound, Stage, Waiting
      <2>6. Copied(m2, files, copies, wrote)
            BY <1>1, <1>2, <2>1, <2>3, <2>4 DEF InstallerSound, Copied, Early, Planned
      <2>7. ASSUME NEW id \in m.ids \cap Cleaning PROVE IsClean(id, files) \/ Pending(m2, id)
            <3>1. IsClean(id, files) \/ Pending(m, id) BY <1>1, <2>1 DEF InstallerSound, Records, Planned
            <3>2. CASE IM!Touches(Head(m.plan)) /\ Head(m.plan).id = id
                  BY <3>2, <2>2 DEF ActionSound, IsClean
            <3> QED BY <3>1, <3>2, <2>3
      <2>8. Records(m2, files, applied) BY <1>1, <1>2, <2>1, <2>7 DEF InstallerSound, Records
      <2>9. InstallerSound(m2, files, applied, copies, runs, wrote)
            BY <1>2, <2>1, <2>2, <2>5, <2>6, <2>8 DEF InstallerSound
      <2>10. Passes(m, m2, {migrator[q] : q \in Procs \ {p}}, runs)
            BY <1>1, <1>2, <2>1, <2>4 DEF Passes, Owning, IM!Undoing
      <2> QED BY <2>9, <2>10
<1>5. /\ runs' \in Nat /\ runs <= runs' /\ flaws \subseteq flaws' /\ applied \subseteq applied'
      /\ UNCHANGED <<files, copies, wrote>> /\ runs' = runs /\ applied' = applied
      BY <1>1, <1>3
<1> HIDE DEF m
<1> QED BY <1>1, <1>4, <1>5, StepPasses

-----------------------------------------------------------------------------
(* What goes wrong, and the end. *)

LEMMA BreaksStep == ASSUME MigrationsInv, NEW p \in Procs, IM!Breaks(p) PROVE MigrationsInv'
<1> DEFINE m == migrator[p]
           m2 == [migrator[p] EXCEPT !.pc = "restore"]
<1>1. /\ migrator' = [migrator EXCEPT ![p] = m2] /\ m.pc \in {"act", "change"}
      /\ UNCHANGED <<files, copies, wrote, runs, flaws, applied>>
      BY DEF IM!Breaks, IM!Goes, IM!Put
<1>2. DOMAIN m = MigratorFields => m2.pc = "restore" /\ SameInHand(m2, m) BY GoesIs
<1> HIDE DEF m2
<1>3. runs \in Nat BY DEF MigrationsInv
<1>4. ASSUME MigrationsSound(files, applied, copies, migrator, runs, wrote)
      PROVE  /\ Passes(migrator[p], m2, {migrator[q] : q \in Procs \ {p}}, runs)
             /\ InstallerSound(m2, files, applied, copies, runs, wrote)
      <2>1. /\ InstallerSound(m, files, applied, copies, runs, wrote) /\ Stage(m)
            /\ DOMAIN m = MigratorFields /\ ~m.done /\ ~m.broken /\ ~Asks(m)
            BY <1>1, <1>4 DEF MigrationsSound, InstallerSound, Stage
      <2>2. SameInHand(m2, m) /\ m2.pc = "restore" BY <1>2, <2>1
      <2>3. ~Asks(m2) BY <2>1, <2>2 DEF Asks, SameInHand
      <2>4. Stage(m2) BY <1>1, <2>1, <2>2, <2>3 DEF Stage, SameInHand, Waiting
      <2>5. ~Planned(m2) BY <2>2 DEF Planned
      <2>6. InstallerSound(m2, files, applied, copies, runs, wrote)
            BY <1>1, <2>1, <2>2, <2>4, <2>5, HandsKept DEF SameInHand
      <2>7. Passes(m, m2, {migrator[q] : q \in Procs \ {p}}, runs)
            BY <1>1, <2>2, HandsKeptPass DEF SameInHand, Owning, IM!Undoing
      <2> QED BY <2>6, <2>7
<1>5. /\ runs' \in Nat /\ runs <= runs' /\ flaws \subseteq flaws' /\ applied \subseteq applied'
      /\ UNCHANGED <<files, copies, wrote>> /\ runs' = runs /\ applied' = applied
      BY <1>1, <1>3
<1> HIDE DEF m
<1> QED BY <1>1, <1>4, <1>5, StepPasses

LEMMA RecordStep == ASSUME MigrationsInv, NEW p \in Procs, IM!Record(p) PROVE MigrationsInv'
<1> DEFINE m == migrator[p]
           m2 == [migrator[p] EXCEPT !.pc = "unlock", !.done = TRUE]
<1>1. /\ migrator' = [migrator EXCEPT ![p] = m2] /\ m.pc = "act" /\ m.plan = <<>>
      /\ UNCHANGED <<files, copies, wrote, runs, flaws>> /\ applied' = applied \cup m.ids
      BY DEF IM!Record, IM!Put
<1>2. DOMAIN m = MigratorFields =>
         /\ DOMAIN m2 = MigratorFields /\ m2.pc = "unlock" /\ m2.prev = m.prev /\ m2.plan = m.plan
         /\ m2.ids = m.ids /\ m2.run = m.run /\ m2.undo = m.undo /\ m2.done = TRUE /\ m2.broken = m.broken
      BY DEF MigratorFields
<1> HIDE DEF m2
<1>3. runs \in Nat BY DEF MigrationsInv
<1>4. ASSUME MigrationsSound(files, applied, copies, migrator, runs, wrote)
      PROVE  /\ Passes(migrator[p], m2, {migrator[q] : q \in Procs \ {p}}, runs)
             /\ InstallerSound(m2, files, applied', copies, runs, wrote)
             /\ \A id \in (applied' \ applied) \cap Cleaning : IsClean(id, files)
      <2>1. /\ InstallerSound(m, files, applied, copies, runs, wrote) /\ Records(m, files, applied)
            /\ DOMAIN m = MigratorFields /\ ~m.broken
            BY <1>1, <1>4 DEF MigrationsSound, InstallerSound, Stage
      <2>2. ~Asks(m2) /\ \A id : ~Pending(m, id)
            BY <1>1, <1>2, <2>1, NoPlan DEF Asks, Pending
      <2>3. /\ \A id \in m.ids \cap Cleaning : IsClean(id, files)
            /\ m.prev = applied
            BY <1>1, <2>1, <2>2 DEF Records, Planned
      <2>4. Stage(m2) BY <1>1, <1>2, <2>1, <2>2 DEF InstallerSound, Stage, Waiting
      <2>5. ~Planned(m2) BY <1>2, <2>1, <2>2 DEF Planned
      <2>6. InstallerSound(m2, files, applied', copies, runs, wrote)
            BY <1>1, <1>2, <2>1, <2>3, <2>4, <2>5, HandsKept
      <2>7. Passes(m, m2, {migrator[q] : q \in Procs \ {p}}, runs)
            BY <1>1, <1>2, <2>1, HandsKeptPass DEF Owning, IM!Undoing
      <2> QED BY <1>1, <2>3, <2>6, <2>7
<1>5. /\ runs' \in Nat /\ runs <= runs' /\ flaws \subseteq flaws' /\ applied \subseteq applied'
      /\ UNCHANGED <<files, copies, wrote>> /\ runs' = runs /\ migrator[p].pc \in Owning
      BY <1>1, <1>3 DEF Owning
<1> HIDE DEF m
<1> QED BY <1>1, <1>4, <1>5, StepPasses

\* A run that ends, whatever it leaves.
LEMMA LeavesStep ==
    ASSUME MigrationsInv, NEW p \in Procs, migrator[p].pc # "undo",
           migrator' = [migrator EXCEPT ![p] = IM!Away], flaws \subseteq flaws',
           UNCHANGED <<files, copies, wrote, runs, applied>>
    PROVE  MigrationsInv'
<1> DEFINE m == migrator[p]
           m2 == IM!Away
<1>1. /\ migrator' = [migrator EXCEPT ![p] = m2] /\ m2.undo = <<>> /\ m2.pc = "idle" BY AwayIs
<1>2. runs \in Nat BY DEF MigrationsInv
<1>3. ASSUME MigrationsSound(files, applied, copies, migrator, runs, wrote)
      PROVE  /\ Passes(migrator[p], m2, {migrator[q] : q \in Procs \ {p}}, runs)
             /\ InstallerSound(m2, files, applied, copies, runs, wrote)
      <2>1. CopiesSound(copies, runs) BY <1>3 DEF MigrationsSound
      <2>2. InstallerSound(m2, files, applied, copies, runs, wrote) BY <1>2, <2>1, GoesAway
      <2> HIDE DEF m2
      <2>3. \A f : ~Undoes(m2, f) BY <1>1 DEF Undoes
      <2>4. Passes(m, m2, {migrator[q] : q \in Procs \ {p}}, runs)
            BY <1>1, <2>3 DEF Passes, Owning, IM!Undoing
      <2> QED BY <2>2, <2>4
<1>4. /\ runs' \in Nat /\ runs <= runs' /\ flaws \subseteq flaws' /\ applied \subseteq applied'
      /\ UNCHANGED <<files, copies, wrote>> /\ runs' = runs /\ applied' = applied
      BY <1>2
<1> HIDE DEF m, m2
<1> QED BY <1>1, <1>3, <1>4, StepPasses

LEMMA Alone ==
    ASSUME NEW p \in Procs, IM!Overlap(p) = {}
    PROVE  \A q \in Procs \ {p} : migrator[q].pc \in Waiting
BY DEF IM!Overlap, IM!Locking, Waiting

\* A step that only turns to what comes next.
LEMMA TurnStep ==
    ASSUME MigrationsInv, NEW p \in Procs, NEW pc,
           migrator' = [migrator EXCEPT ![p] = [migrator[p] EXCEPT !.pc = pc]], flaws \subseteq flaws',
           UNCHANGED <<files, copies, wrote, runs, applied>>,
           \/ migrator[p].pc = "restore" /\ migrator[p].undo = <<>> /\ migrator[p].broken /\ pc = "unlock"
           \/ migrator[p].pc = "unlock" /\ migrator[p].done /\ pc = "installed"
           \/ migrator[p].pc = "unlock" /\ ~migrator[p].done /\ Asks(migrator[p]) /\ pc = "resolve"
           \/ /\ migrator[p].pc = "installed" /\ pc = "undo"
              /\ flaws' = {} => \A q \in Procs \ {p} : migrator[q].pc \in Waiting
    PROVE  MigrationsInv'
<1> DEFINE m == migrator[p]
           m2 == [migrator[p] EXCEPT !.pc = pc]
<1>1. migrator' = [migrator EXCEPT ![p] = m2] OBVIOUS
<1>2. DOMAIN m = MigratorFields => m2.pc = pc /\ SameInHand(m2, m) BY GoesIs
<1> HIDE DEF m2
<1>3. runs \in Nat BY DEF MigrationsInv
<1>4. ASSUME flaws' = {}, MigrationsSound(files, applied, copies, migrator, runs, wrote)
      PROVE  /\ Passes(migrator[p], m2, {migrator[q] : q \in Procs \ {p}}, runs)
             /\ InstallerSound(m2, files, applied, copies, runs, wrote)
      <2>1. /\ InstallerSound(m, files, applied, copies, runs, wrote) /\ Stage(m) /\ Records(m, files, applied)
            /\ DOMAIN m = MigratorFields
            BY <1>4 DEF MigrationsSound, InstallerSound
      <2>2. SameInHand(m2, m) /\ m2.pc = pc BY <1>2, <2>1
      <2>3. Asks(m2) <=> Asks(m) BY <2>2 DEF Asks, SameInHand
      <2>4. Stage(m2) BY <2>1, <2>2, <2>3 DEF Stage, SameInHand, Waiting
      <2>5. Planned(m2) => Planned(m) BY <2>1, <2>2, <2>3 DEF Planned, Stage
      <2>6. pc \in {"unlock", "installed", "resolve", "undo"} OBVIOUS
      <2>7. m2.done => m.prev \subseteq applied BY <2>1, <2>2 DEF Records, SameInHand
      <2>8. InstallerSound(m2, files, applied, copies, runs, wrote)
            BY <2>1, <2>2, <2>4, <2>5, <2>6, <2>7, HandsKept DEF SameInHand
      <2>9. m2.pc \in IM!Undoing =>
               m.pc \in IM!Undoing \/ \A q \in {migrator[r] : r \in Procs \ {p}} : q.pc \notin IM!Undoing
            BY <1>4, <2>2 DEF IM!Undoing, Waiting
      <2>10. Passes(m, m2, {migrator[q] : q \in Procs \ {p}}, runs)
            BY <2>2, <2>9, HandsKeptPass DEF SameInHand, Owning
      <2> QED BY <2>8, <2>10
<1>5. /\ runs' \in Nat /\ runs <= runs' /\ flaws \subseteq flaws' /\ applied \subseteq applied'
      /\ UNCHANGED <<files, copies, wrote>> /\ runs' = runs /\ applied' = applied
      BY <1>3
<1> HIDE DEF m
<1> QED BY <1>1, <1>4, <1>5, StepPasses

LEMMA UnlockStep == ASSUME MigrationsInv, NEW p \in Procs, IM!Unlock(p) PROVE MigrationsInv'
<1>1. /\ UNCHANGED <<files, copies, wrote, runs, applied>> /\ flaws \subseteq flaws' /\ migrator[p].pc = "unlock"
      /\ \/ migrator[p].done /\ migrator' = [migrator EXCEPT ![p] = [migrator[p] EXCEPT !.pc = "installed"]]
         \/ Asks(migrator[p]) /\ migrator' = [migrator EXCEPT ![p] = [migrator[p] EXCEPT !.pc = "resolve"]]
         \/ migrator' = [migrator EXCEPT ![p] = IM!Away]
      BY DEF IM!Unlock, IM!Goes, IM!Put, Asks
<1>2. CASE migrator' = [migrator EXCEPT ![p] = IM!Away] BY <1>1, <1>2, LeavesStep
<1>3. CASE migrator[p].done /\ migrator' = [migrator EXCEPT ![p] = [migrator[p] EXCEPT !.pc = "installed"]]
      BY <1>1, <1>3, TurnStep
<1>4. CASE Asks(migrator[p]) /\ migrator' = [migrator EXCEPT ![p] = [migrator[p] EXCEPT !.pc = "resolve"]]
      <2>1. CASE ~migrator[p].done BY <1>1, <1>4, <2>1, TurnStep
      <2>2. CASE migrator[p].done
            <3>1. flaws' = {} => FALSE
                  BY <1>1, <1>4, <2>2 DEF MigrationsInv, MigrationsSound, InstallerSound, Stage
            <3>2. DOMAIN migrator' = Procs /\ runs' \in Nat BY <1>1, <1>4 DEF MigrationsInv
            <3> QED BY <3>1, <3>2 DEF MigrationsInv
      <2> QED BY <2>1, <2>2
<1> QED BY <1>1, <1>2, <1>3, <1>4

LEMMA EndSteps ==
    ASSUME MigrationsInv, NEW p \in Procs, IM!Finishes(p) \/ IM!FailsLater(p) \/ IM!Crash(p)
    PROVE  MigrationsInv'
<1>1. CASE IM!Finishes(p)
      BY <1>1, LeavesStep DEF IM!Finishes, IM!Put
<1>2. CASE IM!FailsLater(p)
      <2>1. flaws' = {} => \A q \in Procs \ {p} : migrator[q].pc \in Waiting
            BY <1>2, Alone DEF IM!FailsLater
      <2>2. /\ migrator' = [migrator EXCEPT ![p] = [migrator[p] EXCEPT !.pc = "undo"]]
            /\ flaws \subseteq flaws' /\ UNCHANGED <<files, copies, wrote, runs, applied>>
            /\ migrator[p].pc = "installed"
            BY <1>2 DEF IM!FailsLater, IM!Goes, IM!Put
      <2> QED BY <2>1, <2>2, TurnStep
<1>3. CASE IM!Crash(p)
      <2>1. /\ migrator' = [migrator EXCEPT ![p] = IM!Away] /\ flaws \subseteq flaws'
            /\ UNCHANGED <<files, copies, wrote, runs, applied>>
            /\ migrator[p].pc = "undo" => flaws' # {}
            BY <1>3 DEF IM!Crash, IM!Put, IM!Undoing
      <2>2. CASE migrator[p].pc = "undo"
            <3>1. DOMAIN migrator' = Procs /\ runs' \in Nat BY <2>1 DEF MigrationsInv
            <3> QED BY <2>1, <2>2, <3>1 DEF MigrationsInv
      <2>3. CASE migrator[p].pc # "undo" BY <2>1, <2>3, LeavesStep
      <2> QED BY <2>2, <2>3
<1> QED BY <1>1, <1>2, <1>3

Resolved(plan, type) ==
    [i \in DOMAIN plan |-> IF i \in IM!Prompts(plan) THEN [plan[i] EXCEPT !.type = type] ELSE plan[i]]

LEMMA ResolvedIs ==
    ASSUME NEW users, NEW m, NEW m2, PlanSound(m.plan, users), NEW type \in {"baseline-preserve-user", "backup-and-remove"},
           m2.plan = Resolved(m.plan, type)
    PROVE  /\ PlanSound(m2.plan, users) /\ ~Asks(m2)
           /\ \A id \in Cleaning : Pending(m, id) => Pending(m2, id)
<1>1. m.plan \in Seq(Actions) /\ DOMAIN m2.plan = DOMAIN m.plan BY DEF PlanSound, Resolved
<1>2. ASSUME NEW i \in DOMAIN m.plan
      PROVE  /\ m.plan[i] \in Actions /\ m2.plan[i] \in Actions /\ m2.plan[i].id = m.plan[i].id
             /\ m2.plan[i].path = m.plan[i].path /\ m2.plan[i].value = m.plan[i].value
             /\ m.plan[i].type = "prompt-user" => m2.plan[i].type = type
             /\ m.plan[i].type # "prompt-user" => m2.plan[i].type = m.plan[i].type
      <2>1. m.plan[i] \in Actions BY <1>1
      <2> DEFINE a == m.plan[i]
                 b == [a EXCEPT !.type = type]
      <2>2. a \in Actions BY <2>1
      <2> HIDE DEF a
      <2>3. b \in Actions /\ b.id = a.id /\ b.path = a.path /\ b.value = a.value /\ b.type = type
            BY <2>2 DEF Actions
      <2>4. m2.plan[i] = IF a.type = "prompt-user" THEN b ELSE a BY DEF IM!Prompts, a, Resolved
      <2> HIDE DEF b
      <2> QED BY <2>2, <2>3, <2>4 DEF a
<1>3. m2.plan \in Seq(Actions)
      <2>1. Len(m.plan) \in Nat /\ DOMAIN m.plan = 1..Len(m.plan) BY <1>1
      <2>2. m2.plan \in [1..Len(m.plan) -> Actions] BY <1>1, <1>2, <2>1 DEF Resolved
      <2> QED BY <2>1, <2>2
<1>4. \A i \in DOMAIN m.plan : IM!Touches(m2.plan[i]) => IM!Touches(m.plan[i]) BY <1>2 DEF IM!Touches
<1>5. ASSUME NEW i \in DOMAIN m2.plan PROVE ActionSound(m2.plan[i], users)
      <2>1. ActionSound(m.plan[i], users) BY <1>1, <1>5 DEF PlanSound
      <2> QED BY <1>1, <1>2, <1>4, <1>5, <2>1 DEF ActionSound
<1>6. \A i, j \in DOMAIN m2.plan :
         IM!Touches(m2.plan[i]) /\ IM!Touches(m2.plan[j]) /\ m2.plan[i].id = m2.plan[j].id => i = j
      BY <1>1, <1>2, <1>4 DEF PlanSound
<1>7. ~Asks(m2) BY <1>1, <1>2 DEF Asks, IM!Prompts
<1>8. ASSUME NEW id \in Cleaning, Pending(m, id) PROVE Pending(m2, id)
      <2>1. PICK i \in DOMAIN m.plan : IM!Touches(m.plan[i]) /\ m.plan[i].id = id BY <1>8 DEF Pending
      <2>2. m.plan[i].type # "prompt-user" BY <2>1 DEF PlanSound, ActionSound, Cleaning
      <2>3. IM!Touches(m2.plan[i]) /\ m2.plan[i].id = id BY <1>2, <2>1, <2>2 DEF IM!Touches
      <2> QED BY <1>1, <2>1, <2>3 DEF Pending
<1> QED BY <1>3, <1>5, <1>6, <1>7, <1>8 DEF PlanSound

LEMMA ResolveStep == ASSUME MigrationsInv, NEW p \in Procs, IM!Resolve(p) PROVE MigrationsInv'
<1>1. /\ UNCHANGED <<files, copies, wrote, runs, applied>> /\ flaws \subseteq flaws' /\ migrator[p].pc = "resolve"
      /\ flaws' = {} => \A q \in Procs \ {p} : migrator[q].pc \in Waiting
      BY Alone DEF IM!Resolve
<1>2. CASE migrator' = [migrator EXCEPT ![p] = IM!Away] BY <1>1, <1>2, LeavesStep
<1>3. ASSUME NEW type \in {"baseline-preserve-user", "backup-and-remove"},
             migrator' = [migrator EXCEPT ![p] = [migrator[p] EXCEPT !.pc = "start", !.locked = FALSE,
                !.plan = [i \in DOMAIN migrator[p].plan |->
                            IF i \in IM!Prompts(migrator[p].plan) THEN [migrator[p].plan[i] EXCEPT !.type = type]
                            ELSE migrator[p].plan[i]]]]
      PROVE  MigrationsInv'
      <2> DEFINE m == migrator[p]
                 plan == Resolved(m.plan, type)
                 m2 == [migrator[p] EXCEPT !.pc = "start", !.locked = FALSE, !.plan = plan]
      <2>1. migrator' = [migrator EXCEPT ![p] = m2] BY <1>3 DEF Resolved
      <2>2. DOMAIN m = MigratorFields =>
               /\ DOMAIN m2 = MigratorFields /\ m2.pc = "start" /\ m2.plan = plan /\ m2.ids = m.ids
               /\ m2.run = m.run /\ m2.undo = m.undo /\ m2.done = m.done /\ m2.broken = m.broken
            BY DEF MigratorFields
      <2> HIDE DEF m2
      <2>3. ASSUME flaws' = {}, MigrationsSound(files, applied, copies, migrator, runs, wrote), runs \in Nat
            PROVE  /\ Passes(migrator[p], m2, {migrator[q] : q \in Procs \ {p}}, runs)
                   /\ InstallerSound(m2, files, applied, copies, runs, wrote)
            <3>1. /\ InstallerSound(m, files, applied, copies, runs, wrote) /\ Stage(m)
                  /\ PlanSound(m.plan, wrote["hooks"]) /\ Records(m, files, applied)
                  /\ DOMAIN m = MigratorFields /\ m.ids \subseteq IM!Ids
                  BY <2>3 DEF MigrationsSound, InstallerSound
            <3>2. m.undo = <<>> /\ ~m.done /\ ~m.broken BY <1>1, <3>1 DEF Stage
            <3>3. m2.plan = plan BY <2>2, <3>1
            <3>4. /\ PlanSound(m2.plan, wrote["hooks"]) /\ ~Asks(m2)
                  /\ \A id \in Cleaning : Pending(m, id) => Pending(m2, id)
                  BY <3>1, <3>3, ResolvedIs
            <3>5. Early(m) /\ Planned(m) BY <1>1 DEF Early, Planned
            <3>6. \A id \in m.ids \cap Cleaning : IsClean(id, files) \/ Pending(m2, id)
                  BY <3>1, <3>4, <3>5 DEF Records
            <3> HIDE DEF plan
            <3>7. InstallerSound(m2, files, applied, copies, runs, wrote)
                  BY <1>1, <2>2, <2>3, <3>1, <3>2, <3>4, <3>5, <3>6, CleanHands
            <3>8. \A q \in {migrator[r] : r \in Procs \ {p}} : q.pc \notin Owning
                  BY <1>1, <2>3 DEF Waiting, Owning
            <3>9. Passes(m, m2, {migrator[q] : q \in Procs \ {p}}, runs)
                  BY <1>1, <2>2, <3>1, <3>2, <3>8, CleanHandsPass
            <3> QED BY <3>7, <3>9
      <2>4. /\ runs \in Nat /\ runs' \in Nat /\ runs <= runs' /\ applied \subseteq applied'
            /\ UNCHANGED <<files, copies, wrote>> /\ runs' = runs /\ applied' = applied
            BY <1>1 DEF MigrationsInv
      <2> HIDE DEF m
      <2> QED BY <1>1, <2>1, <2>3, <2>4, StepPasses
<1> QED BY <1>2, <1>3 DEF IM!Resolve, IM!Put

-----------------------------------------------------------------------------
(* Putting files back. *)

LEMMA FrontIs ==
    ASSUME NEW m, m.undo \in Seq(IM!Paths), m.undo # <<>>
    PROVE  /\ IM!Last(m.undo) \in IM!Paths /\ Undoes(m, IM!Last(m.undo)) /\ IM!Front(m.undo) \in Seq(IM!Paths)
           /\ \A m2 : m2.undo = IM!Front(m.undo) =>
                 /\ \A f : Undoes(m2, f) => Undoes(m, f)
                 /\ \A f : Undoes(m, f) => Undoes(m2, f) \/ f = IM!Last(m.undo)
<1> DEFINE s == m.undo
           t == IM!Front(s)
<1>1. s \in Seq(IM!Paths) /\ Len(s) \in Nat /\ DOMAIN s = 1..Len(s) /\ Len(s) > 0 OBVIOUS
<1>2. t = SubSeq(s, 1, Len(s) - 1) BY DEF IM!Front
<1>3. t \in Seq(IM!Paths) /\ Len(t) = Len(s) - 1 /\ \A i \in 1..(Len(s) - 1) : t[i] = s[i] BY <1>1, <1>2
<1>4. DOMAIN t = 1..(Len(s) - 1) BY <1>1, <1>3
<1>5. IM!Last(s) = s[Len(s)] /\ Len(s) \in DOMAIN s BY <1>1 DEF IM!Last
<1>6. ASSUME NEW m2, m2.undo = t, NEW f, Undoes(m2, f) PROVE Undoes(m, f)
      <2>1. PICK i \in 1..(Len(s) - 1) : t[i] = f BY <1>4, <1>6 DEF Undoes
      <2>2. i \in DOMAIN s /\ s[i] = f BY <1>1, <1>3, <2>1
      <2> QED BY <2>2 DEF Undoes
<1>7. ASSUME NEW m2, m2.undo = t, NEW f, Undoes(m, f), f # IM!Last(s) PROVE Undoes(m2, f)
      <2>1. PICK i \in 1..Len(s) : s[i] = f BY <1>1, <1>7 DEF Undoes
      <2>2. i # Len(s) BY <1>5, <1>7, <2>1
      <2>3. i \in DOMAIN t /\ t[i] = f BY <1>1, <1>3, <1>4, <2>1, <2>2
      <2> QED BY <1>7, <2>3 DEF Undoes
<1>8. Undoes(m, IM!Last(s)) BY <1>5 DEF Undoes
<1>9. IM!Last(s) \in IM!Paths BY <1>1, <1>5
<1> QED BY <1>3, <1>6, <1>7, <1>8, <1>9

\* A file that cannot be put back: its copy stays.
LEMMA RestoreFailsStep ==
    ASSUME MigrationsInv, NEW p \in Procs, migrator[p].pc = "restore", migrator[p].undo # <<>>,
           migrator' = [migrator EXCEPT ![p] = [migrator[p] EXCEPT !.undo = IM!Front(@), !.broken = TRUE]],
           UNCHANGED <<files, copies, wrote, runs, flaws, applied>>
    PROVE  MigrationsInv'
<1> DEFINE m == migrator[p]
           m2 == [migrator[p] EXCEPT !.undo = IM!Front(migrator[p].undo), !.broken = TRUE]
<1>1. migrator' = [migrator EXCEPT ![p] = m2] OBVIOUS
<1>2. DOMAIN m = MigratorFields =>
         /\ DOMAIN m2 = MigratorFields /\ m2.pc = "restore" /\ m2.prev = m.prev /\ m2.plan = m.plan
         /\ m2.ids = m.ids /\ m2.run = m.run /\ m2.undo = IM!Front(m.undo) /\ m2.done = m.done
         /\ m2.broken = TRUE
      BY DEF MigratorFields
<1> HIDE DEF m2
<1>3. runs \in Nat BY DEF MigrationsInv
<1>4. ASSUME MigrationsSound(files, applied, copies, migrator, runs, wrote)
      PROVE  /\ Passes(migrator[p], m2, {migrator[q] : q \in Procs \ {p}}, runs)
             /\ InstallerSound(m2, files, applied, copies, runs, wrote)
      <2>1. /\ InstallerSound(m, files, applied, copies, runs, wrote)
            /\ DOMAIN m = MigratorFields /\ m.undo \in Seq(IM!Paths) /\ ~m.done /\ ~Asks(m)
            BY <1>4 DEF MigrationsSound, InstallerSound, Stage
      <2>2. m2.undo \in Seq(IM!Paths) /\ \A f : Undoes(m2, f) => Undoes(m, f)
            BY <1>2, <2>1, FrontIs
      <2>3. ~Asks(m2) BY <1>2, <2>1 DEF Asks
      <2>4. Stage(m2) BY <1>2, <2>1, <2>3 DEF InstallerSound, Stage, Waiting
      <2>5. Copied(m2, files, copies, wrote)
            BY <1>2, <2>1, <2>2 DEF InstallerSound, Copied, Early, Planned, Waiting
      <2>6. Records(m2, files, applied) BY <1>2, <2>1 DEF InstallerSound, Records, Planned
      <2>7. InstallerSound(m2, files, applied, copies, runs, wrote)
            BY <1>2, <2>1, <2>2, <2>4, <2>5, <2>6 DEF InstallerSound
      <2>8. Passes(m, m2, {migrator[q] : q \in Procs \ {p}}, runs)
            BY <1>2, <2>1, <2>2 DEF Passes, Owning, IM!Undoing
      <2> QED BY <2>7, <2>8
<1>5. /\ runs' \in Nat /\ runs <= runs' /\ flaws \subseteq flaws' /\ applied \subseteq applied'
      /\ UNCHANGED <<files, copies, wrote>> /\ runs' = runs /\ applied' = applied
      BY <1>3
<1> HIDE DEF m
<1> QED BY <1>1, <1>4, <1>5, StepPasses

LEMMA StepSound ==
    ASSUME MigrationsInv, NEW p \in Procs, NEW m2, migrator' = [migrator EXCEPT ![p] = m2],
           runs' = runs, flaws \subseteq flaws',
           flaws' = {} /\ MigrationsSound(files, applied, copies, migrator, runs, wrote) =>
              MigrationsSound(files', applied', copies', [migrator EXCEPT ![p] = m2], runs, wrote')
    PROVE  MigrationsInv'
<1>1. DOMAIN migrator' = Procs /\ runs' \in Nat BY DEF MigrationsInv
<1>2. ASSUME flaws' = {} PROVE MigrationsSound(files', applied', copies', migrator', runs', wrote')
      BY <1>2 DEF MigrationsInv
<1> QED BY <1>1, <1>2 DEF MigrationsInv

Own(cs, m) == {c \in cs : c[1] = m.run}

\* A run with nothing to undo and nothing that it failed to put back needs no copies.
LEMMA DropCopies ==
    ASSUME NEW cf, NEW ap, NEW cs, NEW mg, NEW n \in Nat, NEW w, MigrationsSound(cf, ap, cs, mg, n, w),
           NEW p \in Procs, mg[p].pc # "idle", mg[p].undo = <<>>, ~mg[p].broken
    PROVE  MigrationsSound(cf, ap, cs \ Own(cs, mg[p]), mg, n, w)
<1> DEFINE cs2 == cs \ Own(cs, mg[p])
<1>1. cs2 \subseteq cs /\ \A c \in cs : c \in cs2 <=> c[1] # mg[p].run BY DEF Own
<1>2. \A f : ~Undoes(mg[p], f) BY DEF Undoes
<1> HIDE DEF cs2
<1>3. CopiesSound(cs2, n) BY <1>1 DEF MigrationsSound, CopiesSound
<1>4. ASSUME NEW q \in Procs PROVE InstallerSound(mg[q], cf, ap, cs2, n, w)
      <2>1. InstallerSound(mg[q], cf, ap, cs, n, w) BY DEF MigrationsSound
      <2>2. ASSUME NEW f, Undoes(mg[q], f)
            PROVE  \E c \in cs2 : c[1] = mg[q].run /\ c[2] = "rollback" /\ c[3] = f
            <3>1. q # p BY <1>2, <2>2
            <3>2. mg[q].pc # "idle"
                  <4>1. mg[q].undo # <<>> BY <2>2 DEF Undoes
                  <4> QED BY <4>1, <2>1 DEF InstallerSound, Stage, Waiting
            <3>3. mg[q].run # mg[p].run BY <3>1, <3>2 DEF MigrationsSound, Apart
            <3>4. PICK c \in cs : c[1] = mg[q].run /\ c[2] = "rollback" /\ c[3] = f
                  BY <2>1, <2>2 DEF InstallerSound, Copied
            <3> QED BY <1>1, <3>3, <3>4
      <2>3. Copied(mg[q], cf, cs2, w) BY <1>1, <2>1, <2>2 DEF InstallerSound, Copied
      <2> QED BY <2>1, <2>3 DEF InstallerSound
<1>5. ASSUME NEW q \in Procs, NEW r \in Procs, q # r PROVE Apart(mg[q], mg[r], cs2)
      <2>1. Apart(mg[q], mg[r], cs) BY <1>5 DEF MigrationsSound
      <2> QED BY <1>1, <2>1 DEF Apart
<1>6. CopiesClean(cs2, mg) BY <1>1 DEF MigrationsSound, CopiesClean
<1>7. UserKept(cf, cs2, mg, w)
      <2> SUFFICES ASSUME NEW f \in IM!Paths, NEW u \in w[f], u \notin cf[f]
                   PROVE  \E c \in cs2 : c[3] = f /\ u \in c[4] /\ Safe(c, mg)
          BY DEF UserKept
      <2>1. PICK c \in cs : c[3] = f /\ u \in c[4] /\ Safe(c, mg) BY DEF MigrationsSound, UserKept
      <2>2. c[1] # mg[p].run BY <1>2, <2>1 DEF Safe
      <2> QED BY <1>1, <2>1, <2>2
<1>8. FilesSound(cf, w) /\ RecordKept(cf, ap, mg) BY DEF MigrationsSound
<1>9. MigrationsSound(cf, ap, cs2, mg, n, w) BY <1>3, <1>4, <1>5, <1>6, <1>7, <1>8 DEF MigrationsSound
<1> QED BY <1>9 DEF cs2

LEMMA RestoredStep == ASSUME MigrationsInv, NEW p \in Procs, IM!Restored(p) PROVE MigrationsInv'
<1> DEFINE m == migrator[p]
           m2 == [migrator[p] EXCEPT !.pc = "unlock"]
<1>1. /\ m.pc = "restore" /\ m.undo = <<>> /\ migrator' = [migrator EXCEPT ![p] = m2]
      /\ UNCHANGED <<files, applied, runs, wrote, flaws>>
      BY DEF IM!Restored, IM!Goes, IM!Put
<1>2. CASE m.broken
      <2>1. UNCHANGED copies BY <1>2 DEF IM!Restored
      <2> QED BY <1>1, <1>2, <2>1, TurnStep
<1>3. CASE ~m.broken
      <2>1. copies' = copies \ Own(copies, m) BY <1>3 DEF IM!Restored, IM!CopiesOf, Own
      <2>2. DOMAIN m = MigratorFields => m2.pc = "unlock" /\ SameInHand(m2, m) BY GoesIs
      <2> HIDE DEF m2
      <2>3. ASSUME MigrationsSound(files, applied, copies, migrator, runs, wrote), runs \in Nat, DOMAIN migrator = Procs
            PROVE  MigrationsSound(files, applied, copies', [migrator EXCEPT ![p] = m2], runs, wrote)
            <3>1. MigrationsSound(files, applied, copies', migrator, runs, wrote)
                  BY <1>1, <1>3, <2>1, <2>3, DropCopies
            <3>2. /\ InstallerSound(m, files, applied, copies', runs, wrote) /\ Stage(m)
                  /\ DOMAIN m = MigratorFields
                  BY <3>1 DEF MigrationsSound, InstallerSound
            <3>3. SameInHand(m2, m) /\ m2.pc = "unlock" BY <2>2, <3>2
            <3>4. ~Asks(m2) BY <1>1, <3>2, <3>3 DEF Stage, Asks, SameInHand
            <3>5. Stage(m2) BY <1>1, <3>2, <3>3, <3>4 DEF Stage, SameInHand, Waiting
            <3>6. ~Planned(m2) /\ ~m2.done BY <1>1, <3>2, <3>3, <3>4 DEF Planned, Stage, SameInHand
            <3>7. InstallerSound(m2, files, applied, copies', runs, wrote)
                  BY <3>2, <3>3, <3>5, <3>6, HandsKept DEF SameInHand
            <3>8. Passes(m, m2, {migrator[q] : q \in Procs \ {p}}, runs)
                  BY <1>1, <3>3, HandsKeptPass DEF SameInHand, Owning, IM!Undoing
            <3>9. Passes(migrator[p], m2, {migrator[q] : q \in Procs \ {p}}, runs) BY <3>8
            <3>10. runs <= runs /\ applied \subseteq applied /\ \A id \in (applied \ applied) \cap Cleaning : IsClean(id, files)
                   BY <2>3
            <3> HIDE DEF m
            <3> QED BY <2>3, <3>1, <3>7, <3>9, <3>10, PassesOn
      <2>4. DOMAIN migrator = Procs /\ runs \in Nat BY DEF MigrationsInv
      <2> HIDE DEF m
      <2> QED BY <1>1, <2>3, <2>4, StepSound
<1> QED BY <1>2, <1>3

LEMMA UndoEndStep == ASSUME MigrationsInv, NEW p \in Procs, IM!UndoEnd(p) PROVE MigrationsInv'
<1> DEFINE m == migrator[p]
           m2 == IM!Away
<1>1. /\ m.pc = "tidy" /\ migrator' = [migrator EXCEPT ![p] = m2] /\ copies' = copies \ Own(copies, m)
      /\ UNCHANGED <<files, applied, runs, wrote, flaws>>
      BY DEF IM!UndoEnd, IM!Put, IM!CopiesOf, Own
<1>2. m2.pc = "idle" /\ m2.undo = <<>> BY AwayIs
<1>3. ASSUME MigrationsSound(files, applied, copies, migrator, runs, wrote), runs \in Nat, DOMAIN migrator = Procs
      PROVE  MigrationsSound(files, applied, copies', [migrator EXCEPT ![p] = m2], runs, wrote)
      <2>1. m.undo = <<>> /\ ~m.broken BY <1>1, <1>3 DEF MigrationsSound, InstallerSound, Stage
      <2>2. MigrationsSound(files, applied, copies', migrator, runs, wrote)
            BY <1>1, <1>3, <2>1, DropCopies
      <2>3. InstallerSound(m2, files, applied, copies', runs, wrote)
            <3>1. CopiesSound(copies', runs) BY <2>2 DEF MigrationsSound
            <3> QED BY <1>3, <3>1, GoesAway
      <2> HIDE DEF m2
      <2>4. \A f : ~Undoes(m2, f) BY <1>2 DEF Undoes
      <2>5. Passes(m, m2, {migrator[q] : q \in Procs \ {p}}, runs)
            BY <1>1, <1>2, <2>4 DEF Passes, Owning, IM!Undoing
      <2>6. Passes(migrator[p], m2, {migrator[q] : q \in Procs \ {p}}, runs) BY <2>5
      <2>7. runs <= runs /\ applied \subseteq applied /\ \A id \in (applied \ applied) \cap Cleaning : IsClean(id, files)
            BY <1>3
      <2> HIDE DEF m
      <2> QED BY <1>3, <2>2, <2>3, <2>6, <2>7, PassesOn
<1>4. DOMAIN migrator = Procs /\ runs \in Nat BY DEF MigrationsInv
<1> HIDE DEF m, m2
<1> QED BY <1>1, <1>3, <1>4, StepSound

-----------------------------------------------------------------------------
(* A copy is put aside, and the file is changed. *)

LEMMA PlacesDiffer ==
    ASSUME NEW a, NEW b, a \in Actions, b \in Actions, NEW users, ActionSound(a, users), ActionSound(b, users),
           IM!Touches(a), IM!Touches(b), a.path = b.path
    PROVE  a.id = b.id
BY DEF Actions, ActionSound, Place, IM!Ids

UndoesToo(m2, m, h) == m2.undo \in Seq(IM!Paths) /\ \A f : Undoes(m2, f) <=> Undoes(m, f) \/ f = h

LEMMA AppendIs ==
    ASSUME NEW m, NEW m2, m.undo \in Seq(IM!Paths), NEW h \in IM!Paths, m2.undo = Append(m.undo, h)
    PROVE  UndoesToo(m2, m, h)
<1>1. /\ m2.undo \in Seq(IM!Paths) /\ Len(m.undo) \in Nat
      /\ DOMAIN m.undo = 1..Len(m.undo) /\ DOMAIN m2.undo = 1..(Len(m.undo) + 1)
      /\ \A i \in 1..Len(m.undo) : m2.undo[i] = m.undo[i]
      /\ m2.undo[Len(m.undo) + 1] = h
      OBVIOUS
<1>2. ASSUME NEW f, Undoes(m2, f) PROVE Undoes(m, f) \/ f = h
      <2>1. PICK i \in 1..(Len(m.undo) + 1) : m2.undo[i] = f BY <1>1, <1>2 DEF Undoes
      <2>2. CASE i = Len(m.undo) + 1 BY <1>1, <2>1, <2>2
      <2>3. CASE i # Len(m.undo) + 1
            <3>1. i \in DOMAIN m.undo /\ m.undo[i] = f BY <1>1, <2>1, <2>3
            <3> QED BY <3>1 DEF Undoes
      <2> QED BY <2>2, <2>3
<1>3. ASSUME NEW f, Undoes(m, f) PROVE Undoes(m2, f)
      <2>1. PICK i \in 1..Len(m.undo) : m.undo[i] = f BY <1>1, <1>3 DEF Undoes
      <2>2. i \in DOMAIN m2.undo /\ m2.undo[i] = f BY <1>1, <2>1
      <2> QED BY <2>2 DEF Undoes
<1>4. Undoes(m2, h)
      <2>1. Len(m.undo) + 1 \in DOMAIN m2.undo BY <1>1
      <2> QED BY <1>1, <2>1 DEF Undoes
<1> QED BY <1>1, <1>2, <1>3, <1>4 DEF UndoesToo

HeadSound(plan, users) ==
    1 \in DOMAIN plan /\ Head(plan) = plan[1] /\ Head(plan) \in Actions /\ ActionSound(Head(plan), users)

LEMMA HeadIs ==
    ASSUME NEW users, NEW m, PlanSound(m.plan, users), m.plan # <<>>
    PROVE  HeadSound(m.plan, users) /\ Head(m.plan).path \in IM!Paths
<1>1. HeadSound(m.plan, users) BY TailIs DEF HeadSound
<1>2. \A a \in Actions : a.path \in IM!Paths BY DEF Actions
<1> QED BY <1>1, <1>2 DEF HeadSound

PutsAside(cs2, cs, m, h, cf) ==
    /\ cs \subseteq cs2
    /\ \A c \in cs2 \ cs :
          /\ c[1] = m.run /\ c[2] \in {"rollback", "backup"} /\ c[3] = h /\ c[4] = cf[h]
          /\ c \in Nat \X {"rollback", "backup"} \X IM!Paths \X SUBSET IM!Parts
    /\ \E c \in cs2 \ cs : c[2] = "rollback"

Readied(m2, m, h) ==
    /\ DOMAIN m2 = MigratorFields /\ m2.pc = "change" /\ m2.undo = Append(m.undo, h) /\ m2.run = m.run
    /\ m2.plan = m.plan /\ m2.ids = m.ids /\ m2.prev = m.prev /\ m2.broken = m.broken /\ m2.done = m.done

LEMMA CopiesGrow ==
    ASSUME NEW cf, NEW ap, NEW cs, NEW mg, NEW n \in Nat, NEW w, MigrationsSound(cf, ap, cs, mg, n, w),
           DOMAIN mg = Procs, NEW p \in Procs, NEW m, m = mg[p], m.pc = "act", m.plan # <<>>,
           IM!Touches(Head(m.plan)), NEW h, h = Head(m.plan).path,
           NEW cs2, PutsAside(cs2, cs, m, h, cf), NEW m2, Readied(m2, m, h)
    PROVE  MigrationsSound(cf, ap, cs2, [mg EXCEPT ![p] = m2], n, w)
<1> DEFINE mg2 == [mg EXCEPT ![p] = m2]
<1>1. mg2[p] = m2 /\ \A q \in Procs : q # p => mg2[q] = mg[q] OBVIOUS
<1> HIDE DEF mg2
<1>a. /\ cs \subseteq cs2
      /\ \A c \in cs2 \ cs : c[1] = m.run /\ c[2] \in {"rollback", "backup"} /\ c[3] = h /\ c[4] = cf[h]
      /\ \A c \in cs2 \ cs : c \in Nat \X {"rollback", "backup"} \X IM!Paths \X SUBSET IM!Parts
      /\ \E c \in cs2 \ cs : c[2] = "rollback"
      BY DEF PutsAside
<1>b. /\ DOMAIN m2 = MigratorFields /\ m2.pc = "change" /\ m2.undo = Append(m.undo, h) /\ m2.run = m.run
      /\ m2.plan = m.plan /\ m2.ids = m.ids /\ m2.prev = m.prev /\ m2.broken = m.broken /\ m2.done = m.done
      BY DEF Readied
<1> USE <1>a, <1>b
<1>2. /\ InstallerSound(m, cf, ap, cs, n, w) /\ Stage(m) /\ Copied(m, cf, cs, w) /\ Records(m, cf, ap)
      /\ PlanSound(m.plan, w["hooks"]) /\ m.undo \in Seq(IM!Paths) /\ m.run \in Nat /\ m.run <= n
      /\ m.run # 0 /\ m.prev = ap /\ ~m.done /\ ~m.broken /\ ~Asks(m)
      BY DEF MigrationsSound, InstallerSound, Stage, Records
<1>3. /\ Head(m.plan) = m.plan[1] /\ 1 \in DOMAIN m.plan /\ m.plan \in Seq(Actions)
      /\ Head(m.plan) \in Actions /\ h \in IM!Paths
      /\ ActionSound(Head(m.plan), w["hooks"]) /\ h = Place(Head(m.plan).id)
      <2>1. PlanSound(m.plan, w["hooks"]) /\ m.plan # <<>> BY <1>2
      <2>2. HeadSound(m.plan, w["hooks"]) /\ h \in IM!Paths BY <2>1, HeadIs
      <2> QED BY <1>2, <2>2 DEF PlanSound, ActionSound, HeadSound
<1>4. m2.undo \in Seq(IM!Paths) /\ \A f : Undoes(m2, f) <=> Undoes(m, f) \/ f = h
      <2>1. m.undo \in Seq(IM!Paths) /\ h \in IM!Paths /\ m2.undo = Append(m.undo, h) BY <1>2, <1>3
      <2>2. UndoesToo(m2, m, h) BY <2>1, AppendIs
      <2> QED BY <2>2 DEF UndoesToo
<1>5. ~Undoes(m, h) /\ (\A c \in cs : c[1] = m.run => Undoes(m, c[3]) /\ c[3] # h)
      <2>1. ~Undoes(m, h) BY <1>2, <1>3 DEF Copied
      <2>2. Early(m) BY DEF Early, Planned
      <2> QED BY <1>2, <2>1, <2>2 DEF Copied
<1>6. CopiesSound(cs2, n)
      <2>1. CopiesSound(cs, n) BY DEF MigrationsSound
      <2>2. ASSUME NEW c \in cs2
            PROVE  c \in Nat \X {"rollback", "backup"} \X IM!Paths \X SUBSET IM!Parts /\ c[1] > 0 /\ c[1] <= n
            BY <1>2, <2>1 DEF CopiesSound
      <2>3. ASSUME NEW c \in cs2, NEW d \in cs2, c[1] = d[1], c[3] = d[3] PROVE c[4] = d[4]
            BY <1>5, <2>1, <2>3 DEF CopiesSound
      <2> QED BY <2>2, <2>3 DEF CopiesSound
<1>7. InstallerSound(m2, cf, ap, cs2, n, w)
      <2>1. ~Asks(m2) /\ \A id : Pending(m2, id) <=> Pending(m, id) BY <1>2 DEF Asks, Pending
      <2>2. Stage(m2) BY <1>2, <1>4, <2>1 DEF Stage, Waiting
      <2>3. Records(m2, cf, ap) BY <1>2, <2>1 DEF Records, Planned
      <2>4. ASSUME NEW i \in DOMAIN m.plan, i # 1, IM!Touches(m.plan[i]) PROVE ~Undoes(m2, m.plan[i].path)
            <3>1. ~Undoes(m, m.plan[i].path) BY <1>2, <2>4 DEF Copied
            <3>2. m.plan[i].id # Head(m.plan).id BY <1>2, <1>3, <2>4 DEF PlanSound
            <3>3. m.plan[i] \in Actions /\ ActionSound(m.plan[i], w["hooks"]) BY <1>2, <1>3 DEF PlanSound
            <3>4. m.plan[i].path # h BY <1>3, <2>4, <3>2, <3>3, PlacesDiffer
            <3> QED BY <1>4, <3>1, <3>4
      <2>5. \A c \in cs2 : c[1] = m2.run => Undoes(m2, c[3]) BY <1>4, <1>5
      <2>6. \A f : Undoes(m2, f) => \E c \in cs2 : c[1] = m2.run /\ c[2] = "rollback" /\ c[3] = f
            BY <1>2, <1>4 DEF Copied
      <2>7. \A c \in cs2 : c[1] = m2.run =>
               /\ cf[c[3]] \cap IM!UserParts \subseteq c[4]
               /\ c[3] = "hooks" => c[4] \cap IM!UserParts = w["hooks"]
            <3> SUFFICES ASSUME NEW c \in cs2, c[1] = m2.run
                         PROVE  /\ cf[c[3]] \cap IM!UserParts \subseteq c[4]
                                /\ c[3] = "hooks" => c[4] \cap IM!UserParts = w["hooks"]
                OBVIOUS
            <3>1. CASE c \in cs BY <1>2, <1>5, <3>1 DEF Copied
            <3>2. CASE c \notin cs BY <3>2 DEF MigrationsSound, FilesSound
            <3> QED BY <3>1, <3>2
      <2>8. Copied(m2, cf, cs2, w) BY <2>4, <2>5, <2>6, <2>7 DEF Copied
      <2> QED BY <1>2, <1>4, <2>2, <2>3, <2>8 DEF InstallerSound
<1>8. ASSUME NEW q \in Procs, q # p
      PROVE  /\ InstallerSound(mg[q], cf, ap, cs2, n, w)
             /\ \A c \in cs2 : c[1] = mg[q].run => c \in cs
      <2>1. InstallerSound(mg[q], cf, ap, cs, n, w) BY DEF MigrationsSound
      <2>2. mg[q].run # m.run
            <3>1. CASE mg[q].pc = "idle" BY <1>2, <2>1, <3>1 DEF InstallerSound, Stage
            <3>2. CASE mg[q].pc # "idle" BY <1>8, <3>2 DEF MigrationsSound, Apart
            <3> QED BY <3>1, <3>2
      <2>3. \A c \in cs2 : c[1] = mg[q].run => c \in cs BY <2>2
      <2>4. Copied(mg[q], cf, cs2, w) BY <2>1, <2>3 DEF InstallerSound, Copied
      <2> QED BY <2>1, <2>3, <2>4 DEF InstallerSound
<1>9. ASSUME NEW q \in Procs, q # p PROVE Apart(m2, mg[q], cs2) /\ Apart(mg[q], m2, cs2)
      <2>1. Apart(m, mg[q], cs) /\ Apart(mg[q], m, cs) /\ InstallerSound(mg[q], cf, ap, cs, n, w)
            BY <1>9 DEF MigrationsSound
      <2>2. mg[q].pc \notin Owning BY <2>1 DEF Apart, Owning
      <2>3. Apart(mg[q], m2, cs2) BY <2>1, <2>2 DEF Apart, Owning, IM!Undoing
      <2>4. ASSUME NEW c \in cs2, NEW d \in cs2, c[1] = m2.run, d[1] = mg[q].run, c[3] = d[3],
                   Undoes(m2, c[3]), Undoes(mg[q], c[3])
            PROVE  c[4] \cap IM!UserParts \subseteq d[4]
            <3>1. d \in cs BY <1>8, <1>9, <2>4
            <3>2. CASE c \in cs BY <1>5, <2>1, <2>2, <2>4, <3>1, <3>2 DEF Apart, Owning
            <3>3. CASE c \notin cs BY <2>1, <2>4, <3>1, <3>3 DEF InstallerSound, Copied
            <3> QED BY <3>2, <3>3
      <2>5. ASSUME mg[q].pc = "resolve", NEW id \in mg[q].ids \cap Cleaning, NEW c \in cs2,
                   c[1] = m2.run, c[3] = Place(id), Undoes(m2, c[3]), ~Pending(mg[q], id)
            PROVE  Dirt(id) \notin c[4]
            <3>1. CASE c \in cs BY <1>5, <2>1, <2>5, <3>1 DEF Apart, Owning
            <3>2. CASE c \notin cs
                  <4>1. IsClean(id, cf) BY <2>1, <2>5 DEF InstallerSound, Records, Planned
                  <4> QED BY <2>5, <3>2, <4>1 DEF IsClean
            <3> QED BY <3>1, <3>2
      <2>6. Apart(m2, mg[q], cs2) BY <2>1, <2>4, <2>5 DEF Apart, Owning, IM!Undoing
      <2> QED BY <2>3, <2>6
<1>10. ASSUME NEW q \in Procs, NEW r \in Procs, q # r PROVE Apart(mg2[q], mg2[r], cs2)
      <2>1. CASE q = p \/ r = p BY <1>1, <1>9, <1>10, <2>1
      <2>2. CASE q # p /\ r # p
            <3>1. Apart(mg[q], mg[r], cs) BY <1>10 DEF MigrationsSound
            <3>2. /\ \A c \in cs2 : c[1] = mg[q].run => c \in cs
                  /\ \A c \in cs2 : c[1] = mg[r].run => c \in cs
                  BY <1>8, <2>2
            <3>3. Apart(mg[q], mg[r], cs2) BY <3>1, <3>2 DEF Apart
            <3> QED BY <1>1, <2>2, <3>3
      <2> QED BY <2>1, <2>2
<1>11. CopiesClean(cs2, mg2)
      <2> SUFFICES ASSUME NEW q \in Procs, NEW id \in Cleaning, NEW c \in cs2, c[1] = mg2[q].run,
                          c[3] = Place(id), Undoes(mg2[q], c[3]), id \in mg2[q].prev
                   PROVE  Dirt(id) \notin c[4] \/ Withdrawn(id, q, mg2)
          BY DEF CopiesClean
      <2>1. Withdrawn(id, q, mg) => Withdrawn(id, q, mg2) BY <1>1 DEF Withdrawn
      <2>2. CASE c \in cs
            <3>1. c[1] = mg[q].run /\ Undoes(mg[q], c[3]) /\ id \in mg[q].prev BY <1>1, <1>5, <2>2
            <3> QED BY <2>1, <2>2, <3>1 DEF MigrationsSound, CopiesClean
      <2>3. CASE c \notin cs
            <3>1. q = p BY <1>1, <1>8, <2>3
            <3>2. id \in ap BY <1>1, <1>2, <3>1
            <3>3. IsClean(id, cf) \/ \E r \in Procs : mg[r].pc = "undo" /\ id \notin mg[r].prev
                  BY <3>2 DEF MigrationsSound, RecordKept
            <3>4. (\E r \in Procs : mg[r].pc = "undo" /\ id \notin mg[r].prev) => Withdrawn(id, q, mg)
                  BY <3>1 DEF Withdrawn
            <3>5. IsClean(id, cf) => Dirt(id) \notin c[4] BY <2>3 DEF IsClean
            <3> QED BY <2>1, <3>3, <3>4, <3>5
      <2> QED BY <2>2, <2>3
<1>12. RecordKept(cf, ap, mg2)
      <2> SUFFICES ASSUME NEW id \in ap \cap Cleaning
                   PROVE  IsClean(id, cf) \/ \E q \in Procs : mg2[q].pc = "undo" /\ id \notin mg2[q].prev
          BY DEF RecordKept
      <2>1. IsClean(id, cf) \/ \E q \in Procs : mg[q].pc = "undo" /\ id \notin mg[q].prev
            BY DEF MigrationsSound, RecordKept
      <2>2. \A q \in Procs : mg[q].pc = "undo" => mg2[q] = mg[q] BY <1>1
      <2> QED BY <2>1, <2>2
<1>13. UserKept(cf, cs2, mg2, w)
      <2>1. ASSUME NEW c \in cs, Safe(c, mg) PROVE Safe(c, mg2)
            BY <1>1, <1>4, <2>1 DEF Safe
      <2> QED BY <2>1 DEF MigrationsSound, UserKept
<1>14. \A q \in Procs : InstallerSound(mg2[q], cf, ap, cs2, n, w) BY <1>1, <1>7, <1>8
<1>15. FilesSound(cf, w) BY DEF MigrationsSound
<1> QED BY <1>6, <1>10, <1>11, <1>12, <1>13, <1>14, <1>15 DEF MigrationsSound, mg2

LEMMA CopyAsideStep == ASSUME MigrationsInv, NEW p \in Procs, IM!CopyAside(p) PROVE MigrationsInv'
<1> DEFINE m == migrator[p]
           a == Head(m.plan)
           h == a.path
           kinds == {"rollback"} \cup (IF a.type = "backup-and-remove" THEN {"backup"} ELSE {})
           new == {<<m.run, k, h, files[h]>> : k \in kinds}
           m2 == [migrator[p] EXCEPT !.pc = "change", !.undo = Append(migrator[p].undo, h)]
<1>1. m.pc = "act" /\ m.plan # <<>> /\ UNCHANGED <<files, applied, runs, wrote, flaws>>
      BY DEF IM!CopyAside
<1>2. CASE files[h] = {} \/ ~IM!Touches(a)
      <2>1. /\ migrator' = [migrator EXCEPT ![p] = [migrator[p] EXCEPT !.plan = Tail(@)]] /\ UNCHANGED copies
            BY <1>2 DEF IM!CopyAside, IM!Put
      <2> QED BY <1>1, <1>2, <2>1, SkipStep
<1>3. CASE files[h] # {} /\ IM!Touches(a)
      <2>1. copies' = copies \cup new /\ migrator' = [migrator EXCEPT ![p] = m2]
            BY <1>3 DEF IM!CopyAside, IM!Put
      <2>2. DOMAIN m = MigratorFields =>
               /\ DOMAIN m2 = MigratorFields /\ m2.pc = "change" /\ m2.undo = Append(m.undo, h) /\ m2.run = m.run
               /\ m2.plan = m.plan /\ m2.ids = m.ids /\ m2.prev = m.prev /\ m2.broken = m.broken /\ m2.done = m.done
            BY DEF MigratorFields
      <2>3. /\ <<m.run, "rollback", h, files[h]>> \in new
            /\ \A c \in new : /\ c[1] = m.run /\ c[2] \in {"rollback", "backup"} /\ c[3] = h /\ c[4] = files[h]
                              /\ c = <<m.run, c[2], h, files[h]>>
            OBVIOUS
      <2> HIDE DEF m2, new
      <2>4. ASSUME MigrationsSound(files, applied, copies, migrator, runs, wrote), runs \in Nat, DOMAIN migrator = Procs
            PROVE  MigrationsSound(files, applied, copies', [migrator EXCEPT ![p] = m2], runs, wrote)
            <3>1. /\ DOMAIN m = MigratorFields /\ PlanSound(m.plan, wrote["hooks"]) /\ m.run \in Nat
                  /\ Copied(m, files, copies, wrote) /\ FilesSound(files, wrote)
                  BY <2>4 DEF MigrationsSound, InstallerSound
            <3>2. HeadSound(m.plan, wrote["hooks"]) /\ h \in IM!Paths BY <1>1, <3>1, HeadIs
            <3>3. ~Undoes(m, h) BY <1>1, <1>3, <3>1, <3>2 DEF Copied, HeadSound
            <3>4. Early(m) BY <1>1 DEF Early, Planned
            <3>5. \A c \in copies : c[1] = m.run => c[3] # h BY <3>1, <3>3, <3>4 DEF Copied
            <3>6. files[h] \in SUBSET IM!Parts BY <3>1, <3>2 DEF FilesSound
            <3>7. \A c \in copies' \ copies : c \in new BY <2>1
            <3>8. \A c \in copies' \ copies :
                     /\ c[1] = m.run /\ c[2] \in {"rollback", "backup"} /\ c[3] = h /\ c[4] = files[h]
                     /\ c \in Nat \X {"rollback", "backup"} \X IM!Paths \X SUBSET IM!Parts
                  BY <2>3, <3>1, <3>2, <3>6, <3>7
            <3>9. \E c \in copies' \ copies : c[2] = "rollback"
                  <4>1. <<m.run, "rollback", h, files[h]>> \in copies' BY <2>1, <2>3
                  <4>2. <<m.run, "rollback", h, files[h]>> \notin copies BY <3>5
                  <4> QED BY <4>1, <4>2
            <3>10. copies \subseteq copies' BY <2>1
            <3>11. /\ DOMAIN m2 = MigratorFields /\ m2.pc = "change" /\ m2.undo = Append(m.undo, h) /\ m2.run = m.run
                   /\ m2.plan = m.plan /\ m2.ids = m.ids /\ m2.prev = m.prev /\ m2.broken = m.broken /\ m2.done = m.done
                   BY <2>2, <3>1
            <3>12. h = Head(m.plan).path /\ IM!Touches(Head(m.plan)) /\ m = migrator[p] BY <1>3
            <3> HIDE DEF m, h, a
            <3>13. PutsAside(copies', copies, m, h, files) BY <3>8, <3>9, <3>10 DEF PutsAside
            <3>14. Readied(m2, m, h) BY <3>11 DEF Readied
            <3> QED BY <1>1, <2>4, <3>12, <3>13, <3>14, CopiesGrow
      <2>5. DOMAIN migrator = Procs /\ runs \in Nat BY DEF MigrationsInv
      <2> HIDE DEF m, a, h
      <2> QED BY <1>1, <2>1, <2>4, <2>5, StepSound
<1> QED BY <1>2, <1>3

\* What a change leaves in a file.
Lessens(cf2, cf, w) ==
    /\ FilesSound(cf2, w) /\ \A f \in IM!Paths : cf2[f] \cap IM!UserParts \subseteq cf[f] \cap IM!UserParts
    /\ \A id \in Cleaning : IsClean(id, cf) => IsClean(id, cf2)

Cleans(cf2, cf, a, w) ==
    /\ Lessens(cf2, cf, w) /\ (\A u \in w["hooks"] : a.path = "hooks" => u \in a.value)
    /\ Dirt(a.id) \notin cf2[Place(a.id)]

LEMMA ChangeLessens ==
    ASSUME NEW cf, NEW w, FilesSound(cf, w), NEW a, a \in Actions, ActionSound(a, w["hooks"]), IM!Touches(a),
           NEW cf2, cf2 = [cf EXCEPT ![a.path] = a.value]
    PROVE  Cleans(cf2, cf, a, w)
<1>1. /\ a.path \in IM!Paths /\ a.value \in SUBSET IM!Parts /\ a.id \in IM!Ids /\ a.path = Place(a.id)
      /\ Dirt(a.id) \notin a.value /\ (a.path # "hooks" => a.value = {})
      /\ a.path = "hooks" => a.id = "hooks" /\ a.value \cap IM!UserParts = w["hooks"]
      BY DEF Actions, ActionSound, Place, IM!Ids
<1>2. /\ cf \in [IM!Paths -> SUBSET IM!Parts] /\ cf["hooks"] \cap IM!UserParts = w["hooks"]
      /\ w \in [IM!Paths -> SUBSET IM!UserParts]
      BY DEF FilesSound
<1>3. /\ cf2 \in [IM!Paths -> SUBSET IM!Parts] /\ cf2[a.path] = a.value
      /\ \A f \in IM!Paths : f # a.path => cf2[f] = cf[f]
      BY <1>1, <1>2
<1>4. "hooks" \in IM!Paths /\ \A id : Place(id) \in IM!Paths BY DEF IM!Paths, Place
<1>5. ASSUME NEW f \in IM!Paths PROVE cf2[f] \cap IM!UserParts \subseteq cf[f] \cap IM!UserParts
      <2>1. CASE f # a.path BY <1>3, <2>1
      <2>2. CASE f = a.path /\ f = "hooks" BY <1>1, <1>2, <1>3, <2>2
      <2>3. CASE f = a.path /\ f # "hooks" BY <1>1, <1>3, <2>3
      <2> QED BY <2>1, <2>2, <2>3
<1>6. FilesSound(cf2, w) BY <1>1, <1>2, <1>3, <1>4 DEF FilesSound
<1>7. ASSUME NEW id \in Cleaning, IsClean(id, cf) PROVE IsClean(id, cf2)
      <2>1. CASE Place(id) # a.path BY <1>3, <1>4, <1>7, <2>1 DEF IsClean
      <2>2. CASE Place(id) = a.path /\ a.path = "hooks"
            <3>1. id = "hooks" BY <2>2 DEF Place, Cleaning
            <3> QED BY <1>1, <1>3, <2>2, <3>1 DEF IsClean
      <2>3. CASE Place(id) = a.path /\ a.path # "hooks" BY <1>1, <1>3, <2>3 DEF IsClean
      <2> QED BY <2>1, <2>2, <2>3
<1>8. Lessens(cf2, cf, w) BY <1>5, <1>6, <1>7 DEF Lessens
<1>9. Dirt(a.id) \notin cf2[Place(a.id)] BY <1>1, <1>3
<1> QED BY <1>1, <1>8, <1>9 DEF Cleans

\* A file is changed: what the user had in it is in the copy.
ChangesHead(m2, m) ==
    /\ DOMAIN m2 = MigratorFields /\ m2.pc = "act" /\ m2.plan = Tail(m.plan) /\ m2.undo = m.undo /\ m2.run = m.run
    /\ m2.ids = m.ids /\ m2.prev = m.prev /\ m2.broken = m.broken /\ m2.done = m.done

LEMMA ChangeSound ==
    ASSUME NEW cf, NEW ap, NEW cs, NEW mg, NEW n \in Nat, NEW w, MigrationsSound(cf, ap, cs, mg, n, w),
           DOMAIN mg = Procs, NEW p \in Procs, NEW m, m = mg[p], m.pc = "change",
           NEW cf2, cf2 = [cf EXCEPT ![Head(m.plan).path] = Head(m.plan).value], NEW m2, ChangesHead(m2, m)
    PROVE  MigrationsSound(cf2, ap, cs, [mg EXCEPT ![p] = m2], n, w)
<1> DEFINE mg2 == [mg EXCEPT ![p] = m2]
           a == Head(m.plan)
           h == a.path
<1>1. mg2[p] = m2 /\ \A q \in Procs : q # p => mg2[q] = mg[q] OBVIOUS
<1> HIDE DEF mg2
<1>2. /\ InstallerSound(m, cf, ap, cs, n, w) /\ Stage(m) /\ Copied(m, cf, cs, w) /\ Records(m, cf, ap)
      /\ PlanSound(m.plan, w["hooks"]) /\ m.undo \in Seq(IM!Paths) /\ m.run \in Nat /\ m.run <= n
      /\ m.run # 0 /\ m.prev = ap /\ ~m.done /\ ~m.broken /\ ~Asks(m)
      /\ m.plan # <<>> /\ IM!Touches(a) /\ Undoes(m, h)
      BY DEF MigrationsSound, InstallerSound, Stage, Records
<1>3. HeadSound(m.plan, w["hooks"]) /\ h \in IM!Paths BY <1>2, HeadIs
<1>4. PlanSound(m2.plan, w["hooks"]) /\ LeavesPlanned(m, m2)
      <2>1. m2.plan = Tail(m.plan) /\ PlanSound(m.plan, w["hooks"]) /\ m.plan # <<>> BY <1>2 DEF ChangesHead
      <2> QED BY <2>1, TailIs, TailPlans
<1>5. a \in Actions /\ ActionSound(a, w["hooks"]) /\ FilesSound(cf, w) BY <1>3 DEF HeadSound, MigrationsSound
<1> HIDE DEF a
<1>6. /\ Lessens(cf2, cf, w) /\ (\A u \in w["hooks"] : h = "hooks" => u \in a.value)
      /\ Dirt(a.id) \notin cf2[Place(a.id)]
      <2>1. cf2 = [cf EXCEPT ![a.path] = a.value] BY DEF a
      <2>2. Cleans(cf2, cf, a, w) BY <1>2, <1>5, <2>1, ChangeLessens
      <2> QED BY <2>2 DEF Cleans
<1>7. \A f : Undoes(m2, f) <=> Undoes(m, f) BY DEF Undoes, ChangesHead
<1>8. FilesSound(cf2, w) /\ \A f \in IM!Paths : f # h => cf2[f] = cf[f]
      BY <1>5, <1>6 DEF Lessens, FilesSound, a
<1>9. ASSUME NEW q \in Procs PROVE Copied(mg[q], cf2, cs, w)
      <2>1. Copied(mg[q], cf, cs, w) BY DEF MigrationsSound, InstallerSound
      <2>2. \A c \in cs : c[3] \in IM!Paths BY DEF MigrationsSound, CopiesSound
      <2>3. \A c \in cs : cf2[c[3]] \cap IM!UserParts \subseteq cf[c[3]] \cap IM!UserParts BY <1>6, <2>2 DEF Lessens
      <2> QED BY <2>1, <2>3 DEF Copied
<1>10. InstallerSound(m2, cf2, ap, cs, n, w)
      <2>1. Stage(m2) BY <1>2, <1>4 DEF Stage, ChangesHead, Waiting, LeavesPlanned
      <2>2. Copied(m, cf2, cs, w) BY <1>9
      <2>3. ASSUME NEW i \in DOMAIN m2.plan, IM!Touches(m2.plan[i]) PROVE ~Undoes(m2, m2.plan[i].path)
            <3>1. PICK j \in DOMAIN m.plan : j # 1 /\ m2.plan[i] = m.plan[j] BY <1>4 DEF LeavesPlanned
            <3> QED BY <1>2, <1>7, <2>3, <3>1 DEF Copied
      <2>4. Early(m) BY DEF Early, Planned
      <2>5. /\ m2.pc = "act" /\ m2.run = m.run
            /\ \A c \in cs : c[1] = m.run => Undoes(m, c[3])
            /\ \A f : Undoes(m, f) => \E c \in cs : c[1] = m.run /\ c[2] = "rollback" /\ c[3] = f
            /\ \A c \in cs : c[1] = m.run /\ Undoes(m, c[3]) =>
                  /\ cf2[c[3]] \cap IM!UserParts \subseteq c[4]
                  /\ c[3] = "hooks" => c[4] \cap IM!UserParts = w["hooks"]
            BY <2>2, <2>4 DEF Copied, ChangesHead
      <2>9. Copied(m2, cf2, cs, w) BY <1>7, <2>3, <2>5 DEF Copied
      <2>6. ASSUME NEW id \in m2.ids \cap Cleaning PROVE IsClean(id, cf2) \/ Pending(m2, id)
            <3>1. IsClean(id, cf) \/ Pending(m, id) BY <1>2 DEF Records, Planned, ChangesHead
            <3>2. CASE IsClean(id, cf) BY <1>6, <3>2 DEF Lessens
            <3>3. CASE Pending(m, id)
                  <4>1. Pending(m2, id) \/ a.id = id BY <1>4, <3>3 DEF LeavesPlanned, a
                  <4> QED BY <1>6, <4>1 DEF IsClean
            <3> QED BY <3>1, <3>2, <3>3
      <2>7. Records(m2, cf2, ap) BY <1>2, <2>6 DEF Records, ChangesHead
      <2>8. m2.ids \subseteq IM!Ids BY <1>2 DEF ChangesHead, InstallerSound
      <2> QED BY <1>2, <1>4, <2>1, <2>9, <2>7, <2>8 DEF InstallerSound, ChangesHead
<1>11. ASSUME NEW q \in Procs, q # p PROVE InstallerSound(mg[q], cf2, ap, cs, n, w)
      <2>1. InstallerSound(mg[q], cf, ap, cs, n, w) BY DEF MigrationsSound
      <2>2. Records(mg[q], cf2, ap) BY <1>6, <2>1 DEF InstallerSound, Records, Lessens
      <2> QED BY <1>9, <2>1, <2>2 DEF InstallerSound
<1>12. ASSUME NEW q \in Procs, q # p PROVE Apart(m2, mg[q], cs) /\ Apart(mg[q], m2, cs)
      <2>1. Apart(m, mg[q], cs) /\ Apart(mg[q], m, cs) BY <1>12 DEF MigrationsSound
      <2>2. m.pc \in Owning /\ m2.pc \in Owning /\ mg[q].pc \notin Owning BY <2>1 DEF Apart, Owning, ChangesHead
      <2>3. m2.run = m.run /\ m2.pc # "idle" /\ m.pc # "idle" /\ m2.pc \notin IM!Undoing /\ m2.pc # "resolve"
            BY DEF ChangesHead, IM!Undoing
      <2> QED BY <1>7, <2>1, <2>2, <2>3 DEF Apart
<1>13. \A q, r \in Procs : q # r => Apart(mg2[q], mg2[r], cs) BY <1>1, <1>12 DEF MigrationsSound
<1>14. CopiesClean(cs, mg2)
      <2> SUFFICES ASSUME NEW q \in Procs, NEW id \in Cleaning, NEW c \in cs, c[1] = mg2[q].run,
                          c[3] = Place(id), Undoes(mg2[q], c[3]), id \in mg2[q].prev
                   PROVE  Dirt(id) \notin c[4] \/ Withdrawn(id, q, mg2)
          BY DEF CopiesClean
      <2>1. c[1] = mg[q].run /\ Undoes(mg[q], c[3]) /\ id \in mg[q].prev BY <1>1, <1>7 DEF ChangesHead
      <2>2. Dirt(id) \notin c[4] \/ Withdrawn(id, q, mg) BY <2>1 DEF MigrationsSound, CopiesClean
      <2>3. Withdrawn(id, q, mg) => Withdrawn(id, q, mg2) BY <1>1 DEF Withdrawn
      <2> QED BY <2>2, <2>3
<1>15. RecordKept(cf2, ap, mg2)
      <2> SUFFICES ASSUME NEW id \in ap \cap Cleaning
                   PROVE  IsClean(id, cf2) \/ \E q \in Procs : mg2[q].pc = "undo" /\ id \notin mg2[q].prev
          BY DEF RecordKept
      <2>1. IsClean(id, cf) \/ \E q \in Procs : mg[q].pc = "undo" /\ id \notin mg[q].prev
            BY DEF MigrationsSound, RecordKept
      <2>2. \A q \in Procs : mg[q].pc = "undo" => mg2[q] = mg[q] BY <1>1
      <2> QED BY <1>6, <2>1, <2>2 DEF Lessens
<1>16. ASSUME NEW c \in cs, Safe(c, mg) PROVE Safe(c, mg2)
      BY <1>1, <1>7, <1>16 DEF Safe, ChangesHead
<1>17. UserKept(cf2, cs, mg2, w)
      <2> SUFFICES ASSUME NEW f \in IM!Paths, NEW u \in w[f], u \notin cf2[f]
                   PROVE  \E c \in cs : c[3] = f /\ u \in c[4] /\ Safe(c, mg2)
          BY DEF UserKept
      <2>1. CASE u \notin cf[f]
            BY <1>16, <2>1 DEF MigrationsSound, UserKept
      <2>2. CASE u \in cf[f]
            <3>1. f = h BY <1>8, <2>2
            <3>2. cf2[h] = a.value BY <1>3, <1>5 DEF a, FilesSound
            <3>3. f # "hooks" BY <1>6, <3>1, <3>2
            <3>4. PICK c \in cs : c[1] = m.run /\ c[2] = "rollback" /\ c[3] = h BY <1>2 DEF Copied
            <3>5. u \in IM!UserParts BY <1>5 DEF FilesSound
            <3>6. u \in c[4] BY <1>2, <2>2, <3>1, <3>4, <3>5 DEF Copied
            <3>7. ASSUME NEW q \in Procs, mg[q].run = c[1] PROVE q = p
                  <4>1. mg[q].pc # "idle" BY <1>2, <3>4, <3>7 DEF MigrationsSound, InstallerSound, Stage
                  <4> QED BY <3>4, <3>7, <4>1 DEF MigrationsSound, Apart
            <3>8. Safe(c, mg) BY <1>2, <3>4, <3>7 DEF Safe
            <3> QED BY <1>16, <3>1, <3>4, <3>6, <3>8
      <2> QED BY <2>1, <2>2
<1>18. \A q \in Procs : InstallerSound(mg2[q], cf2, ap, cs, n, w) BY <1>1, <1>10, <1>11
<1>19. CopiesSound(cs, n) BY DEF MigrationsSound
<1> QED BY <1>8, <1>13, <1>14, <1>15, <1>17, <1>18, <1>19 DEF MigrationsSound, mg2

LEMMA ChangeStep == ASSUME MigrationsInv, NEW p \in Procs, IM!Change(p) PROVE MigrationsInv'
<1> DEFINE m == migrator[p]
           m2 == [migrator[p] EXCEPT !.pc = "act", !.plan = Tail(migrator[p].plan)]
<1>1. /\ m.pc = "change" /\ migrator' = [migrator EXCEPT ![p] = m2]
      /\ files' = [files EXCEPT ![Head(m.plan).path] = Head(m.plan).value]
      /\ UNCHANGED <<applied, copies, runs, wrote, flaws>>
      BY DEF IM!Change, IM!Put
<1>2. DOMAIN m = MigratorFields => ChangesHead(m2, m) BY DEF MigratorFields, ChangesHead
<1> HIDE DEF m2
<1>3. ASSUME MigrationsSound(files, applied, copies, migrator, runs, wrote), runs \in Nat, DOMAIN migrator = Procs
      PROVE  MigrationsSound(files', applied, copies, [migrator EXCEPT ![p] = m2], runs, wrote)
      <2>1. ChangesHead(m2, m) /\ m = migrator[p] BY <1>2, <1>3 DEF MigrationsSound, InstallerSound
      <2> HIDE DEF m
      <2> QED BY <1>1, <1>3, <2>1, ChangeSound
<1>4. DOMAIN migrator = Procs /\ runs \in Nat BY DEF MigrationsInv
<1> HIDE DEF m
<1> QED BY <1>1, <1>3, <1>4, StepSound

-----------------------------------------------------------------------------
(* A file is put back: at once by the holder of the lock, or later by one  *)
(* who is alone.                                                           *)

LessToUndo(m2, m, h) ==
    /\ DOMAIN m2 = MigratorFields /\ m2.pc = m.pc /\ m2.plan = m.plan /\ m2.run = m.run
    /\ m2.ids = m.ids /\ m2.prev = m.prev /\ m2.broken = m.broken /\ m2.done = m.done
    /\ m2.undo \in Seq(IM!Paths)
    /\ \A f : Undoes(m2, f) => Undoes(m, f)
    /\ \A f : Undoes(m, f) => Undoes(m2, f) \/ f = h

LEMMA LessIs ==
    ASSUME NEW m, DOMAIN m = MigratorFields, m.undo \in Seq(IM!Paths), m.undo # <<>>
    PROVE  LessToUndo([m EXCEPT !.undo = IM!Front(m.undo)], m, IM!Last(m.undo))
<1> DEFINE m2 == [m EXCEPT !.undo = IM!Front(m.undo)]
<1>1. /\ DOMAIN m2 = MigratorFields /\ m2.pc = m.pc /\ m2.plan = m.plan /\ m2.run = m.run
      /\ m2.ids = m.ids /\ m2.prev = m.prev /\ m2.broken = m.broken /\ m2.done = m.done
      /\ m2.undo = IM!Front(m.undo)
      BY DEF MigratorFields
<1> HIDE DEF m2
<1>2. /\ IM!Front(m.undo) \in Seq(IM!Paths)
      /\ \A f : Undoes(m2, f) => Undoes(m, f)
      /\ \A f : Undoes(m, f) => Undoes(m2, f) \/ f = IM!Last(m.undo)
      BY <1>1, FrontIs
<1>3. LessToUndo(m2, m, IM!Last(m.undo)) BY <1>1, <1>2 DEF LessToUndo
<1> QED BY <1>3 DEF m2

LosesBackups(cs2, cs, m, h) ==
    cs2 \subseteq cs /\ \A c \in cs : c \notin cs2 => c[1] = m.run /\ c[2] = "backup" /\ c[3] = h

LEMMA PutBackSound ==
    ASSUME NEW cf, NEW ap, NEW cs, NEW mg, NEW n \in Nat, NEW w, MigrationsSound(cf, ap, cs, mg, n, w),
           DOMAIN mg = Procs, NEW p \in Procs, NEW m, m = mg[p], m.pc \in {"restore", "undo"},
           m.pc = "undo" => \A q \in Procs \ {p} : mg[q].pc \in Waiting,
           NEW h \in IM!Paths, Undoes(m, h), NEW b \in cs, b[1] = m.run, b[3] = h,
           NEW cf2, cf2 = [cf EXCEPT ![h] = b[4]], NEW m2, LessToUndo(m2, m, h),
           NEW cs2, LosesBackups(cs2, cs, m, h)
    PROVE  MigrationsSound(cf2, ap, cs2, [mg EXCEPT ![p] = m2], n, w)
<1> DEFINE mg2 == [mg EXCEPT ![p] = m2]
<1>a. cs2 \subseteq cs /\ \A c \in cs : c \notin cs2 => c[1] = m.run /\ c[2] = "backup" /\ c[3] = h
      BY DEF LosesBackups
<1> USE <1>a
<1>1. mg2[p] = m2 /\ \A q \in Procs : q # p => mg2[q] = mg[q] OBVIOUS
<1> HIDE DEF mg2
<1>2. /\ InstallerSound(m, cf, ap, cs, n, w) /\ Stage(m) /\ Copied(m, cf, cs, w) /\ Records(m, cf, ap)
      /\ PlanSound(m.plan, w["hooks"]) /\ m.run \in Nat /\ m.run <= n /\ m.ids \subseteq IM!Ids
      /\ FilesSound(cf, w) /\ CopiesSound(cs, n)
      BY DEF MigrationsSound, InstallerSound, Stage
<1>3. /\ b[3] \in IM!Paths /\ b[4] \in SUBSET IM!Parts /\ cf[h] \cap IM!UserParts \subseteq b[4]
      /\ h = "hooks" => b[4] \cap IM!UserParts = w["hooks"]
      BY <1>2 DEF CopiesSound, Copied
<1>4. /\ cf \in [IM!Paths -> SUBSET IM!Parts] /\ w \in [IM!Paths -> SUBSET IM!UserParts]
      /\ cf["hooks"] \cap IM!UserParts = w["hooks"]
      BY <1>2 DEF FilesSound
<1>5. /\ cf2 \in [IM!Paths -> SUBSET IM!Parts] /\ cf2[h] = b[4]
      /\ \A f \in IM!Paths : f # h => cf2[f] = cf[f]
      BY <1>3, <1>4
<1>6. "hooks" \in IM!Paths /\ \A id : Place(id) \in IM!Paths BY DEF IM!Paths, Place
<1>7. FilesSound(cf2, w) BY <1>3, <1>4, <1>5, <1>6 DEF FilesSound
<1>8. CopiesSound(cs2, n) BY <1>2 DEF CopiesSound
<1>9. /\ m2.pc = m.pc /\ m2.run = m.run /\ m2.plan = m.plan /\ m2.ids = m.ids /\ m2.prev = m.prev
      /\ m2.broken = m.broken /\ m2.done = m.done
      /\ (\A f : Undoes(m2, f) => Undoes(m, f)) /\ (\A f : Undoes(m, f) => Undoes(m2, f) \/ f = h)
      BY DEF LessToUndo
\* What the others have of the file.
<1>10. ASSUME NEW q \in Procs, q # p
       PROVE  /\ mg[q].pc \notin Owning /\ mg[q].run # m.run
              /\ \A d \in cs : d[1] = mg[q].run /\ d[3] = h /\ Undoes(mg[q], h) => b[4] \cap IM!UserParts \subseteq d[4]
              /\ \A id \in mg[q].ids \cap Cleaning :
                    Planned(mg[q]) /\ Place(id) = h => Dirt(id) \notin b[4] \/ Pending(mg[q], id)
       <2>1. Apart(m, mg[q], cs) /\ InstallerSound(mg[q], cf, ap, cs, n, w) BY <1>10 DEF MigrationsSound
       <2>2. mg[q].run # m.run
             <3>1. CASE mg[q].pc = "idle" BY <1>2, <2>1, <3>1 DEF InstallerSound, Stage
             <3>2. CASE mg[q].pc # "idle" BY <2>1, <3>2 DEF Apart
             <3> QED BY <3>1, <3>2
       <2>3. CASE m.pc = "undo"
             <3>1. mg[q].pc \in Waiting BY <1>10, <2>3
             <3>2. mg[q].undo = <<>> BY <2>1, <3>1 DEF InstallerSound, Stage
             <3>3. ~Undoes(mg[q], h) BY <3>2 DEF Undoes
             <3>4. ~Planned(mg[q]) /\ mg[q].pc \notin Owning
                   BY <3>1 DEF Planned, Waiting, Owning
             <3> QED BY <2>2, <3>3, <3>4
       <2>4. CASE m.pc = "restore"
             <3>1. m.pc \in Owning /\ mg[q].pc \notin Owning BY <2>1, <2>4 DEF Apart, Owning
             <3>2. Planned(mg[q]) => mg[q].pc = "resolve" BY <3>1 DEF Planned, Owning
             <3>3. \A d \in cs : d[1] = mg[q].run /\ d[3] = h /\ Undoes(mg[q], h) =>
                      b[4] \cap IM!UserParts \subseteq d[4]
                   BY <2>1, <3>1 DEF Apart
             <3>4. ASSUME NEW id \in mg[q].ids \cap Cleaning, Planned(mg[q]), Place(id) = h
                   PROVE  Dirt(id) \notin b[4] \/ Pending(mg[q], id)
                   BY <2>1, <3>1, <3>2, <3>4 DEF Apart
             <3> QED BY <2>2, <2>4, <3>1, <3>3, <3>4
       <2> QED BY <2>3, <2>4
\* The copies of one run of a file are the same.
<1>11. \A d \in cs : d[1] = m.run /\ d[3] = h => d[4] = b[4] BY <1>2 DEF CopiesSound
<1>12. ASSUME NEW id \in Cleaning, Place(id) = h, id \in m.prev, \A q \in Procs \ {p} : mg[q].pc # "undo" \/ id \in mg[q].prev
       PROVE  Dirt(id) \notin b[4]
       <2>1. ~Withdrawn(id, p, mg) BY <1>12 DEF Withdrawn
       <2> QED BY <1>12, <2>1 DEF MigrationsSound, CopiesClean
<1>13. InstallerSound(m2, cf2, ap, cs2, n, w)
       <2>1. Stage(m2)
             BY <1>2, <1>9 DEF Stage, Waiting, Asks
       <2>2. \A f : Undoes(m2, f) => \E c \in cs2 : c[1] = m.run /\ c[2] = "rollback" /\ c[3] = f
             BY <1>2, <1>9 DEF Copied
       <2>3. ASSUME NEW c \in cs2, c[1] = m.run, Undoes(m2, c[3])
             PROVE  /\ cf2[c[3]] \cap IM!UserParts \subseteq c[4]
                    /\ c[3] = "hooks" => c[4] \cap IM!UserParts = w["hooks"]
             <3>1. /\ cf[c[3]] \cap IM!UserParts \subseteq c[4] /\ c[3] \in IM!Paths
                   /\ c[3] = "hooks" => c[4] \cap IM!UserParts = w["hooks"]
                   BY <1>2, <1>9, <2>3 DEF Copied, CopiesSound
             <3>2. CASE c[3] = h BY <1>5, <1>11, <2>3, <3>1, <3>2
             <3>3. CASE c[3] # h BY <1>5, <3>1, <3>3
             <3> QED BY <3>2, <3>3
       <2>4. m2.pc \in {"restore", "undo"} BY <1>9
       <2>5. Copied(m2, cf2, cs2, w) BY <1>9, <2>2, <2>3, <2>4 DEF Copied, Early, Planned, Waiting
       <2>6. Records(m2, cf2, ap) BY <1>2, <1>9, <2>4 DEF Records, Planned
       <2>7. PlanSound(m2.plan, w["hooks"]) /\ m2.undo \in Seq(IM!Paths) BY <1>2, <1>9 DEF LessToUndo
       <2> QED BY <1>2, <1>9, <2>1, <2>5, <2>6, <2>7 DEF InstallerSound, LessToUndo
<1>14. ASSUME NEW q \in Procs, q # p PROVE InstallerSound(mg[q], cf2, ap, cs2, n, w)
       <2>1. InstallerSound(mg[q], cf, ap, cs, n, w) /\ Copied(mg[q], cf, cs, w) /\ Records(mg[q], cf, ap)
             BY DEF MigrationsSound, InstallerSound
       <2>2. \A c \in cs : c[1] = mg[q].run => c \in cs2 BY <1>10, <1>14
       <2>3. ASSUME NEW c \in cs, c[1] = mg[q].run, Undoes(mg[q], c[3])
             PROVE  cf2[c[3]] \cap IM!UserParts \subseteq c[4]
             <3>1. c[3] \in IM!Paths BY <1>2 DEF CopiesSound
             <3>2. CASE c[3] = h BY <1>5, <1>10, <1>14, <2>3, <3>2
             <3>3. CASE c[3] # h BY <1>5, <2>1, <2>3, <3>1, <3>3 DEF Copied
             <3> QED BY <3>2, <3>3
       <2>4. Copied(mg[q], cf2, cs2, w) BY <2>1, <2>2, <2>3 DEF Copied
       <2>5. ASSUME Planned(mg[q]), NEW id \in mg[q].ids \cap Cleaning PROVE IsClean(id, cf2) \/ Pending(mg[q], id)
             <3>1. IsClean(id, cf) \/ Pending(mg[q], id) BY <2>1, <2>5 DEF Records
             <3>2. CASE Place(id) = h BY <1>5, <1>10, <1>14, <2>5, <3>2 DEF IsClean
             <3>3. CASE Place(id) # h BY <1>5, <1>6, <3>1, <3>3 DEF IsClean
             <3> QED BY <3>2, <3>3
       <2>6. Records(mg[q], cf2, ap) BY <2>1, <2>5 DEF Records
       <2> QED BY <2>1, <2>4, <2>6 DEF InstallerSound
<1>15. ASSUME NEW q \in Procs, q # p PROVE Apart(m2, mg[q], cs2) /\ Apart(mg[q], m2, cs2)
       <2>1. Apart(m, mg[q], cs) /\ Apart(mg[q], m, cs) BY <1>15 DEF MigrationsSound
       <2>2. mg[q].pc \notin Owning BY <1>10, <1>15
       <2>3. m2.pc # "resolve" BY <1>9
       <2> QED BY <1>9, <2>1, <2>2, <2>3 DEF Apart
<1>16. ASSUME NEW q \in Procs, NEW r \in Procs, q # r PROVE Apart(mg2[q], mg2[r], cs2)
       <2>1. CASE q = p \/ r = p BY <1>1, <1>15, <1>16, <2>1
       <2>2. CASE q # p /\ r # p
             <3>1. Apart(mg[q], mg[r], cs) BY <1>16 DEF MigrationsSound
             <3>2. Apart(mg[q], mg[r], cs2) BY <3>1 DEF Apart
             <3> QED BY <1>1, <2>2, <3>2
       <2> QED BY <2>1, <2>2
<1>17. CopiesClean(cs2, mg2)
       <2> SUFFICES ASSUME NEW q \in Procs, NEW id \in Cleaning, NEW c \in cs2, c[1] = mg2[q].run,
                           c[3] = Place(id), Undoes(mg2[q], c[3]), id \in mg2[q].prev
                    PROVE  Dirt(id) \notin c[4] \/ Withdrawn(id, q, mg2)
           BY DEF CopiesClean
       <2>1. c[1] = mg[q].run /\ Undoes(mg[q], c[3]) /\ id \in mg[q].prev BY <1>1, <1>9
       <2>2. Dirt(id) \notin c[4] \/ Withdrawn(id, q, mg) BY <2>1 DEF MigrationsSound, CopiesClean
       <2>3. Withdrawn(id, q, mg) => Withdrawn(id, q, mg2) BY <1>1, <1>9 DEF Withdrawn
       <2> QED BY <2>2, <2>3
<1>18. RecordKept(cf2, ap, mg2)
       <2> SUFFICES ASSUME NEW id \in ap \cap Cleaning, \A q \in Procs : mg2[q].pc # "undo" \/ id \in mg2[q].prev
                    PROVE  IsClean(id, cf2)
           BY DEF RecordKept
       <2>1. \A q \in Procs : mg[q].pc # "undo" \/ id \in mg[q].prev BY <1>1, <1>9
       <2>2. IsClean(id, cf) BY <2>1 DEF MigrationsSound, RecordKept
       <2>3. CASE Place(id) # h BY <1>5, <1>6, <2>2, <2>3 DEF IsClean
       <2>4. CASE Place(id) = h
             <3>1. id \in m.prev BY <1>2, <2>1 DEF Records
             <3>2. Dirt(id) \notin b[4] BY <1>12, <2>1, <2>4, <3>1
             <3> QED BY <1>5, <2>4, <3>2 DEF IsClean
       <2> QED BY <2>3, <2>4
<1>19. ASSUME NEW c \in cs, Safe(c, mg), c[3] # h \/ c[1] # m.run PROVE c \in cs2 /\ Safe(c, mg2)
       <2>1. c \in cs2 BY <1>19
       <2>2. Safe(c, mg2) BY <1>1, <1>9, <1>19 DEF Safe
       <2> QED BY <2>1, <2>2
<1>20. UserKept(cf2, cs2, mg2, w)
       <2> SUFFICES ASSUME NEW f \in IM!Paths, NEW u \in w[f], u \notin cf2[f]
                    PROVE  \E c \in cs2 : c[3] = f /\ u \in c[4] /\ Safe(c, mg2)
           BY DEF UserKept
       <2>1. u \in IM!UserParts BY <1>4
       <2>2. u \notin cf[f]
             <3>1. CASE f = h BY <1>3, <1>5, <2>1, <3>1
             <3>2. CASE f # h BY <1>5, <3>2
             <3> QED BY <3>1, <3>2
       <2>3. PICK c \in cs : c[3] = f /\ u \in c[4] /\ Safe(c, mg) BY <2>2 DEF MigrationsSound, UserKept
       <2>4. c[3] # h \/ c[1] # m.run BY <1>5, <1>11, <2>3
       <2> QED BY <1>19, <2>3, <2>4
<1>21. \A q \in Procs : InstallerSound(mg2[q], cf2, ap, cs2, n, w) BY <1>1, <1>13, <1>14
<1> QED BY <1>7, <1>8, <1>16, <1>17, <1>18, <1>20, <1>21 DEF MigrationsSound, mg2

\* The next file to put back, with its copy.
LEMMA LastCopied ==
    ASSUME MigrationsSound(files, applied, copies, migrator, runs, wrote), NEW p \in Procs, NEW m, m = migrator[p],
           m.undo # <<>>, NEW h, h = IM!Last(m.undo), NEW b, b = IM!CopyOf(p, h)
    PROVE  /\ h \in IM!Paths /\ Undoes(m, h) /\ b \in copies /\ b[1] = m.run /\ b[3] = h
           /\ LessToUndo([m EXCEPT !.undo = IM!Front(m.undo)], m, h)
<1>1. DOMAIN m = MigratorFields /\ m.undo \in Seq(IM!Paths) /\ Copied(m, files, copies, wrote)
      BY DEF MigrationsSound, InstallerSound
<1>2. h \in IM!Paths /\ Undoes(m, h) BY <1>1, FrontIs
<1>3. \E c \in copies : c[1] = m.run /\ c[2] = "rollback" /\ c[3] = h BY <1>1, <1>2 DEF Copied
<1>4. b = CHOOSE c \in copies : c[1] = m.run /\ c[2] = "rollback" /\ c[3] = h BY DEF IM!CopyOf
<1>5. b \in copies /\ b[1] = m.run /\ b[3] = h BY <1>3, <1>4
<1>6. LessToUndo([m EXCEPT !.undo = IM!Front(m.undo)], m, h) BY <1>1, LessIs
<1> QED BY <1>2, <1>5, <1>6

LEMMA RestoreStep == ASSUME MigrationsInv, NEW p \in Procs, IM!Restore(p) PROVE MigrationsInv'
<1> DEFINE m == migrator[p]
           h == IM!Last(m.undo)
           b == IM!CopyOf(p, h)
           m2 == [m EXCEPT !.undo = IM!Front(m.undo)]
<1>1. /\ m.pc = "restore" /\ m.undo # <<>> /\ UNCHANGED <<applied, copies, runs, wrote, flaws>>
      /\ \/ files' = [files EXCEPT ![h] = b[4]] /\ migrator' = [migrator EXCEPT ![p] = m2]
         \/ /\ migrator' = [migrator EXCEPT ![p] = [migrator[p] EXCEPT !.undo = IM!Front(@), !.broken = TRUE]]
            /\ UNCHANGED files
      BY DEF IM!Restore, IM!PutBack, IM!Put
<1>2. CASE /\ migrator' = [migrator EXCEPT ![p] = [migrator[p] EXCEPT !.undo = IM!Front(@), !.broken = TRUE]]
           /\ UNCHANGED files
      BY <1>1, <1>2, RestoreFailsStep
<1>3. CASE files' = [files EXCEPT ![h] = b[4]] /\ migrator' = [migrator EXCEPT ![p] = m2]
      <2>1. ASSUME MigrationsSound(files, applied, copies, migrator, runs, wrote), runs \in Nat, DOMAIN migrator = Procs
            PROVE  MigrationsSound(files', applied, copies, [migrator EXCEPT ![p] = m2], runs, wrote)
            <3>1. /\ h \in IM!Paths /\ Undoes(m, h) /\ b \in copies /\ b[1] = m.run /\ b[3] = h
                  /\ LessToUndo(m2, m, h)
                  BY <1>1, <2>1, LastCopied
            <3>2. m = migrator[p] /\ m.pc \in {"restore", "undo"} /\ m.pc # "undo" BY <1>1
            <3>3. LosesBackups(copies, copies, m, h) BY DEF LosesBackups
            <3> HIDE DEF m, h, b, m2
            <3> QED BY <1>3, <2>1, <3>1, <3>2, <3>3, PutBackSound
      <2>2. DOMAIN migrator = Procs /\ runs \in Nat BY DEF MigrationsInv
      <2> HIDE DEF m, h, b, m2
      <2> QED BY <1>1, <1>3, <2>1, <2>2, StepSound
<1> QED BY <1>1, <1>2, <1>3

\* What is flawed is not spoken of.
LEMMA FlawedStep ==
    ASSUME MigrationsInv, NEW p \in Procs, NEW m2, migrator' = [migrator EXCEPT ![p] = m2], runs' = runs, flaws' # {}
    PROVE  MigrationsInv'
BY DEF MigrationsInv

LEMMA UndoFileStep == ASSUME MigrationsInv, NEW p \in Procs, IM!UndoFile(p) PROVE MigrationsInv'
<1> DEFINE m == migrator[p]
           h == IM!Last(m.undo)
           b == IM!CopyOf(p, h)
           m2 == [m EXCEPT !.undo = IM!Front(m.undo)]
<1>1. /\ m.pc = "undo" /\ m.undo # <<>> /\ UNCHANGED <<applied, runs, wrote>>
      /\ migrator' = [migrator EXCEPT ![p] = m2]
      /\ copies' = {c \in copies : ~(c[1] = m.run /\ c[2] = "backup" /\ c[3] = h)}
      /\ \/ files' = [files EXCEPT ![h] = b[4]] /\ flaws' = flaws \cup IM!Overlap(p)
         \/ flaws' = flaws \cup {"unrestored"}
      BY DEF IM!UndoFile, IM!PutBack, IM!Put
<1>2. CASE flaws' = flaws \cup {"unrestored"}
      BY <1>1, <1>2, FlawedStep
<1>3. CASE files' = [files EXCEPT ![h] = b[4]] /\ flaws' = flaws \cup IM!Overlap(p)
      <2>1. ASSUME flaws' = {}, MigrationsSound(files, applied, copies, migrator, runs, wrote), runs \in Nat,
                   DOMAIN migrator = Procs
            PROVE  MigrationsSound(files', applied, copies', [migrator EXCEPT ![p] = m2], runs, wrote)
            <3>1. /\ h \in IM!Paths /\ Undoes(m, h) /\ b \in copies /\ b[1] = m.run /\ b[3] = h
                  /\ LessToUndo(m2, m, h)
                  BY <1>1, <2>1, LastCopied
            <3>2. \A q \in Procs \ {p} : migrator[q].pc \in Waiting BY <1>3, <2>1, Alone
            <3>3. m = migrator[p] /\ m.pc \in {"restore", "undo"} BY <1>1
            <3>4. LosesBackups(copies', copies, m, h) BY <1>1 DEF LosesBackups
            <3> HIDE DEF m, h, b, m2
            <3> QED BY <1>3, <2>1, <3>1, <3>2, <3>3, <3>4, PutBackSound
      <2>2. DOMAIN migrator = Procs /\ runs \in Nat BY DEF MigrationsInv
      <2>3. flaws \subseteq flaws' BY <1>3
      <2> HIDE DEF m, h, b, m2
      <2> QED BY <1>1, <1>3, <2>1, <2>2, <2>3, StepSound
<1> QED BY <1>1, <1>2, <1>3

\* The record is put back by one who is alone.
LEMMA RecordBackSound ==
    ASSUME NEW cf, NEW ap, NEW cs, NEW mg, NEW n \in Nat, NEW w, MigrationsSound(cf, ap, cs, mg, n, w),
           DOMAIN mg = Procs, NEW p \in Procs, NEW m, m = mg[p], m.pc = "undo", m.undo = <<>>,
           \A q \in Procs \ {p} : mg[q].pc \in Waiting, NEW m2, SameInHand(m2, m), m2.pc = "tidy"
    PROVE  MigrationsSound(cf, m.prev, cs, [mg EXCEPT ![p] = m2], n, w)
<1> DEFINE mg2 == [mg EXCEPT ![p] = m2]
<1>1. mg2[p] = m2 /\ \A q \in Procs : q # p => mg2[q] = mg[q] OBVIOUS
<1> HIDE DEF mg2
<1>2. /\ InstallerSound(m, cf, ap, cs, n, w) /\ Stage(m) /\ m.done /\ m.prev \subseteq ap /\ Copied(m, cf, cs, w)
      BY DEF MigrationsSound, InstallerSound, Stage, Records
<1>3. /\ DOMAIN m2 = MigratorFields /\ m2.run = m.run /\ m2.plan = m.plan /\ m2.ids = m.ids /\ m2.undo = <<>>
      /\ m2.prev = m.prev /\ m2.broken = m.broken /\ m2.done = m.done
      BY DEF SameInHand
<1>4. ASSUME NEW q \in Procs, q # p
      PROVE  mg[q].pc \in Waiting /\ InstallerSound(mg[q], cf, m.prev, cs, n, w) /\ \A f : ~Undoes(mg[q], f)
      <2>1. mg[q].pc \in Waiting /\ InstallerSound(mg[q], cf, ap, cs, n, w) BY <1>4 DEF MigrationsSound
      <2>2. mg[q].undo = <<>> /\ ~mg[q].done BY <2>1 DEF InstallerSound, Stage
      <2>3. Records(mg[q], cf, m.prev) BY <2>1, <2>2 DEF Records, Waiting, Planned
      <2> QED BY <2>1, <2>2, <2>3 DEF InstallerSound, Undoes
<1>5. \A f : ~Undoes(m, f) /\ ~Undoes(m2, f) BY <1>3 DEF Undoes
<1>6. InstallerSound(m2, cf, m.prev, cs, n, w)
      <2>1. Stage(m2) BY <1>2, <1>3 DEF Stage, Waiting
      <2>2. Copied(m2, cf, cs, w) BY <1>5 DEF Copied, Early, Planned, Waiting
      <2>3. Records(m2, cf, m.prev) BY <1>3 DEF Records, Planned
      <2>4. m2.undo \in Seq(IM!Paths) BY <1>3
      <2> QED BY <1>2, <1>3, <2>1, <2>2, <2>3, <2>4 DEF InstallerSound
<1>7. ASSUME NEW q \in Procs, q # p PROVE Apart(m2, mg[q], cs) /\ Apart(mg[q], m2, cs)
      <2>1. Apart(m, mg[q], cs) /\ Apart(mg[q], m, cs) BY <1>7 DEF MigrationsSound
      <2>2. mg[q].pc \notin Owning /\ mg[q].pc \notin IM!Undoing /\ m2.pc \notin Owning
            BY <1>4, <1>7 DEF Waiting, Owning, IM!Undoing
      <2> QED BY <1>3, <2>1, <2>2 DEF Apart
<1>8. \A q, r \in Procs : q # r => Apart(mg2[q], mg2[r], cs) BY <1>1, <1>7 DEF MigrationsSound
<1>9. CopiesClean(cs, mg2)
      <2>1. \A q \in Procs : \A f : ~Undoes(mg2[q], f) BY <1>1, <1>4, <1>5
      <2> QED BY <2>1 DEF CopiesClean
<1>10. RecordKept(cf, m.prev, mg2)
      <2> SUFFICES ASSUME NEW id \in m.prev \cap Cleaning PROVE IsClean(id, cf) BY DEF RecordKept
      <2>1. IsClean(id, cf) \/ \E q \in Procs : mg[q].pc = "undo" /\ id \notin mg[q].prev
            BY <1>2 DEF MigrationsSound, RecordKept
      <2>2. \A q \in Procs : mg[q].pc = "undo" => q = p BY <1>4 DEF Waiting
      <2> QED BY <2>1, <2>2
<1>11. UserKept(cf, cs, mg2, w)
      <2>1. ASSUME NEW c \in cs, Safe(c, mg) PROVE Safe(c, mg2) BY <1>1, <1>3, <1>5, <2>1 DEF Safe
      <2> QED BY <2>1 DEF MigrationsSound, UserKept
<1>12. \A q \in Procs : InstallerSound(mg2[q], cf, m.prev, cs, n, w) BY <1>1, <1>4, <1>6
<1>13. FilesSound(cf, w) /\ CopiesSound(cs, n) BY DEF MigrationsSound
<1> QED BY <1>8, <1>9, <1>10, <1>11, <1>12, <1>13 DEF MigrationsSound, mg2

LEMMA UndoStateStep == ASSUME MigrationsInv, NEW p \in Procs, IM!UndoState(p) PROVE MigrationsInv'
<1> DEFINE m == migrator[p]
           m2 == [migrator[p] EXCEPT !.pc = "tidy"]
<1>1. /\ m.pc = "undo" /\ m.undo = <<>> /\ UNCHANGED <<files, copies, runs, wrote>>
      /\ migrator' = [migrator EXCEPT ![p] = m2]
      /\ \/ applied' = m.prev /\ flaws' = flaws \cup IM!Overlap(p)
         \/ flaws' = flaws \cup {"unrestored"}
      BY DEF IM!UndoState, IM!Goes, IM!Put
<1>2. DOMAIN m = MigratorFields => m2.pc = "tidy" /\ SameInHand(m2, m) BY GoesIs
<1> HIDE DEF m2
<1>3. CASE flaws' = flaws \cup {"unrestored"}
      BY <1>1, <1>3, FlawedStep
<1>4. CASE applied' = m.prev /\ flaws' = flaws \cup IM!Overlap(p)
      <2>1. ASSUME flaws' = {}, MigrationsSound(files, applied, copies, migrator, runs, wrote), runs \in Nat,
                   DOMAIN migrator = Procs
            PROVE  MigrationsSound(files, applied', copies, [migrator EXCEPT ![p] = m2], runs, wrote)
            <3>1. \A q \in Procs \ {p} : migrator[q].pc \in Waiting BY <1>4, <2>1, Alone
            <3>2. m = migrator[p] /\ SameInHand(m2, m) /\ m2.pc = "tidy"
                  BY <1>2, <2>1 DEF MigrationsSound, InstallerSound
            <3> HIDE DEF m
            <3> QED BY <1>1, <1>4, <2>1, <3>1, <3>2, RecordBackSound
      <2>2. DOMAIN migrator = Procs /\ runs \in Nat /\ flaws \subseteq flaws' BY <1>4 DEF MigrationsInv
      <2> HIDE DEF m
      <2> QED BY <1>1, <1>4, <2>1, <2>2, StepSound
<1> QED BY <1>1, <1>3, <1>4

-----------------------------------------------------------------------------
(* The user's edits, the beginning, and every step. *)

LEMMA EditedPlan ==
    ASSUME NEW m, NEW w, NEW w2, NEW f, PlanSound(m.plan, w["hooks"]),
           \A i \in DOMAIN m.plan : ~(m.plan[i].path = f /\ m.plan[i].type = "rewrite-json"),
           f # "hooks" => w2["hooks"] = w["hooks"]
    PROVE  PlanSound(m.plan, w2["hooks"])
<1>1. CASE f # "hooks" BY <1>1
<1>2. CASE f = "hooks"
      <2>1. ASSUME NEW i \in DOMAIN m.plan PROVE ActionSound(m.plan[i], w2["hooks"])
            <3>1. ActionSound(m.plan[i], w["hooks"]) /\ ~(m.plan[i].path = "hooks" /\ m.plan[i].type = "rewrite-json")
                  BY <1>2, <2>1 DEF PlanSound
            <3>2. m.plan[i].id # "hooks" BY <3>1 DEF ActionSound, IM!Touches, Place
            <3> QED BY <3>1, <3>2 DEF ActionSound
      <2> QED BY <2>1 DEF PlanSound
<1> QED BY <1>1, <1>2

Unused(mg, f) ==
    \A p \in Procs :
       /\ ~Undoes(mg[p], f)
       /\ \A i \in DOMAIN mg[p].plan : ~(mg[p].plan[i].path = f /\ mg[p].plan[i].type = "rewrite-json")

LEMMA EditSound ==
    ASSUME NEW cf, NEW ap, NEW cs, NEW mg, NEW n \in Nat, NEW w, MigrationsSound(cf, ap, cs, mg, n, w),
           NEW f \in IM!Paths, NEW cf2, cf2 = [cf EXCEPT ![f] = @ \cup {"late"}],
           NEW w2, w2 = [w EXCEPT ![f] = @ \cup {"late"}], Unused(mg, f)
    PROVE  MigrationsSound(cf2, ap, cs, mg, n, w2)
<1>a. \A p \in Procs :
         /\ ~Undoes(mg[p], f)
         /\ \A i \in DOMAIN mg[p].plan : ~(mg[p].plan[i].path = f /\ mg[p].plan[i].type = "rewrite-json")
      BY DEF Unused
<1>1. /\ cf \in [IM!Paths -> SUBSET IM!Parts] /\ w \in [IM!Paths -> SUBSET IM!UserParts]
      /\ cf["hooks"] \cap IM!UserParts = w["hooks"] /\ "hooks" \in IM!Paths
      /\ "late" \in IM!Parts /\ "late" \in IM!UserParts /\ \A id : Dirt(id) # "late" /\ Place(id) \in IM!Paths
      BY DEF MigrationsSound, FilesSound, IM!Paths, IM!Parts, IM!UserParts, Dirt, Place
<1>2. /\ cf2 \in [IM!Paths -> SUBSET IM!Parts] /\ w2 \in [IM!Paths -> SUBSET IM!UserParts]
      /\ cf2[f] = cf[f] \cup {"late"} /\ w2[f] = w[f] \cup {"late"}
      /\ \A g \in IM!Paths : g # f => cf2[g] = cf[g] /\ w2[g] = w[g]
      BY <1>1
<1>3. FilesSound(cf2, w2)
      <2>1. CASE f = "hooks" BY <1>1, <1>2, <2>1 DEF FilesSound
      <2>2. CASE f # "hooks" BY <1>1, <1>2, <2>2 DEF FilesSound
      <2> QED BY <2>1, <2>2
<1>4. \A id : IsClean(id, cf2) <=> IsClean(id, cf)
      <2> SUFFICES ASSUME NEW id PROVE IsClean(id, cf2) <=> IsClean(id, cf) OBVIOUS
      <2>1. CASE Place(id) = f BY <1>1, <1>2, <2>1 DEF IsClean
      <2>2. CASE Place(id) # f BY <1>1, <1>2, <2>2 DEF IsClean
      <2> QED BY <2>1, <2>2
<1>5. ASSUME NEW p \in Procs PROVE InstallerSound(mg[p], cf2, ap, cs, n, w2)
      <2> DEFINE m == mg[p]
      <2>1. InstallerSound(m, cf, ap, cs, n, w) /\ Copied(m, cf, cs, w) /\ PlanSound(m.plan, w["hooks"]) /\ ~Undoes(m, f)
            /\ \A i \in DOMAIN m.plan : ~(m.plan[i].path = f /\ m.plan[i].type = "rewrite-json")
            BY <1>a DEF MigrationsSound, InstallerSound
      <2> HIDE DEF m
      <2>2. PlanSound(m.plan, w2["hooks"]) BY <1>1, <1>2, <2>1, EditedPlan
      <2>3. \A c \in cs : c[3] \in IM!Paths BY DEF MigrationsSound, CopiesSound
      <2>4. ASSUME NEW c \in cs, Undoes(m, c[3])
            PROVE  cf2[c[3]] = cf[c[3]] /\ (c[3] = "hooks" => w2["hooks"] = w["hooks"])
            BY <1>1, <1>2, <2>1, <2>3, <2>4
      <2>5. Copied(m, cf2, cs, w2) BY <2>1, <2>4 DEF Copied
      <2>6. Records(m, cf2, ap) BY <1>4, <2>1 DEF InstallerSound, Records
      <2> QED BY <2>1, <2>2, <2>5, <2>6 DEF InstallerSound, m
<1>6. RecordKept(cf2, ap, mg) BY <1>4 DEF MigrationsSound, RecordKept
<1>7. UserKept(cf2, cs, mg, w2)
      <2> SUFFICES ASSUME NEW g \in IM!Paths, NEW u \in w2[g], u \notin cf2[g]
                   PROVE  \E c \in cs : c[3] = g /\ u \in c[4] /\ Safe(c, mg)
          BY DEF UserKept
      <2>1. u \in w[g] /\ u \notin cf[g]
            <3>1. CASE g = f BY <1>2, <3>1
            <3>2. CASE g # f BY <1>2, <3>2
            <3> QED BY <3>1, <3>2
      <2> QED BY <2>1 DEF MigrationsSound, UserKept
<1>8. CopiesSound(cs, n) /\ (\A p, q \in Procs : p # q => Apart(mg[p], mg[q], cs)) /\ CopiesClean(cs, mg)
      BY DEF MigrationsSound
<1> QED BY <1>3, <1>5, <1>6, <1>7, <1>8 DEF MigrationsSound

LEMMA EditsStep == ASSUME MigrationsInv, NEW f \in EditedParts, IM!UserEdits(f) PROVE MigrationsInv'
<1>1. /\ files' = [files EXCEPT ![f] = @ \cup {"late"}] /\ wrote' = [wrote EXCEPT ![f] = @ \cup {"late"}]
      /\ UNCHANGED <<applied, copies, migrator, runs>> /\ flaws \subseteq flaws'
      /\ flaws' = {} => ~IM!InUse(f)
      BY DEF IM!UserEdits
<1>2. DOMAIN migrator' = Procs /\ runs' \in Nat BY <1>1 DEF MigrationsInv
<1>3. ASSUME flaws' = {} PROVE MigrationsSound(files', applied', copies', migrator', runs', wrote')
      <2>1. MigrationsSound(files, applied, copies, migrator, runs, wrote) /\ runs \in Nat
            BY <1>1, <1>3 DEF MigrationsInv
      <2>2. f \in IM!Paths BY DocumentConstants DEF IM!InstallerConstants, IM!Paths
      <2>3. ~IM!InUse(f) BY <1>1, <1>3
      <2>4. Unused(migrator, f) BY <2>3 DEF IM!InUse, Undoes, Unused
      <2>5. files' = [files EXCEPT ![f] = @ \cup {"late"}] /\ wrote' = [wrote EXCEPT ![f] = @ \cup {"late"}]
            BY <1>1
      <2>6. MigrationsSound(files', applied, copies, migrator, runs, wrote')
            BY <2>1, <2>2, <2>4, <2>5, EditSound
      <2> QED BY <1>1, <2>6
<1> QED BY <1>2, <1>3 DEF MigrationsInv

LEMMA MigrationsInit == ASSUME IM!Init PROVE MigrationsInv
<1>1. /\ files \in [IM!Paths -> SUBSET IM!Parts] /\ applied = {} /\ copies = {}
      /\ migrator = [p \in Procs |-> IM!Away] /\ runs = 0 /\ flaws = {}
      /\ wrote = [f \in IM!Paths |-> files[f] \cap IM!UserParts]
      BY DEF IM!Init, IM!Parts
<1>2. FilesSound(files, wrote)
      <2>1. "hooks" \in IM!Paths BY DEF IM!Paths
      <2>2. wrote \in [IM!Paths -> SUBSET IM!UserParts] /\ wrote["hooks"] = files["hooks"] \cap IM!UserParts
            BY <1>1, <2>1
      <2> QED BY <1>1, <2>2 DEF FilesSound
<1>3. CopiesSound(copies, runs) /\ CopiesClean(copies, migrator) BY <1>1 DEF CopiesSound, CopiesClean
<1>4. ASSUME NEW p \in Procs PROVE InstallerSound(migrator[p], files, applied, copies, runs, wrote)
      BY <1>1, <1>3, GoesAway
<1>5. ASSUME NEW p \in Procs, NEW q \in Procs, p # q PROVE Apart(migrator[p], migrator[q], copies)
      <2>1. migrator[p].pc = "idle" /\ migrator[q].pc = "idle" BY <1>1, AwayIs
      <2> QED BY <2>1 DEF Apart, Owning, IM!Undoing
<1>6. RecordKept(files, applied, migrator) BY <1>1 DEF RecordKept
<1>7. UserKept(files, copies, migrator, wrote) BY <1>1 DEF UserKept
<1>8. DOMAIN migrator = Procs /\ runs \in Nat BY <1>1
<1> QED BY <1>2, <1>3, <1>4, <1>5, <1>6, <1>7, <1>8 DEF MigrationsInv, MigrationsSound

LEMMA MigrationsStep == ASSUME MigrationsInv, [IM!Next]_(IM!installVars) PROVE MigrationsInv'
<1>1. CASE UNCHANGED IM!installVars
      BY <1>1 DEF IM!installVars, MigrationsInv
<1>2. ASSUME NEW p \in Procs,
             \/ IM!Begin(p) \/ IM!Create(p) \/ IM!WritePid(p) \/ IM!FindsDead(p) \/ IM!Reclaim(p) \/ IM!TimesOut(p)
      PROVE  MigrationsInv'
      BY <1>2, LockingSteps
<1>3. ASSUME NEW p \in Procs,
             \/ IM!Plan(p) \/ IM!Mark(p) \/ IM!StartRun(p) \/ IM!CopyAside(p) \/ IM!Change(p)
             \/ IM!Breaks(p) \/ IM!Record(p)
      PROVE  MigrationsInv'
      BY <1>3, PlanStep, MarkStep, StartRunStep, CopyAsideStep, ChangeStep, BreaksStep, RecordStep
<1>4. ASSUME NEW p \in Procs,
             \/ IM!Restore(p) \/ IM!Restored(p) \/ IM!Unlock(p) \/ IM!Resolve(p) \/ IM!UndoFile(p)
             \/ IM!UndoState(p) \/ IM!UndoEnd(p)
      PROVE  MigrationsInv'
      BY <1>4, RestoreStep, RestoredStep, UnlockStep, ResolveStep, UndoFileStep, UndoStateStep, UndoEndStep
<1>5. ASSUME NEW p \in Procs, IM!Finishes(p) \/ IM!FailsLater(p) \/ IM!Crash(p) PROVE MigrationsInv'
      BY <1>5, EndSteps
<1>6. ASSUME NEW f \in EditedParts, IM!UserEdits(f) PROVE MigrationsInv'
      BY <1>6, EditsStep
<1> QED BY <1>1, <1>2, <1>3, <1>4, <1>5, <1>6 DEF IM!Next

LEMMA MigrationsAnswer == MigrationsInv => IM!UserPartsSurvive /\ IM!AppliedIsDone
<1> SUFFICES ASSUME MigrationsInv, flaws = {} PROVE
        /\ \A f \in IM!Paths : \A u \in wrote[f] : u \in files[f] \/ \E c \in copies : c[3] = f /\ u \in c[4]
        /\ (\A p \in Procs : migrator[p].pc \notin IM!Undoing) =>
              /\ "hooks" \in applied => "hook" \notin files["hooks"]
              /\ "rename" \in applied => "shipped" \notin files["old"]
    BY DEF IM!UserPartsSurvive, IM!AppliedIsDone
<1>1. MigrationsSound(files, applied, copies, migrator, runs, wrote) BY DEF MigrationsInv
<1>2. UserKept(files, copies, migrator, wrote) /\ RecordKept(files, applied, migrator) BY <1>1 DEF MigrationsSound
<1>3. \A f \in IM!Paths : \A u \in wrote[f] : u \in files[f] \/ \E c \in copies : c[3] = f /\ u \in c[4]
      BY <1>2 DEF UserKept
<1>4. ASSUME \A p \in Procs : migrator[p].pc \notin IM!Undoing
      PROVE  \A id \in applied \cap Cleaning : IsClean(id, files)
      BY <1>2, <1>4 DEF RecordKept, IM!Undoing
<1>5. ASSUME \A p \in Procs : migrator[p].pc \notin IM!Undoing
      PROVE  /\ "hooks" \in applied => "hook" \notin files["hooks"]
             /\ "rename" \in applied => "shipped" \notin files["old"]
      BY <1>4, <1>5 DEF Cleaning, IsClean, Dirt, Place
<1> QED BY <1>3, <1>5
=============================================================================
