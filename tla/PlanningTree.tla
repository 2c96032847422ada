---------------------------- MODULE PlanningTree ----------------------------
(***************************************************************************)
(* ROADMAP.md, REQUIREMENTS.md, the phase directories and the fields of    *)
(* STATE.md that go with them, under gsd-tools processes that run one      *)
(* phase, roadmap, requirements or milestone command each (phase.cjs,      *)
(* roadmap.cjs, milestone.cjs).  Some commands work under .planning/.lock, *)
(* some do not, and `phase remove` does both.                              *)
(*                                                                         *)
(* A phase number is a pair <<int, decimal>>, decimal 0 for none; a phase  *)
(* is known by a name that no command changes (its slug).  The roadmap is  *)
(* one milestone; goals, dates and the text of plan lists are left out.    *)
(***************************************************************************)
EXTENDS Integers, Sequences, FiniteSets, FiniteSetsExt

CONSTANTS
    Procs,          \* gsd-tools processes
    FirstRoadmap,   \* the sections of ROADMAP.md at first
    FirstDirs,      \* the phase directories at first
    MaxPlans,       \* bound: plan files of a phase
    MaxCommands,    \* bound: commands issued in a behaviour
    MaxFaults       \* bound: crashes, failed writes, slow lock holders

Backlog == 999
NoId == <<0, 0>>
NoLock == 0
Before(a, b) == a[1] < b[1] \/ (a[1] = b[1] /\ a[2] < b[2])
Ids == Nat \X Nat
Rows == {"Planned", "In Progress", "Complete"}

\* line: the number its checklist line and table row carry, NoId for none.
Section == [id : Ids, name : Nat, line : Ids, checked : BOOLEAN, row : Rows, waves : BOOLEAN]
Dir == [id : Ids, name : Nat, plans : 0..MaxPlans, summaries : 0..MaxPlans]

TreeConstants ==
    /\ FirstRoadmap \in Seq(Section) /\ FirstDirs \subseteq Dir
    /\ MaxPlans \in Nat /\ MaxCommands \in Nat /\ MaxFaults \in Nat

VARIABLES
    roadmap, reqs,  \* ROADMAP.md; the phases whose requirement is checked off
    dirs,           \* .planning/phases
    state,          \* the fields of STATE.md read or written here
    shelf,          \* .planning/milestones
    planLock,       \* .planning/.lock: the command that created it, or 0
    stateLock,      \* the commands inside STATE.md.lock
    work,           \* what each process is doing
    begun, mishaps,
    asked,          \* history: the phases a command was to mark as done
    upset           \* history: what went wrong so far, of Upsets
treeVars == <<roadmap, reqs, dirs, state, shelf, planLock, stateLock, work, begun,
              mishaps, asked, upset>>

-----------------------------------------------------------------------------
(* Numbers. *)

IdsOf(r) == {r[i].id : i \in DOMAIN r}
DirIds == {d.id : d \in dirs}
WholeDirs == {d.id[1] : d \in {x \in dirs : x.id[2] = 0}}

\* `phase add`: the largest number in the roadmap or on disk.
MaxPhase(r) == Max({0} \cup (({id[1] : id \in IdsOf(r)} \cup WholeDirs) \ {Backlog}))

\* `phase insert` and `phase next-decimal`.
NextDecimal(r, n) == 1 + Max({0} \cup {id[2] : id \in {x \in IdsOf(r) \cup DirIds : x[1] = n}})

NewSection(id, name) == [id |-> id, name |-> name, line |-> NoId, checked |-> FALSE,
                         row |-> "Planned", waves |-> FALSE]
NewDir(id, name) == [id |-> id, name |-> name, plans |-> 0, summaries |-> 0]

\* The first section with this number; 0 if there is none.
Where(r, id) ==
    LET there == {k \in DOMAIN r : r[k].id = id} IN IF there = {} THEN 0 ELSE Min(there)

Added(r, j) ==
    CASE j.op = "add" -> <<NewSection(<<MaxPhase(r) + 1, 0>>, 10 * j.num)>>
      [] j.op = "batch" -> [i \in 1..2 |-> NewSection(<<MaxPhase(r) + i, 0>>, 10 * j.num + i)]
      [] j.op = "insert" -> IF Where(r, j.id) = 0 THEN <<>>
                            ELSE <<NewSection(<<j.id[1], NextDecimal(r, j.id[1])>>, 10 * j.num)>>

\* `phase remove` of a whole phase closes the gap on disk and in the text.
Lowered(id, n) == IF id[1] > n /\ id[1] # Backlog THEN <<id[1] - 1, id[2]>> ELSE id
\* Mutant: the lines are not renumbered.
LineStays(id, n) == id
LoweredLine(id, n) == IF id[2] = 0 THEN Lowered(id, n) ELSE id

RoadmapWithout(r, id) ==
    LET i == Where(r, id)
        gone == IF i = 0 THEN r ELSE SubSeq(r, 1, i - 1) \o SubSeq(r, i + 1, Len(r))
        unlisted == [k \in DOMAIN gone |-> IF gone[k].line = id THEN [gone[k] EXCEPT !.line = NoId]
                                           ELSE gone[k]]
    IN  IF id[2] # 0 THEN unlisted
        ELSE [k \in DOMAIN unlisted |->
                [unlisted[k] EXCEPT !.id = Lowered(@, id[1]), !.line = LoweredLine(@, id[1])]]

\* The directories `phase remove` renames, and what it renames one to.
Renames(id) ==
    {d.name : d \in {x \in dirs : IF id[2] = 0 THEN x.id[1] > id[1] /\ x.id[1] # Backlog
                                  ELSE x.id[1] = id[1] /\ x.id[2] > id[2]}}
Renamed(d, id) ==
    [d EXCEPT !.id = IF id[2] = 0 THEN Lowered(@, id[1]) ELSE <<@[1], @[2] - 1>>]

-----------------------------------------------------------------------------
(* What `phase complete` and `roadmap update-plan-progress` write. *)

MarkDone(r, id) == [k \in DOMAIN r |-> IF r[k].line = id
                      THEN [r[k] EXCEPT !.checked = TRUE, !.row = "Complete"] ELSE r[k]]

UpdatePlanProgress(r, j) ==
    LET whole == j.summaries >= j.plans
    IN  IF whole THEN MarkDone(r, j.id)
        ELSE [k \in DOMAIN r |-> IF r[k].line = j.id
                THEN [r[k] EXCEPT !.row = IF j.summaries > 0 THEN "In Progress" ELSE "Planned"]
                ELSE r[k]]

AnnotateDependencies(r, j) ==
    LET i == Where(r, j.id) IN IF i = 0 THEN r ELSE [r EXCEPT ![i].waves = TRUE]

\* The next phase: the lowest directory above, else the first section above.
NextPhase(r, id) ==
    LET onDisk == {x \in DirIds : Before(id, x) /\ x[1] # Backlog
                                  /\ (IdsOf(r) = {} \/ x \in IdsOf(r))}
        above == {k \in DOMAIN r : Before(id, r[k].id)}
    IN  IF onDisk # {} THEN CHOOSE x \in onDisk : \A y \in onDisk : ~Before(y, x)
        ELSE IF above # {} THEN r[Min(above)].id ELSE NoId

DeriveProgress(r) == Cardinality({k \in DOMAIN r : r[k].line # NoId /\ r[k].row = "Complete"})

StateAfter(s, r, id) ==
    LET next == NextPhase(r, id)
    IN  [s EXCEPT !.phase = IF next = NoId THEN id ELSE next,
                  !.status = IF next = NoId THEN "milestone complete" ELSE "ready",
                  !.completed = IF DeriveProgress(r) = 0 THEN @ ELSE DeriveProgress(r)]

\* The section's requirement, looked up by the phase's number.
ReqsAfter(q, r, id) == IF Where(r, id) = 0 THEN q ELSE q \cup {r[Where(r, id)].name}

-----------------------------------------------------------------------------
(* The commands. *)

Locked == {"add", "batch", "insert", "progress", "annotate", "complete"}
Unlocked == {"remove", "require", "milestone", "clear"}
Resting == [pc |-> "idle", op |-> "none", id |-> NoId, num |-> 0, plans |-> 0, summaries |-> 0,
            seen |-> <<>>, old |-> [reqs |-> {}, state |-> {}], done |-> {}, todo |-> {}, failed |-> "no"]

Init ==
    /\ roadmap = FirstRoadmap /\ reqs = {} /\ dirs = FirstDirs
    /\ state = [phase |-> <<1, 0>>, status |-> "ready", total |-> Len(FirstRoadmap), completed |-> 0]
    /\ shelf = [roadmap |-> <<>>, reqs |-> {}, dirs |-> {}, entries |-> 0]
    /\ planLock = NoLock /\ stateLock = {}
    /\ work = [p \in Procs |-> Resting]
    /\ begun = 0 /\ mishaps = 0 /\ asked = {} /\ upset = {}

Put(p, j) == work' = [work EXCEPT ![p] = j]
Busy(p) == work[p].pc # "idle"
Inside(p) == work[p].pc \in {"locked", "made", "files", "undo", "wrote"}
HolderOf(l) == {p \in Procs : l # NoLock /\ Inside(p) /\ work[p].num = l}

Found(id) == IF id \in DirIds THEN {d \in dirs : d.id = id} ELSE {d \in shelf.dirs : d.id = id}

\* A removal with decimals above what is removed numbers them apart.
AmongDecimals(op, id) ==
    /\ op = "remove"
    /\ \E x \in DirIds \cup IdsOf(roadmap) :
        /\ x[1] # Backlog /\ x[2] # 0
        /\ IF id[2] = 0 THEN x[1] >= id[1] ELSE x[1] = id[1] /\ x[2] > id[2]

\* What a command checks and reads before any lock; it may end there.
Admitted(op, id) ==
    CASE op \in {"progress", "annotate"} -> \E d \in Found(id) : d.plans > 0
      [] op = "complete" -> Found(id) # {}
      [] op = "remove" -> /\ Before(state.phase, id)     \* the workflow's rule
                          /\ \A d \in dirs : d.id = id => d.summaries = 0
      [] op = "milestone" -> IdsOf(roadmap) \subseteq DirIds
      [] OTHER -> TRUE

Starts(op, id) ==
    LET d == CHOOSE x \in Found(id) : TRUE
        j == [Resting EXCEPT !.op = op, !.id = id, !.num = begun + 1,
                !.pc = CASE op = "remove" -> "delete" [] op = "require" -> "consult"
                         [] op = "milestone" -> "archive" [] op = "clear" -> "clear"
                         [] OTHER -> "wait"]
    IN  IF op \in {"progress", "annotate", "complete"}
        THEN [j EXCEPT !.plans = d.plans, !.summaries = d.summaries] ELSE j

Start(p) ==
    /\ ~Busy(p) /\ begun < MaxCommands
    /\ \E op \in Locked \cup Unlocked, id \in IdsOf(roadmap) :
        /\ op \in {"add", "batch", "milestone", "clear"} => id = roadmap[1].id
        /\ op # "require" => id[1] # Backlog
        /\ Admitted(op, id)
        /\ Put(p, Starts(op, id))
        /\ asked' = asked \cup (IF op \in {"progress", "complete"} THEN {d.name : d \in Found(id)} ELSE {})
        /\ upset' = upset \cup (IF AmongDecimals(op, id) THEN {"decimals"} ELSE {})
             \cup (IF op = "remove" /\ shelf.dirs # {} THEN {"archived"} ELSE {})
             \cup (IF \E q \in Procs : Busy(q) /\ (op \in Unlocked \/ work[q].op \in Unlocked)
                   THEN {"overlap"} ELSE {})
    /\ begun' = begun + 1
    /\ UNCHANGED <<roadmap, reqs, dirs, state, shelf, planLock, stateLock, mishaps>>

-----------------------------------------------------------------------------
(* withPlanningLock: exclusive creation; ten seconds later, or when the    *)
(* lock is half a minute old, the file is unlinked whoever holds it.       *)

Acquire(p) ==
    /\ work[p].pc = "wait" /\ planLock = NoLock
    /\ planLock' = work[p].num
    /\ Put(p, [work[p] EXCEPT !.pc = "locked"])
    /\ UNCHANGED <<roadmap, reqs, dirs, state, shelf, stateLock, begun, mishaps, asked, upset>>

\* Either the stale branch or the timeout; a live holder means ten slow seconds.
Unseats(p) ==
    /\ work[p].pc = "wait" /\ planLock # NoLock
    /\ HolderOf(planLock) # {} => mishaps < MaxFaults
    /\ mishaps' = IF HolderOf(planLock) = {} THEN mishaps ELSE mishaps + 1
    /\ upset' = upset \cup (IF HolderOf(planLock) = {} THEN {} ELSE {"stolen"})
    /\ planLock' = NoLock
    /\ UNCHANGED <<roadmap, reqs, dirs, state, shelf, stateLock, work, begun, asked>>

\* The finally clause unlinks whatever lock is there.
Release(p) ==
    LET j == work[p] IN
    /\ j.pc = "wrote"
    /\ planLock' = NoLock
    /\ upset' = upset \cup (IF HolderOf(planLock) \ {p} = {} THEN {} ELSE {"stolen"})
    /\ stateLock' = stateLock \ {j.num}
    /\ Put(p, IF j.op = "remove" THEN [j EXCEPT !.pc = "count", !.seen = <<>>] ELSE Resting)
    /\ UNCHANGED <<roadmap, reqs, dirs, state, shelf, begun, mishaps, asked>>

-----------------------------------------------------------------------------
(* phase add, add-batch and insert: directories first, then the roadmap.   *)

Make(p) ==
    LET j == work[p]
        new == Added(roadmap, j)
        at == IF j.op = "insert" THEN Where(roadmap, j.id) ELSE Len(roadmap)
    IN  /\ j.pc = "locked" /\ j.op \in {"add", "batch", "insert"}
        /\ dirs' = dirs \cup {NewDir(new[i].id, new[i].name) : i \in DOMAIN new}
        /\ Put(p, IF new = <<>> THEN [j EXCEPT !.pc = "wrote"]
                  ELSE [j EXCEPT !.pc = "made", !.seen =
                          SubSeq(roadmap, 1, at) \o new \o SubSeq(roadmap, at + 1, Len(roadmap))])
        /\ UNCHANGED <<roadmap, reqs, state, shelf, planLock, stateLock, begun, mishaps, asked, upset>>

(* The commands that rewrite the roadmap alone read it first. *)
Read(p) ==
    LET j == work[p] IN
    /\ j.pc = "locked" /\ j.op \in {"progress", "annotate", "remove"}
    /\ Put(p, [j EXCEPT !.pc = "made", !.seen =
                 CASE j.op = "progress" -> UpdatePlanProgress(roadmap, j)
                   [] j.op = "annotate" -> AnnotateDependencies(roadmap, j)
                   [] j.op = "remove" -> RoadmapWithout(roadmap, j.id)])
    /\ UNCHANGED <<roadmap, reqs, dirs, state, shelf, planLock, stateLock, begun, mishaps, asked, upset>>

WriteRoadmap(p) ==
    /\ work[p].pc = "made"
    /\ roadmap' = work[p].seen
    /\ Put(p, [work[p] EXCEPT !.pc = "wrote"])
    /\ UNCHANGED <<reqs, dirs, state, shelf, planLock, stateLock, begun, mishaps, asked, upset>>

-----------------------------------------------------------------------------
(* phase complete: the three files change together, or are put back.       *)

Files == {"roadmap", "reqs", "state"}
Turn == [roadmap |-> 1, reqs |-> 2, state |-> 3]    \* the order in which they are written
FileNow == [roadmap |-> roadmap, reqs |-> reqs, state |-> state]
FileNew(j) == [roadmap |-> j.seen, reqs |-> ReqsAfter(j.old.reqs, j.seen, j.id),
               state |-> StateAfter(j.old.state, j.seen, j.id)]
SetFile(f, v) ==
    /\ roadmap' = IF f = "roadmap" THEN v ELSE roadmap
    /\ reqs' = IF f = "reqs" THEN v ELSE reqs
    /\ state' = IF f = "state" THEN v ELSE state

\* The files still to write; one whose text would not change is skipped.
ToWrite(j) == {f \in Files \ j.done : j.old[f] # FileNew(j)[f]}

BeginComplete(p) ==
    LET j == work[p] IN
    /\ j.pc = "locked" /\ j.op = "complete" /\ stateLock = {}
    /\ stateLock' = {j.num}
    /\ Put(p, [j EXCEPT !.pc = "files", !.old = FileNow, !.seen = MarkDone(roadmap, j.id)])
    /\ UNCHANGED <<roadmap, reqs, dirs, state, shelf, planLock, begun, mishaps, asked, upset>>

WriteFile(p) ==
    LET j == work[p] IN
    /\ j.pc = "files"
    /\ \E f \in ToWrite(j) :
        /\ \A g \in ToWrite(j) : Turn[f] <= Turn[g]
        /\ SetFile(f, FileNew(j)[f])
        /\ Put(p, [j EXCEPT !.done = @ \cup {f}])
    /\ UNCHANGED <<dirs, shelf, planLock, stateLock, begun, mishaps, asked, upset>>

WriteFails(p) ==
    LET j == work[p] IN
    /\ j.pc = "files" /\ ToWrite(j) # {} /\ mishaps < MaxFaults
    /\ mishaps' = mishaps + 1
    /\ Put(p, [j EXCEPT !.pc = "undo", !.failed = "yes"])
    /\ UNCHANGED <<roadmap, reqs, dirs, state, shelf, planLock, stateLock, begun, asked, upset>>

FilesWritten(p) ==
    /\ \/ work[p].pc = "files" /\ ToWrite(work[p]) = {}
       \/ work[p].pc = "undo" /\ work[p].done = {}
    /\ Put(p, [work[p] EXCEPT !.pc = "wrote"])
    /\ UNCHANGED <<roadmap, reqs, dirs, state, shelf, planLock, stateLock, begun, mishaps, asked, upset>>

\* The file written last is put back first.
Undo(p) ==
    LET j == work[p] IN
    /\ j.pc = "undo"
    /\ \E f \in j.done :
        /\ \A g \in j.done : Turn[g] <= Turn[f]
        /\ SetFile(f, j.old[f])
        /\ Put(p, [j EXCEPT !.done = @ \ {f}])
    /\ UNCHANGED <<dirs, shelf, planLock, stateLock, begun, mishaps, asked, upset>>

\* The first file that cannot be put back ends the rollback.
UndoFails(p) ==
    /\ work[p].pc = "undo" /\ work[p].done # {} /\ mishaps < MaxFaults
    /\ mishaps' = mishaps + 1
    /\ Put(p, [work[p] EXCEPT !.pc = "wrote", !.failed = "broken"])
    /\ UNCHANGED <<roadmap, reqs, dirs, state, shelf, planLock, stateLock, begun, asked, upset>>

-----------------------------------------------------------------------------
(* phase remove: the directories go first and without the lock; then the   *)
(* roadmap under the lock; then the count in STATE.md.                      *)

Delete(p) ==
    LET j == work[p] IN
    /\ j.pc = "delete"
    /\ dirs' = {d \in dirs : d.id # j.id}
    /\ Put(p, [j EXCEPT !.pc = "rename", !.todo = {d \in dirs' : d.name \in Renames(j.id)}])
    /\ UNCHANGED <<roadmap, reqs, state, shelf, planLock, stateLock, begun, mishaps, asked, upset>>

\* One directory after the other, from the highest; a missing one ends it.
Rename(p) ==
    LET j == work[p]
        there(t) == {d \in dirs : d.name = t.name /\ d.id = t.id}
    IN  /\ j.pc = "rename"
        /\ \/ \E t \in j.todo :
                /\ \A u \in j.todo : ~Before(t.id, u.id)
                /\ dirs' = (dirs \ there(t)) \cup {Renamed(d, j.id) : d \in there(t)}
                /\ Put(p, IF there(t) = {} THEN [j EXCEPT !.pc = "wait", !.todo = {}]
                          ELSE [j EXCEPT !.todo = @ \ {t}])
           \/ j.todo = {} /\ Put(p, [j EXCEPT !.pc = "wait"]) /\ UNCHANGED dirs
        /\ UNCHANGED <<roadmap, reqs, state, shelf, planLock, stateLock, begun, mishaps, asked, upset>>

CountDown(p) ==
    /\ work[p].pc = "count" /\ stateLock = {}
    /\ state' = [state EXCEPT !.total = @ - 1]
    /\ Put(p, Resting)
    /\ UNCHANGED <<roadmap, reqs, dirs, shelf, planLock, stateLock, begun, mishaps, asked, upset>>

-----------------------------------------------------------------------------
(* Without the planning lock: requirements mark-complete, milestone        *)
(* complete and phases clear.                                              *)

Consult(p) ==
    /\ work[p].pc = "consult"
    /\ Put(p, [work[p] EXCEPT !.pc = "check", !.old = FileNow])
    /\ UNCHANGED <<roadmap, reqs, dirs, state, shelf, planLock, stateLock, begun, mishaps, asked, upset>>

Check(p) ==
    LET j == work[p] IN
    /\ j.pc = "check"
    /\ reqs' = ReqsAfter(j.old.reqs, j.old.roadmap, j.id)
    /\ Put(p, Resting)
    /\ UNCHANGED <<roadmap, dirs, state, shelf, planLock, stateLock, begun, mishaps, asked, upset>>

Archive(p) ==
    /\ work[p].pc = "archive"
    /\ shelf' = [shelf EXCEPT !.roadmap = roadmap, !.reqs = reqs, !.entries = @ + 1]
    /\ Put(p, [work[p] EXCEPT !.pc = "close", !.old = FileNow])
    /\ UNCHANGED <<roadmap, reqs, dirs, state, planLock, stateLock, begun, mishaps, asked, upset>>

\* STATE.md is read before its lock is taken.
CloseMilestone(p) ==
    LET j == work[p] IN
    /\ j.pc = "close" /\ stateLock = {}
    /\ state' = [j.old.state EXCEPT !.status = "milestone complete"]
    /\ Put(p, [j EXCEPT !.pc = "move"])
    /\ UNCHANGED <<roadmap, reqs, dirs, shelf, planLock, stateLock, begun, mishaps, asked, upset>>

\* With --archive-phases the directories the roadmap named go to the shelf.
MoveDirs(p) ==
    LET ours == {d \in dirs : d.id \in IdsOf(work[p].old.roadmap)} IN
    /\ work[p].pc = "move"
    /\ \E moved \in {{}, ours} :
        /\ dirs' = dirs \ moved
        /\ shelf' = [shelf EXCEPT !.dirs = @ \cup moved]
    /\ Put(p, Resting)
    /\ UNCHANGED <<roadmap, reqs, state, planLock, stateLock, begun, mishaps, asked, upset>>

Clear(p) ==
    /\ work[p].pc = "clear"
    /\ dirs' = {d \in dirs : d.id[1] = Backlog}
    /\ Put(p, Resting)
    /\ UNCHANGED <<roadmap, reqs, state, shelf, planLock, stateLock, begun, mishaps, asked, upset>>

-----------------------------------------------------------------------------
\* The process is killed.  Its lock stays until Unseats; STATE.md.lock is
\* freed here at once (StateDocument has its ageing).
Crash(p) ==
    /\ Busy(p) /\ mishaps < MaxFaults
    /\ mishaps' = mishaps + 1
    /\ stateLock' = stateLock \ {work[p].num}
    /\ upset' = upset \cup (IF work[p].pc = "wait" /\ work[p].op # "remove" THEN {} ELSE {"crash"})
    /\ Put(p, Resting)
    /\ UNCHANGED <<roadmap, reqs, dirs, state, shelf, planLock, begun, asked>>

\* Planners write PLAN files and executors a SUMMARY for a plan.
AgentWrites ==
    /\ \E d \in dirs :
        /\ d.id[1] # Backlog
        /\ \/ d.plans < MaxPlans /\ dirs' = (dirs \ {d}) \cup {[d EXCEPT !.plans = @ + 1]}
           \/ d.summaries < d.plans /\ dirs' = (dirs \ {d}) \cup {[d EXCEPT !.summaries = @ + 1]}
    /\ UNCHANGED <<roadmap, reqs, state, shelf, planLock, stateLock, work, begun, mishaps, asked, upset>>

Next ==
    \/ \E p \in Procs :
        \/ Start(p) \/ Acquire(p) \/ Unseats(p) \/ Release(p) \/ Crash(p)
        \/ Make(p) \/ Read(p) \/ WriteRoadmap(p)
        \/ BeginComplete(p) \/ WriteFile(p) \/ WriteFails(p) \/ FilesWritten(p)
        \/ Undo(p) \/ UndoFails(p)
        \/ Delete(p) \/ Rename(p) \/ CountDown(p)
        \/ Consult(p) \/ Check(p) \/ Archive(p) \/ CloseMilestone(p) \/ MoveDirs(p) \/ Clear(p)
    \/ AgentWrites

Spec == Init /\ [][Next]_treeVars

-----------------------------------------------------------------------------
(* Properties. *)

\* decimals: a removal numbered decimals apart; archived: it left the archived
\* directories their numbers; overlap: a command without the lock met another;
\* stolen, crash: a lock was unlinked under its holder, a command killed.
Upsets == {"decimals", "archived", "overlap", "stolen", "crash"}
TypeOK ==
    /\ roadmap \in Seq(Section) /\ dirs \subseteq Dir
    /\ state.phase \in Ids /\ state.total \in Int /\ state.completed \in Nat
    /\ planLock \in 0..MaxCommands
    /\ stateLock \subseteq 1..MaxCommands /\ Cardinality(stateLock) <= 1
    /\ \A p \in Procs : work[p].pc \in {"idle", "wait", "locked", "made", "wrote", "files", "undo",
         "delete", "rename", "count", "consult", "check", "archive", "close", "move", "clear"}
    /\ begun \in 0..MaxCommands /\ mishaps \in 0..MaxFaults /\ upset \subseteq Upsets

Numbered ==
    /\ \A i, k \in DOMAIN roadmap : roadmap[i].id = roadmap[k].id => i = k
    /\ \A d, e \in dirs : d.id = e.id => d = e
    /\ \A i \in DOMAIN roadmap : /\ roadmap[i].line \in {NoId, roadmap[i].id}
                                 /\ \A d \in dirs : d.name = roadmap[i].name => d.id = roadmap[i].id
Quiet == \A p \in Procs : ~Busy(p)

(* When no command runs, phase numbers are unique and a phase has the same *)
(* number in its heading, its checklist line and its directory, whatever   *)
(* adds, insertions, removals and completions went before, unless they ran *)
(* into what Upsets names.                                                 *)
TreeAgrees == Quiet /\ upset = {} => Numbered

(* A phase is marked as done only if a command was asked to mark that      *)
(* phase, although commands know phases by numbers that others change.     *)
MarksTheAsked ==
    upset = {} => \A i \in DOMAIN roadmap : roadmap[i].checked => roadmap[i].name \in asked

(* phase complete changes its three files together: a failed write puts    *)
(* back the files already written, unless putting back failed as well.     *)
FileSetIsWhole ==
    \A p \in Procs :
        LET j == work[p] IN
        j.op = "complete" /\ j.pc = "wrote" /\ j.failed # "broken" /\ upset = {} =>
            FileNow = IF j.failed = "yes" THEN j.old ELSE FileNew(j)
=============================================================================
