--------------------------- MODULE RoadmapUpgrade ---------------------------
(***************************************************************************)
(* roadmap upgrade: phases numbered 1, 2, 3 through all milestones become  *)
(* 1-01, 1-02, 2-01: a plan computed from the roadmap, and its application *)
(* to directories, roadmap, cross references and config, which a failure   *)
(* takes back with git.                                                    *)
(* A number is <<n>> before and <<m, k>> after. `who` is the phase a line, *)
(* a directory or a reference is about; the code does not know it.         *)
(***************************************************************************)
EXTENDS Integers, FiniteSets, Sequences, SequencesExt

CONSTANTS Roadmaps,      \* the roadmaps a project may start with
          MaxRuns,       \* bound: runs of the upgrade
          MaxMishaps     \* bound: failing file operations, failing rollbacks, crashes

VARIABLES
    tree,      \* .planning on disk: roadmap, directories, references, convention
    head,      \* the same as committed
    ignored,   \* whether .planning is ignored by git
    job,       \* the run of the upgrade
    upgrades, mishaps,
    damage     \* what the run could not keep up

vars == <<tree, head, ignored, job, upgrades, mishaps, damage>>

Lines(r, kind) == {i \in DOMAIN r : r[i].kind = kind}
RefFiles == {"STATE.md", "PROJECT.md"}

\* Each phase has a directory, and references by prose and by project code.
FirstTree(r) ==
    LET phases == {r[i] : i \in Lines(r, "phase")}
        Refs(kind) == {[kind |-> kind, id |-> x.id, who |-> x.who] : x \in phases}
    IN  [roadmap |-> r,
         dirs |-> {[id |-> x.id, slug |-> <<>>, who |-> x.who] : x \in phases},
         refs |-> [f \in RefFiles |-> IF f = "STATE.md" THEN Refs("prose") ELSE Refs("code")],
         convention |-> FALSE]

-----------------------------------------------------------------------------
(* computeMigrationPlan. *)

\* The major version of the milestone a line is under; 0 for none.
Major(r, i) ==
    LET above == {j \in Lines(r, "milestone") : j < i}
    IN  IF above = {} THEN 0 ELSE r[CHOOSE j \in above : \A k \in above : k <= j].id[1]
Assigned(r) == {i \in Lines(r, "phase") : Major(r, i) # 0}
SubIndex(r, i) == Cardinality({j \in Assigned(r) : j <= i /\ Major(r, j) = Major(r, i)})
NewId(r, i) == <<Major(r, i), SubIndex(r, i)>>

AlreadyMigrated(t) == t.convention \/ \E i \in Lines(t.roadmap, "phase") : Len(t.roadmap[i].id) = 2

\* A directory shows its first number only; the first line of that number not
\* yet taken by another directory is its own.
Claimants(t, n) == {d \in t.dirs : d.id[1] = n}
Rank(t, d) == Cardinality({e \in Claimants(t, d.id[1]) : e.who <= d.who})
LinesOf(r, n) == {i \in Assigned(r) : r[i].id = <<n>>}
Claim(t, d) ==
    {i \in LinesOf(t.roadmap, d.id[1]) :
        Cardinality({j \in LinesOf(t.roadmap, d.id[1]) : j <= i}) = Rank(t, d)}
\* What follows the first number is taken for the name.
Renamed(d, id) == [d EXCEPT !.id = id, !.slug = Tail(d.id) \o d.slug]
Renames(t) == {<<x[1], Renamed(x[1], NewId(t.roadmap, x[2]))>> : x \in
                 {x \in t.dirs \X DOMAIN t.roadmap : x[2] \in Claim(t, x[1])}}

\* A checklist line follows the last heading of its number in its milestone,
\* else the first heading of that number.
NewCheckId(r, i) ==
    LET same == LinesOf(r, r[i].id[1])
        near == {j \in same : Major(r, j) = Major(r, i)}
    IN  IF same = {} THEN r[i].id
        ELSE IF near # {} THEN NewId(r, CHOOSE j \in near : \A k \in near : k <= j)
        ELSE NewId(r, CHOOSE j \in same : \A k \in same : j <= k)
Edited(r) ==
    [i \in DOMAIN r |-> CASE i \in Assigned(r) -> [r[i] EXCEPT !.id = NewId(r, i)]
                          [] r[i].kind = "check" -> [r[i] EXCEPT !.id = NewCheckId(r, i)]
                          [] OTHER -> r[i]]

\* A reference by code matches by its first number, one in prose by the whole.
Matches(ref, n) == IF ref.kind = "code" THEN ref.id[1] = n ELSE ref.id = <<n>>
RefEdits(t, f) ==
    LET order == SetToSortSeq(Assigned(t.roadmap), <)
        present(i) == \E ref \in t.refs[f] : Matches(ref, t.roadmap[i].id[1])
    IN  SelectSeq(order, present)
Rewritten(ref, id) == [ref EXCEPT !.id = id \o Tail(ref.id)]
RefsAfter(refs, r, edits) ==
    FoldLeft(LAMBDA acc, i : {IF Matches(ref, r[i].id[1]) THEN Rewritten(ref, NewId(r, i)) ELSE ref :
                                 ref \in acc}, refs, edits)

Plan(t) ==
    [renames |-> Renames(t), was |-> t.roadmap, roadmap |-> Edited(t.roadmap),
     edits |-> [f \in RefFiles |-> RefEdits(t, f)]]

-----------------------------------------------------------------------------
NoPlan == [renames |-> {}, was |-> <<>>, roadmap |-> <<>>, edits |-> [f \in RefFiles |-> <<>>]]
NoJob == [at |-> "none", plan |-> NoPlan, left |-> {}]

TypeOK ==
    /\ DOMAIN tree = {"roadmap", "dirs", "refs", "convention"} /\ DOMAIN head = DOMAIN tree
    /\ Len(tree.roadmap) = Len(head.roadmap)
    /\ Cardinality(tree.dirs) = Cardinality(head.dirs)
    /\ ignored \in BOOLEAN
    /\ job.at \in {"none", "planned", "dirs", "roadmap", "refs", "config", "back"}
    /\ upgrades \in 0..MaxRuns /\ mishaps \in 0..MaxMishaps
    /\ damage \subseteq {"crash", "rollback", "ignored", "chained", "kept"}

Init ==
    /\ \E r \in Roadmaps : tree = FirstTree(r) /\ head = FirstTree(r)
    /\ ignored \in BOOLEAN
    /\ job = NoJob /\ upgrades = 0 /\ mishaps = 0 /\ damage = {}

Begin ==
    /\ job.at = "none" /\ upgrades < MaxRuns
    /\ upgrades' = upgrades + 1
    /\ job' = IF AlreadyMigrated(tree) THEN NoJob
              ELSE [at |-> "planned", plan |-> Plan(tree), left |-> Plan(tree).renames]
    /\ UNCHANGED <<tree, head, ignored, mishaps, damage>>

\* Without --apply the plan is printed and that is all.
DryRun ==
    /\ job.at = "planned"
    /\ job' = NoJob
    /\ UNCHANGED <<tree, head, ignored, upgrades, mishaps, damage>>

\* git status shows no ignored file.
Clean == ignored \/ tree = head
Apply ==
    /\ job.at = "planned"
    /\ job' = IF Clean THEN [job EXCEPT !.at = "dirs"] ELSE NoJob
    /\ UNCHANGED <<tree, head, ignored, upgrades, mishaps, damage>>

Goes(at) == job' = [job EXCEPT !.at = at] /\ UNCHANGED <<head, ignored, upgrades, mishaps, damage>>

RenameDir ==
    /\ job.at = "dirs" /\ job.left # {}
    /\ \E x \in job.left :
        /\ job' = [job EXCEPT !.left = @ \ {x}]
        /\ tree' = IF x[1] \in tree.dirs
                     THEN [tree EXCEPT !.dirs = (@ \ {x[1]}) \cup {x[2]}] ELSE tree
    /\ UNCHANGED <<head, ignored, upgrades, mishaps, damage>>
DirsDone == job.at = "dirs" /\ job.left = {} /\ Goes("roadmap") /\ UNCHANGED tree

\* A line is replaced only if it still is what was planned for.
EditRoadmap ==
    /\ job.at = "roadmap" /\ Goes("refs")
    /\ tree' = [tree EXCEPT !.roadmap =
                  [i \in DOMAIN @ |-> IF i \in DOMAIN job.plan.was /\ @[i] = job.plan.was[i]
                                        THEN job.plan.roadmap[i] ELSE @[i]]]

\* An edit may meet what an earlier edit has put there.
Chained(f) ==
    \E i, j \in DOMAIN job.plan.edits[f] :
        /\ i < j
        /\ LET a == job.plan.edits[f][i] IN
           /\ \E ref \in tree.refs[f] :
                ref.kind = "code" /\ ref.id[1] = job.plan.was[a].id[1]
           /\ NewId(job.plan.was, a)[1] = job.plan.was[job.plan.edits[f][j]].id[1]
EditRefs ==
    /\ job.at = "refs"
    /\ job' = [job EXCEPT !.at = "config"]
    /\ tree' = [tree EXCEPT !.refs =
                  [f \in RefFiles |-> RefsAfter(tree.refs[f], job.plan.was, job.plan.edits[f])]]
    /\ damage' = damage \cup (IF \E f \in RefFiles : Chained(f) THEN {"chained"} ELSE {})
    /\ UNCHANGED <<head, ignored, upgrades, mishaps>>

SetConvention ==
    /\ job.at = "config"
    /\ job' = NoJob
    /\ tree' = [tree EXCEPT !.convention = TRUE]
    /\ UNCHANGED <<head, ignored, upgrades, mishaps, damage>>

Mishap == mishaps < MaxMishaps /\ mishaps' = mishaps + 1
Running == job.at \in {"dirs", "roadmap", "refs", "config"}
Fail ==
    /\ Running /\ Mishap
    /\ job' = [job EXCEPT !.at = "back"]
    /\ UNCHANGED <<tree, head, ignored, upgrades, damage>>

\* git reset --hard and git clean: all that git knows; nothing of what it ignores.
RestoredFiles == IF ignored THEN tree ELSE [head EXCEPT !.dirs = tree.dirs]
Restored == IF ignored THEN tree ELSE head
RollBack ==
    /\ job.at = "back"
    /\ job' = NoJob
    /\ tree' = Restored
    /\ damage' = damage \cup (IF ignored /\ tree # head THEN {"ignored"} ELSE {})
    /\ UNCHANGED <<head, ignored, upgrades, mishaps>>
RollBackFails ==
    /\ job.at = "back" /\ Mishap
    /\ job' = NoJob
    /\ damage' = damage \cup {"rollback"}
    /\ UNCHANGED <<tree, head, ignored, upgrades>>

Crash ==
    /\ job.at # "none" /\ Mishap
    /\ job' = NoJob
    /\ damage' = damage \cup (IF tree # head THEN {"crash"} ELSE {})
    /\ UNCHANGED <<tree, head, ignored, upgrades>>

\* The user commits what is there, or throws it away.
Commit ==
    /\ job.at = "none" /\ ~ignored /\ head # tree
    /\ head' = tree
    /\ damage' = damage \cup (IF damage = {} THEN {} ELSE {"kept"})
    /\ UNCHANGED <<tree, ignored, job, upgrades, mishaps>>
Discard ==
    /\ job.at = "none" /\ ~ignored /\ head # tree
    /\ tree' = head
    /\ damage' = IF "kept" \in damage THEN damage ELSE {}
    /\ UNCHANGED <<head, ignored, job, upgrades, mishaps>>

Next ==
    \/ Begin \/ DryRun \/ Apply \/ RenameDir \/ DirsDone \/ EditRoadmap \/ EditRefs \/ SetConvention
    \/ Fail \/ RollBack \/ RollBackFails \/ Crash \/ Commit \/ Discard

Spec == Init /\ [][Next]_vars

-----------------------------------------------------------------------------
(* Properties. *)

\* Between runs the project is numbered in one way: the convention says so,
\* every heading under a milestone has a new number, and so has every
\* directory of one; a failed run has been taken back. Not so after a crash,
\* a rollback that failed, or a rollback of files that git ignores.
UpgradeIsWhole ==
    job.at = "none" /\ damage \subseteq {"chained", "kept"} =>
        LET r == tree.roadmap
            new == {i \in Lines(r, "phase") : Len(r[i].id) = 2}
        IN  IF tree.convention
              THEN /\ \A i \in Lines(r, "phase") : Major(r, i) # 0 => i \in new
                   /\ \A d \in tree.dirs : \E i \in Lines(r, "phase") :
                        r[i].who = d.who /\ (i \in new => Len(d.id) = 2 /\ d.slug = <<>>)
              ELSE new = {} /\ \A d \in tree.dirs : Len(d.id) = 1

\* A phase whose number was its own before the upgrade has one number after
\* it, in its heading, its checklist line, its directory and what refers to
\* it, and no other phase has that number.
Unambiguous(r, i) == \A j \in Lines(r, "phase") : r[i].first = r[j].first => i = j
PhasesKeepTheirOwn ==
    job.at = "none" /\ damage \subseteq {"chained", "kept"} =>
        LET r == tree.roadmap
            phases == Lines(r, "phase")
        IN  /\ tree.convention => \A i, j \in phases : r[i].id = r[j].id => i = j \/ Len(r[i].id) = 1
            /\ \A i \in phases : Unambiguous(r, i) =>
                /\ \A j \in Lines(r, "check") : r[j].who = r[i].who => r[j].id = r[i].id
                /\ \A d \in tree.dirs : d.who = r[i].who => d.id = r[i].id
                /\ \A f \in RefFiles : \A ref \in tree.refs[f] :
                    ref.who = r[i].who /\ (ref.kind = "prose" \/ "chained" \notin damage)
                        => ref.id = r[i].id
=============================================================================
