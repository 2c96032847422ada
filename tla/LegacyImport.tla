---------------------------- MODULE LegacyImport ----------------------------
(***************************************************************************)
(* Importing a GSD-2 project: milestones, slices and tasks under .gsd      *)
(* become numbered phases and plans under .planning, written file by file. *)
(* An import refuses to touch a .planning that exists unless it is forced, *)
(* so one that was killed is only finished by force.                       *)
(***************************************************************************)
EXTENDS Integers, FiniteSets, Sequences, SequencesExt

CONSTANTS Sources,    \* projects: a sequence of milestones
          None, Mine, \* Mine: what a person wrote
          MaxRuns,    \* bound: imports started
          MaxUpsets   \* bound: imports killed and files written by hand

\* A milestone is a sequence of slices, as its roadmap lists them; a slice
\* with no directory has no research and no tasks.
ImportConstants ==
    \A p \in Sources : \A m \in DOMAIN p : \A s \in ToSet(p[m]) :
        s.done \in BOOLEAN /\ s.research \in BOOLEAN /\ \A t \in ToSet(s.tasks) : t.summary \in BOOLEAN

VARIABLES
    project,   \* what .gsd holds
    planning,  \* .planning: what each path holds
    todo,      \* the files an import has still to write, None when none runs
    whole,     \* an import has finished, and nobody touched .planning since
    runs, upsets,
    over       \* an import was forced over files that were no earlier import's

vars == <<project, planning, todo, whole, runs, upsets, over>>

Path(num, slug, kind, plan) == [num |-> num, slug |-> slug, kind |-> kind, plan |-> plan]
Root(kind) == Path(0, "", kind, 0)

-----------------------------------------------------------------------------
(* The transformation. *)

\* Milestones and slices flattened into phases numbered from 1.
PhaseMap(p) ==
    LET flat == FlattenSeq([m \in DOMAIN p |-> [k \in DOMAIN p[m] |-> <<m, p[m][k]>>]]) IN
    [i \in DOMAIN flat |-> [num |-> i, milestone |-> flat[i][1], slice |-> flat[i][2]]]

RoadmapMd(phases) == [i \in DOMAIN phases |-> <<phases[i].milestone, phases[i].num, phases[i].slice.done>>]
Undone(phases) == SelectSeq(phases, LAMBDA ph : ~ph.slice.done)
StateMd(phases) ==
    LET total == Len(phases)
        left == Undone(phases) IN
    <<IF left = <<>> THEN total ELSE Head(left).num, total - Len(left), total>>

File(path, says) == <<[path |-> path, says |-> says]>>
TaskFiles(ph, i) ==
    LET s == ph.slice IN
    File(Path(ph.num, s.slug, "PLAN", i), <<ph.milestone, s.slug, i>>)
        \o (IF s.tasks[i].summary THEN File(Path(ph.num, s.slug, "SUMMARY", i), <<ph.milestone, s.slug, i>>)
            ELSE <<>>)
PhaseFiles(ph) ==
    File(Path(ph.num, ph.slice.slug, "CONTEXT", 0), <<ph.milestone, ph.slice.slug>>)
        \o (IF ph.slice.research THEN File(Path(ph.num, ph.slice.slug, "RESEARCH", 0), <<ph.milestone, ph.slice.slug>>)
            ELSE <<>>)
        \o FlattenSeq([i \in DOMAIN ph.slice.tasks |-> TaskFiles(ph, i)])
Artifacts(p) ==
    LET phases == PhaseMap(p) IN
    File(Root("PROJECT"), <<>>) \o File(Root("config"), <<>>)
        \o File(Root("ROADMAP"), RoadmapMd(phases)) \o File(Root("STATE"), StateMd(phases))
        \o FlattenSeq([i \in DOMAIN phases |-> PhaseFiles(phases[i])])

-----------------------------------------------------------------------------
(* The command. *)

Put(files, f) == [path \in DOMAIN files \cup {f.path} |-> IF path = f.path THEN f.says ELSE files[path]]

TypeOK ==
    /\ \E p \in Sources : DOMAIN p = DOMAIN project
    /\ \A path \in DOMAIN planning : path.num \in Nat /\ path.plan \in Nat
    /\ whole \in BOOLEAN /\ over \in BOOLEAN
    /\ runs \in 0..MaxRuns /\ upsets \in 0..MaxUpsets

Init ==
    /\ project \in Sources
    /\ \E there \in {{}, {Root("PROJECT")}, {Path(1, "mine", "PLAN", 1)}} :
        planning = [path \in there |-> Mine]
    /\ todo = None /\ whole = FALSE /\ runs = 0 /\ upsets = 0 /\ over = FALSE

Refuses(force) == DOMAIN planning # {} /\ ~force
Import ==
    /\ todo = None /\ runs < MaxRuns
    /\ runs' = runs + 1
    /\ \E force \in BOOLEAN, dry \in BOOLEAN :
        IF Refuses(force) \/ dry THEN UNCHANGED <<todo, over>>
        ELSE /\ todo' = Artifacts(project)
             /\ over' = (over \/ \E path \in DOMAIN planning : planning[path] = Mine)
    /\ UNCHANGED <<project, planning, whole, upsets>>
WriteNext ==
    /\ todo # None
    /\ IF todo = <<>> THEN todo' = None /\ whole' = TRUE /\ UNCHANGED planning
       ELSE todo' = Tail(todo) /\ planning' = Put(planning, Head(todo)) /\ UNCHANGED whole
    /\ UNCHANGED <<project, runs, upsets, over>>

Killed ==
    /\ todo # None /\ upsets < MaxUpsets /\ upsets' = upsets + 1
    /\ todo' = None /\ whole' = FALSE
    /\ UNCHANGED <<project, planning, runs, over>>
\* A slice is finished, or a person writes a file, between two imports.
SliceDone ==
    /\ todo = None /\ upsets < MaxUpsets /\ upsets' = upsets + 1
    /\ \E m \in DOMAIN project : \E k \in DOMAIN project[m] :
        /\ ~project[m][k].done
        /\ project' = [project EXCEPT ![m][k].done = TRUE]
    /\ whole' = FALSE
    /\ UNCHANGED <<planning, todo, runs, over>>
Authors ==
    /\ todo = None /\ upsets < MaxUpsets /\ upsets' = upsets + 1
    /\ \E path \in DOMAIN planning : planning' = [planning EXCEPT ![path] = Mine]
    /\ whole' = FALSE
    /\ UNCHANGED <<project, todo, runs, over>>

Next == Import \/ WriteNext \/ Killed \/ SliceDone \/ Authors

Spec == Init /\ [][Next]_vars

-----------------------------------------------------------------------------
(* Properties. *)

Before(m) == FoldFunctionOnSet(LAMBDA s, n : Len(s) + n, 0, project, 1..(m - 1))
Of(num, kind) == {path \in DOMAIN planning : path.num = num /\ path.kind = kind}

\* After an import that ran to its end, also one that finished by force what a
\* killed one had begun, each slice has a phase number of its own with one
\* plan for each task and one summary for each task that has one; the roadmap
\* checks the phases that are done, and STATE.md names the first that is not.
\* Only an import forced over a person's own .planning may leave a second
\* directory with the same number (buildPlanningArtifacts, cmdFromGsd2).
ImportIsWhole ==
    whole /\ todo = None =>
        /\ \A m \in DOMAIN project : \A k \in DOMAIN project[m] :
            LET num == Before(m) + k
                s == project[m][k] IN
            /\ planning[Root("ROADMAP")][num] = <<m, num, s.done>>
            /\ ~over =>
                /\ {path.slug : path \in {q \in DOMAIN planning : q.num = num}} = {s.slug}
                /\ {path.plan : path \in Of(num, "PLAN")} = DOMAIN s.tasks
                /\ {path.plan : path \in Of(num, "SUMMARY")} = {i \in DOMAIN s.tasks : s.tasks[i].summary}
                /\ \A path \in Of(num, "PLAN") : planning[path] = <<m, s.slug, path.plan>>
        /\ LET all == {<<m, k>> : m \in DOMAIN project, k \in 1..3}
               left == {a \in all : a[2] \in DOMAIN project[a[1]] /\ ~project[a[1]][a[2]].done}
               now == planning[Root("STATE")][1] IN
           /\ left # {} => \E a \in left : Before(a[1]) + a[2] = now
           /\ \A a \in left : now <= Before(a[1]) + a[2]
=============================================================================
