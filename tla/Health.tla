------------------------------- MODULE Health -------------------------------
(***************************************************************************)
(* validate health and validate consistency: what they report of the files *)
(* in .planning, and the repairs health makes, one after the other, from   *)
(* what its check saw, while other commands go on writing the same files.  *)
(* Phase n.k is the number 10n + k, a version v1.k the number k.           *)
(***************************************************************************)
EXTENDS Integers, FiniteSets, Sequences, SequencesExt

CONSTANTS Projects,      \* the .planning directories to begin with
          None, Torn,    \* a file that is absent, one that does not parse
          MaxRuns,       \* bound: runs of health
          MaxEdits,      \* bound: files written meanwhile by others
          MaxMishaps     \* bound: failed writes and killed runs

VARIABLES
    tree,      \* .planning
    backups,   \* texts of STATE.md.bak-... files
    job,       \* the run of health
    last,      \* what the last run that repaired saw, and whether it was left alone
    authored,  \* what others wrote: the last texts of STATE.md and config.json, all entries of the registry
    runs, edits, mishaps,
    upset      \* files a repair wrote over although another command had written them since it looked

vars == <<tree, backups, job, last, authored, runs, edits, mishaps, upset>>

Codes == {"E002", "E003", "E004", "E005", "W001", "W002", "W003", "W004", "W005", "W006", "W007",
          "W008", "W009", "W010", "W011", "W012", "W013", "W014", "W016", "W017", "W018", "W019",
          "W020", "W021", "I001"}
Repairable == {"E004", "E005", "W003", "W008", "W016", "W018"}
If(cond, code) == IF cond THEN {code} ELSE {}
IsFile(f) == f \notin {None, Torn}

-----------------------------------------------------------------------------
(* Phases on disk: those of phases/ and of the active milestone's archive. *)

Tokens(dirs) == {d.id : d \in dirs} \ {0}
ActiveArchive(t) ==
    LET all == DOMAIN t.archives
    IN  IF all = {} THEN {}
        ELSE IF t.state # None /\ t.state.milestone # 0
          THEN IF t.state.milestone \in all THEN {t.state.milestone} ELSE {}
          ELSE {CHOOSE v \in all : \A w \in all : w <= v}
OnDisk(t) == Tokens(t.dirs) \cup UNION {t.archives[v] : v \in ActiveArchive(t)}
Archived(t) == UNION {t.archives[v] : v \in DOMAIN t.archives}
\* The roadmap's headings, of the current milestone and of all.
Headings(t) == IF t.roadmap = None THEN {} ELSE t.roadmap.current \cup t.roadmap.older

-----------------------------------------------------------------------------
(* What health reports. *)

ProjectIssues(t) == If(t.project = "absent", "E002") \cup If(t.project = "short", "W001")
RoadmapIssue(t) == If(t.roadmap = None, "E003")

StateIssues(t) ==
    LET declared == OnDisk(t) \cup Headings(t) \cup Archived(t)
    IN  IF t.state = None THEN {"E004"}
        ELSE If(declared # {} /\ t.state.refs \ declared # {}, "W002")

Wants(c, key) == c.workflow # None /\ key \notin c.workflow
ConfigIssues(t) ==
    CASE t.config = None -> {"W003"}
      [] t.config = Torn -> {"E005"}
      [] OTHER -> If("profile" \in t.config.flaws, "W004") \cup If("strategy" \in t.config.flaws, "W012")
                  \cup If("window" \in t.config.flaws, "W013") \cup If("template" \in t.config.flaws, "W014")
                  \cup If(Wants(t.config, "nyquist"), "W008") \cup If(Wants(t.config, "ai"), "W016")

DirIssues(t) ==
    If(\E d \in t.dirs : ~d.padded, "W005")
      \cup If(\E d \in t.dirs : d.plans \ d.summaries # {}, "I001")
      \cup If(\E d \in t.dirs : d.research = "with validation" /\ ~d.validation, "W009")

\* A phase announced and not begun needs no directory.
NotStarted(t) == t.roadmap.current \ t.roadmap.begun
MissingDirs(t) == (t.roadmap.current \ (OnDisk(t) \cup Archived(t))) \ NotStarted(t)
\* What is on disk is looked up in the whole roadmap.
Unlisted(t) == OnDisk(t) \ Headings(t)
PhaseIssues(t) ==
    IF t.roadmap = None THEN {}
    ELSE If(MissingDirs(t) # {}, "W006") \cup If(Unlisted(t) # {}, "W007")

\* STATE.md against ROADMAP.md: the phase under way is not ticked off, and a
\* milestone that is complete has no phase without a directory.
SyncIssues(t) ==
    IF t.state = None \/ t.roadmap = None THEN {}
    ELSE If(t.state.current \in t.roadmap.checked /\ t.state.status # "complete", "W011")
         \cup If(t.state.status = "milestone complete" /\ t.roadmap.current \ Tokens(t.dirs) # {}, "W021")
PrefixIssues(t) ==
    If(IsFile(t.config) /\ t.config.prefixed /\ t.roadmap # None /\ t.roadmap.misplaced # {}, "W021")

\* The registry is searched for "## v1.k": v1.1 is found in v1.10.
Mentions(registry, v) == \E w \in Range(registry) : w = v \/ w \div 10 = v
Unregistered(t) == {v \in t.snapshots : ~Mentions(t.registry, v)}
RegistryIssues(t) == If(Unregistered(t) # {}, "W018")

OtherIssues(t) ==
    If(t.agents # "all", "W010") \cup If(t.strays, "W019")
      \cup (IF t.worktrees = "unknown" THEN {"W020"} ELSE If(t.worktrees # "fine", "W017"))

Issues(t) ==
    ProjectIssues(t) \cup RoadmapIssue(t) \cup StateIssues(t) \cup ConfigIssues(t) \cup DirIssues(t)
      \cup PhaseIssues(t) \cup SyncIssues(t) \cup PrefixIssues(t) \cup RegistryIssues(t) \cup OtherIssues(t)

\* The repairs, in the order in which the checks ask for them; one for each
\* version to register.
Repairs(t) ==
    LET Asks(code, repair) == IF code \in Issues(t) THEN <<<<repair, 0>>>> ELSE <<>>
        versions == SetToSortSeq(Unregistered(t), <)
    IN  Asks("E004", "state") \o Asks("W003", "config") \o Asks("E005", "config")
        \o Asks("W008", "nyquist") \o Asks("W016", "ai")
        \o [i \in DOMAIN versions |-> <<"register", versions[i]>>]

-----------------------------------------------------------------------------
(* What validate consistency reports. *)

Whole(p) == p % 10 = 0
Gaps(s) == {n \in s : (\E m \in s : m > n) /\ n + 1 \notin s}
NumberGaps(t) == Gaps({p \div 10 : p \in {q \in OnDisk(t) : Whole(q)}})
Consistency(t) ==
    IF t.roadmap = None THEN {"roadmap"}
    ELSE If(t.roadmap.current \ OnDisk(t) # {}, "missing") \cup If(Unlisted(t) # {}, "unlisted")
         \cup If(~(IsFile(t.config) /\ t.config.custom) /\ NumberGaps(t) # {}, "gap")
         \cup If(\E d \in t.dirs : Gaps(d.plans) # {}, "plan gap")
         \cup If(\E d \in t.dirs : d.summaries \ d.plans # {}, "orphan summary")
         \cup If(\E d \in t.dirs : d.plans \ d.waves # {}, "no wave")

-----------------------------------------------------------------------------
NoJob == [at |-> "none", todo |-> <<>>, issues |-> {}, quiet |-> TRUE, seen |-> None]

TypeOK ==
    /\ DOMAIN tree = {"project", "roadmap", "state", "config", "dirs", "archives", "snapshots",
                      "registry", "agents", "worktrees", "strays"}
    /\ Issues(tree) \subseteq Codes
    /\ job.at \in {"none", "repair", "state", "nyquist", "ai", "register"} /\ job.issues \subseteq Codes /\ job.quiet \in BOOLEAN
    /\ last.issues \subseteq Codes /\ last.quiet \in BOOLEAN
    /\ DOMAIN authored = {"state", "config", "registry"}
    /\ runs \in 0..MaxRuns /\ edits \in 0..MaxEdits /\ mishaps \in 0..MaxMishaps
    /\ upset \subseteq {"state", "config", "registry"}

\* Texts are numbers: 0 for none, below 0 for what health writes.
Text(f) == IF IsFile(f) THEN f.text ELSE 0
Init ==
    /\ tree \in Projects
    /\ backups = {}
    /\ job = NoJob /\ last = [issues |-> {}, quiet |-> FALSE]
    /\ authored = [state |-> Text(tree.state), config |-> Text(tree.config), registry |-> ToSet(tree.registry)]
    /\ runs = 0 /\ edits = 0 /\ mishaps = 0 /\ upset = {}

\* health checks everything; with --repair, and then only, it goes on.
\* --backfill alone changes nothing.
Check ==
    /\ job.at = "none" /\ runs < MaxRuns
    /\ runs' = runs + 1
    /\ \E repair \in BOOLEAN :
        job' = IF repair /\ Repairs(tree) # <<>>
                 THEN [NoJob EXCEPT !.at = "repair", !.todo = Repairs(tree), !.issues = Issues(tree)]
                 ELSE NoJob
    /\ UNCHANGED <<tree, backups, last, authored, edits, mishaps, upset>>

RepairIs(r) == job.at = "repair" /\ Head(job.todo)[1] = r
\* Several repairs read a file, and write it in a later step.
Reads(r, file) ==
    /\ job' = [job EXCEPT !.at = r, !.seen = file]
    /\ UNCHANGED <<tree, last, authored, runs, edits, mishaps, upset>>
Done(clean) ==
    /\ job' = IF Len(job.todo) = 1 THEN NoJob
              ELSE [job EXCEPT !.at = "repair", !.todo = Tail(@), !.quiet = @ /\ clean, !.seen = None]
    /\ last' = IF Len(job.todo) = 1
                 THEN [issues |-> job.issues, quiet |-> job.quiet /\ clean] ELSE last
    /\ UNCHANGED <<authored, runs, edits>>

\* createConfig and resetConfig write the defaults over what is there by now;
\* they lack ai_integration_phase.
Defaults == [text |-> -1, flaws |-> {}, prefixed |-> FALSE, custom |-> FALSE,
             workflow |-> {"nyquist"}]
ResetConfig ==
    /\ RepairIs("config") /\ Done(TRUE)
    /\ tree' = [tree EXCEPT !.config = Defaults]
    /\ upset' = upset \cup If(IsFile(tree.config), "config")
    /\ UNCHANGED <<backups, mishaps>>

\* A key that is still missing is added to the file as it was read, and the
\* whole file is written back.
Workflow(c) == IF c.workflow = None THEN {} ELSE c.workflow
WithKey(c, key) == [c EXCEPT !.workflow = Workflow(c) \cup {key}]
NeedsKey(c, key) == IsFile(c) /\ key \notin Workflow(c)
ReadForKey(key) ==
    /\ RepairIs(key) /\ NeedsKey(tree.config, key)
    /\ Reads(key, tree.config) /\ UNCHANGED backups
NoKeyNeeded(key) ==
    /\ RepairIs(key) /\ ~NeedsKey(tree.config, key) /\ Done(IsFile(tree.config))
    /\ UNCHANGED <<tree, backups, mishaps, upset>>
AddKey(key) ==
    /\ job.at = key /\ Done(TRUE)
    /\ tree' = [tree EXCEPT !.config = WithKey(job.seen, key)]
    /\ upset' = upset \cup If(tree.config # job.seen, "config")
    /\ UNCHANGED <<backups, mishaps>>

\* A STATE.md that has appeared meanwhile is copied before it is replaced.
CopiedNot(b, f) == b
Copied(b, f) == IF f = None THEN b ELSE b \cup {f.text}
BackUpState ==
    /\ RepairIs("state")
    /\ backups' = Copied(backups, tree.state)
    /\ Reads("state", tree.state)

\* STATE.md anew: no phase, the milestone under way.
Version(t) == Max(t.snapshots \cup {0}) + 1
Regenerated(t) ==
    [text |-> -2, refs |-> {}, current |-> 0, status |-> "resuming", milestone |-> Version(t)]
RegenerateState ==
    /\ job.at = "state" /\ Done(TRUE)
    /\ tree' = [tree EXCEPT !.state = Regenerated(tree)]
    /\ upset' = upset \cup If(tree.state \notin {None, job.seen}, "state")
    /\ UNCHANGED <<backups, mishaps>>

\* One entry for each version the check missed, above the others as they were
\* read.
ReadRegistry ==
    /\ RepairIs("register")
    /\ Reads("register", tree.registry) /\ UNCHANGED backups
Backfill ==
    /\ job.at = "register" /\ Done(TRUE)
    /\ tree' = [tree EXCEPT !.registry = <<Head(job.todo)[2]>> \o job.seen]
    /\ upset' = upset \cup If(tree.registry # job.seen, "registry")
    /\ UNCHANGED <<backups, mishaps>>

Mishap == mishaps < MaxMishaps /\ mishaps' = mishaps + 1
\* A repair that fails is noted, and the next one follows.
RepairFails ==
    /\ job.at # "none" /\ Mishap /\ Done(FALSE)
    /\ UNCHANGED <<tree, backups, upset>>
Crash ==
    /\ job.at # "none" /\ Mishap
    /\ job' = NoJob
    /\ UNCHANGED <<tree, backups, last, authored, runs, edits, upset>>

-----------------------------------------------------------------------------
(* Other commands and the user. *)

Disturbs(t, texts, kept) ==
    /\ edits < MaxEdits /\ edits' = edits + 1
    /\ tree' = t
    /\ authored' = texts
    /\ job' = [job EXCEPT !.quiet = job.at = "none"]
    /\ last' = [last EXCEPT !.quiet = FALSE]
    /\ upset' = upset \ kept
    /\ UNCHANGED <<backups, runs, mishaps>>

NewText == 10 + edits
WriteState ==
    \E p \in Headings(tree), done \in BOOLEAN :
        LET s == [text |-> NewText, refs |-> {p}, current |-> p, milestone |-> Version(tree),
                  status |-> IF done THEN "milestone complete" ELSE "executing"]
        IN  Disturbs([tree EXCEPT !.state = s], [authored EXCEPT !.state = NewText], {"state"})
RemoveState ==
    tree.state # None /\ Disturbs([tree EXCEPT !.state = None], [authored EXCEPT !.state = 0], {"state"})
WriteConfig ==
    \E flaws \in {{}, {"profile"}}, wf \in {None, {}, {"nyquist", "ai"}} :
        LET c == [text |-> NewText, flaws |-> flaws, prefixed |-> FALSE, custom |-> FALSE, workflow |-> wf]
        IN  Disturbs([tree EXCEPT !.config = c], [authored EXCEPT !.config = NewText], {"config"})
TearConfig ==
    /\ IsFile(tree.config)
    /\ \E f \in {None, Torn} :
        Disturbs([tree EXCEPT !.config = f], [authored EXCEPT !.config = 0], {"config"})

\* complete-milestone: snapshot, registry and archive of the directories; the
\* roadmap keeps the phases among the older ones.
AfterCompletion(t) ==
    LET v == Version(t)
    IN  [t EXCEPT !.snapshots = @ \cup {v}, !.registry = <<v>> \o @, !.dirs = {},
                  !.archives = (v :> Tokens(t.dirs)) @@ @,
                  !.roadmap = [@ EXCEPT !.older = @ \cup t.roadmap.current, !.current = {},
                                        !.begun = {}, !.misplaced = {}]]
CompleteMilestone ==
    /\ tree.roadmap # None /\ tree.dirs # {}
    /\ Disturbs(AfterCompletion(tree), [authored EXCEPT !.registry = @ \cup {Version(tree)}], {})

Next ==
    \/ Check \/ ResetConfig \/ BackUpState \/ RegenerateState
    \/ \E key \in {"nyquist", "ai"} : ReadForKey(key) \/ NoKeyNeeded(key) \/ AddKey(key)
    \/ ReadRegistry \/ Backfill \/ RepairFails \/ Crash
    \/ WriteState \/ RemoveState \/ WriteConfig \/ TearConfig \/ CompleteMilestone

Spec == Init /\ [][Next]_vars

-----------------------------------------------------------------------------
(* Properties. *)

\* No repair loses what somebody wrote: a STATE.md that was there when it was
\* regenerated is there or in a backup, a config.json that parses is only
\* added to, and the registry keeps every entry it began with or that a
\* completed milestone added, and has none twice. Not so for what is written
\* between a repair's look at the file and its own write; the text somebody
\* writes after that is safe again.
RepairsKeep ==
    /\ authored.state # 0 /\ "state" \notin upset =>
        Text(tree.state) = authored.state \/ authored.state \in backups
    /\ authored.config # 0 /\ "config" \notin upset => Text(tree.config) = authored.config
    /\ "registry" \notin upset => authored.registry \subseteq ToSet(tree.registry)
    /\ IsInjective(tree.registry)

\* A run of --repair that nothing disturbed leaves nothing to repair and no
\* issue that was not there, but for the one key its config.json lacks: a
\* second run adds that.
RepairsConverge ==
    last.quiet =>
        LET fresh == last.issues \cap {"W003", "E005"} # {}
        IN  /\ Issues(tree) \cap Repairable = If(fresh, "W016")
            /\ Issues(tree) \subseteq last.issues \cup If(fresh, "W016")

\* Completing the milestone raises no issue about phases, in health or in
\* validate consistency: archived phases are neither missing nor unknown and
\* leave no gap, whether STATE.md is there or not.
ArchivingIsHealthy ==
    tree.roadmap # None =>
        /\ PhaseIssues(AfterCompletion(tree)) \subseteq PhaseIssues(tree)
        /\ Consistency(AfterCompletion(tree)) \subseteq Consistency(tree)
=============================================================================
