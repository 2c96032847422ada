--------------------------- MODULE ProjectConfig ---------------------------
(***************************************************************************)
(* .planning/config.json and the copy a workstream may have: config-set    *)
(* under the planning lock, and beside it the writers without a lock:      *)
(* loadConfig, which rewrites legacy keys whenever a command reads its     *)
(* settings, migrate-config, and the commands that create the file.        *)
(***************************************************************************)
EXTENDS Integers, FiniteSets

CONSTANTS Procs, None,
          Missing, Torn,   \* a config.json that is not there, or not whole
          MaxCalls,     \* bound: commands started
          MaxCrashes    \* bound: commands killed in the middle

VARIABLES
    file,      \* the config.json of the root and of the workstream
    locked,    \* who made the .lock beside each of them
    repos,     \* the directories with a .git of their own
    cmd,       \* the command each process runs
    begun,     \* commands started so far
    crashes,   \* commands killed so far
    last,      \* the last value each config-set reported as stored
    excuse     \* what happened that config-set does not guard against

vars == <<file, locked, repos, cmd, begun, crashes, last, excuse>>

Places == {"root", "ws"}

\* Legacy spellings, and the nested keys normalizeLegacyKeys moves them to.
Canonical == [branching_strategy |-> "git.branching_strategy", sub_repos |-> "planning.sub_repos"]
Granularity == [quick |-> "coarse", comprehensive |-> "fine"]
Keys == {"depth", "granularity", "branching_strategy", "git.branching_strategy", "sub_repos",
         "planning.sub_repos", "multiRepo", "commit_docs", "planning.commit_docs", "model_profile"}
Empty == [k \in Keys |-> None]
With(f, k, v) == [f EXCEPT ![k] = v]
IsFile(f) == f \notin {Missing, Torn}

\* What a key may have: text, or a list of repositories.
Texts == {"quick", "comprehensive", "coarse", "fine", "none", "phase", "milestone", "true", "false",
          "quality", "budget", "balanced"}
Repositories == {"api", "web"}
Files == [Keys -> {None} \cup Texts \cup SUBSET Repositories]

ConfigConstants ==
    /\ None \notin Procs \cup Keys \cup Texts /\ \A r \in SUBSET Repositories : None # r
    /\ Missing \notin Files /\ Torn \notin Files

\* What commands may set: text, as JSON writes it, and one boolean among it.
Choices == {<<"granularity", "fine">>, <<"git.branching_strategy", "phase">>,
            <<"planning.commit_docs", "true">>, <<"model_profile", "quality">>,
            <<"model_profile", "budget">>}

\* The files a project may start with: none, new, or as older versions wrote it.
Older == [With(With(Empty, "depth", "quick"), "branching_strategy", "milestone")
            EXCEPT !["commit_docs"] = "true"]
Multi == With(With(With(Empty, "multiRepo", "true"), "depth", "comprehensive"), "granularity", "coarse")
Listed == With(With(With(Empty, "sub_repos", {"api"}), "branching_strategy", "phase"),
               "git.branching_strategy", "none")

-----------------------------------------------------------------------------
(* Pure parts. *)

Renames(f) ==
    {k \in DOMAIN Canonical : f[k] # None}
      \cup (IF f["multiRepo"] = "true" THEN {"multiRepo"} ELSE {})
      \cup (IF f["depth"] # None /\ f["granularity"] = None THEN {"depth"} ELSE {})

\* The nested key wins over the old one, which goes in any case.
KeptOld(f, k) == IF f[k] # None THEN f[k] ELSE f[Canonical[k]]
Kept(f, k) == IF f[Canonical[k]] # None THEN f[Canonical[k]] ELSE f[k]

NormalizeLegacyKeys(f) ==
    LET gone == Renames(f) IN
    [k \in Keys |->
        CASE k \in gone -> None
          [] k = "granularity" /\ "depth" \in gone -> Granularity[f["depth"]]
          [] k = "git.branching_strategy" -> Kept(f, "branching_strategy")
          [] k = "planning.sub_repos" -> Kept(f, "sub_repos")
          [] OTHER -> f[k]]

\* multiRepo becomes the list of repositories found, if any is found.
Found(f, found) == [f EXCEPT !["planning.sub_repos"] = found, !["planning.commit_docs"] = "false"]
DetectedAnyway(f, found) ==
    LET n == NormalizeLegacyKeys(f)
    IN  IF "multiRepo" \in Renames(f) /\ found # {} THEN Found(n, found) ELSE n
Detected(f, found) ==
    LET n == NormalizeLegacyKeys(f)
    IN  IF "multiRepo" \in Renames(f) /\ n["planning.sub_repos"] = None /\ found # {}
          THEN Found(n, found) ELSE n

\* A listed set of repositories follows the directories.
Synced(f, found) ==
    IF f["planning.sub_repos"] \notin {None, {}} /\ found # {}
      THEN With(f, "planning.sub_repos", found) ELSE f

\* loadConfig's file after it, and migrateOnDisk's.
WrittenBack(f, found) == Synced(Detected(f, found), found)
Migrated(f, found) == IF Renames(f) = {} THEN f ELSE DetectedAnyway(f, found)

\* A workstream's keys over the root's.
Merged(base, over) == [k \in Keys |-> IF over[k] # None THEN over[k] ELSE base[k]]
Value(f, k, default) == IF f[k] # None THEN f[k] ELSE default
\* The settings loadConfig answers; the flat commit_docs goes first.
Extracted(f) ==
    [granularity |-> f["granularity"],
     strategy |-> Value(f, "git.branching_strategy", "none"),
     repos |-> Value(f, "planning.sub_repos", {}),
     commit |-> Value(f, "commit_docs", Value(f, "planning.commit_docs", "true")),
     profile |-> Value(f, "model_profile", "balanced")]
Loaded(f, found) == Extracted(WrittenBack(f, found))
LoadedOver(root, f, found) == Extracted(Merged(Detected(root, found), WrittenBack(f, found)))

\* config-new-project: every key it knows, over it what the user chose.
NewProject(choice) ==
    [Empty EXCEPT !["model_profile"] = "balanced", !["commit_docs"] = "true",
                  !["git.branching_strategy"] = "none", !["granularity"] = choice]

-----------------------------------------------------------------------------
NoCmd == [at |-> "none", place |-> "root", key |-> None, value |-> None, text |-> None,
          raced |-> FALSE]

TypeOK ==
    /\ \A s \in Places : IsFile(file[s]) => DOMAIN file[s] = Keys
    /\ \A s \in Places : locked[s] \in Procs \cup {None}
    /\ repos \in SUBSET {"api", "web"}
    /\ DOMAIN cmd = Procs
    /\ \A p \in Procs :
        /\ cmd[p].at \in {"none", "look", "create", "lock", "read", "write", "load-root", "save-root",
                          "load", "save", "migrate", "truncate", "rewrite"}
        /\ cmd[p].place \in Places /\ cmd[p].raced \in BOOLEAN
    /\ begun \in 0..MaxCalls /\ crashes \in 0..MaxCrashes
    /\ DOMAIN last = Places \X Keys
    /\ excuse \subseteq {"overlap", "torn", "stolen", "multirepo"}

Init ==
    /\ file \in [root : {Missing, Older, Multi, Listed}, ws : {Missing, Older}]
    /\ locked = [s \in Places |-> None]
    /\ repos = {}
    /\ cmd = [p \in Procs |-> NoCmd]
    /\ begun = 0 /\ crashes = 0 /\ excuse = {}
    /\ last = [x \in Places \X Keys |-> None]

Begin(p, c) ==
    /\ cmd[p].at = "none" /\ begun < MaxCalls
    /\ begun' = begun + 1
    /\ cmd' = [cmd EXCEPT ![p] = c]
    /\ UNCHANGED <<file, locked, repos, crashes, last, excuse>>

BeginSet(p) == \E s \in Places, c \in Choices :
    Begin(p, [NoCmd EXCEPT !.at = "lock", !.place = s, !.key = c[1], !.value = c[2]])
\* config-set-model-profile makes the file first; config-new-project only does that.
BeginSetProfile(p) ==
    Begin(p, [NoCmd EXCEPT !.at = "look", !.key = "model_profile", !.value = "quality"])
BeginNewProject(p) == \E g \in {None, "fine"} : Begin(p, [NoCmd EXCEPT !.at = "look", !.text = NewProject(g)])
BeginLoad(p) == \E s \in Places :
    Begin(p, [NoCmd EXCEPT !.at = IF s = "ws" THEN "load-root" ELSE "load", !.place = s])
BeginMigrate(p) == \E s \in Places : Begin(p, [NoCmd EXCEPT !.at = "migrate", !.place = s])

\* Where a command of p writes, reads what it will write there from.
Holds(q, s) ==
    \/ cmd[q].at = "save-root" /\ s = "root"
    \/ cmd[q].at \in {"create", "write", "save", "truncate", "rewrite"} /\ cmd[q].place = s
\* p's command goes on as c; what others have read of place s is no longer there.
\* Two config-sets do not race: the lock is there to keep them apart.
Writes(p, s, f, c, locks) ==
    /\ file' = [file EXCEPT ![s] = f]
    /\ cmd' = [q \in Procs |->
                 IF q = p THEN c
                 ELSE IF Holds(q, s) /\ ~(locks /\ cmd[q].at = "write")
                   THEN [cmd[q] EXCEPT !.raced = TRUE] ELSE cmd[q]]
Overlap(p) == IF cmd[p].raced THEN {"overlap"} ELSE {}
Step(p, c) == cmd' = [cmd EXCEPT ![p] = c] /\ UNCHANGED file

-----------------------------------------------------------------------------
(* ensureConfigFile and config-new-project: check, then write. *)

Look(p) ==
    /\ cmd[p].at = "look"
    /\ LET c == cmd[p] IN
       Step(p, IF file[c.place] = Missing
                 THEN [c EXCEPT !.at = "create", !.text = IF c.key = None THEN c.text ELSE NewProject(None)]
                 ELSE IF c.key = None THEN NoCmd ELSE [c EXCEPT !.at = "lock"])
    /\ UNCHANGED <<locked, repos, begun, crashes, last, excuse>>

Create(p) ==
    /\ cmd[p].at = "create"
    /\ LET c == cmd[p] IN
       Writes(p, c.place, c.text,
              IF c.key = None THEN NoCmd ELSE [c EXCEPT !.at = "lock", !.raced = FALSE], FALSE)
    /\ excuse' = excuse \cup Overlap(p)
    /\ UNCHANGED <<locked, repos, begun, crashes, last>>

(* setConfigValue: read, change and write under the lock. *)

Free(s) == locked[s] = None
Lock(p) ==
    /\ cmd[p].at = "lock" /\ Free(cmd[p].place)
    /\ locked' = [locked EXCEPT ![cmd[p].place] = p]
    /\ Step(p, [cmd[p] EXCEPT !.at = "read"])
    /\ UNCHANGED <<repos, begun, crashes, last, excuse>>

\* After ten seconds, or with a lock of thirty, the lock is removed and taken.
TakeOver(p) ==
    /\ cmd[p].at = "lock"
    /\ LET s == cmd[p].place IN
       /\ locked[s] \notin {None, p}
       /\ locked' = [locked EXCEPT ![s] = p]
       /\ excuse' = excuse \cup (IF cmd[locked[s]].at \in {"read", "write"} /\ cmd[locked[s]].place = s
                                   THEN {"stolen"} ELSE {})
    /\ Step(p, [cmd[p] EXCEPT !.at = "read"])
    /\ UNCHANGED <<repos, begun, crashes, last>>

Unlocked(s) == [locked EXCEPT ![s] = None]
ReadToSet(p) ==
    /\ cmd[p].at = "read"
    /\ LET c == cmd[p]
           f == file[c.place]
       IN  IF f = Torn
             THEN Step(p, NoCmd) /\ locked' = Unlocked(c.place)
             ELSE /\ Step(p, [c EXCEPT !.at = "write",
                                       !.text = With(IF f = Missing THEN Empty ELSE f, c.key, c.value)])
                  /\ UNCHANGED locked
    /\ UNCHANGED <<repos, begun, crashes, last, excuse>>

WriteSet(p) ==
    /\ cmd[p].at = "write"
    /\ LET c == cmd[p] IN
       /\ Writes(p, c.place, c.text, NoCmd, TRUE)
       /\ locked' = Unlocked(c.place)
       /\ last' = [last EXCEPT ![<<c.place, c.key>>] = c.value]
    /\ excuse' = excuse \cup Overlap(p)
    /\ UNCHANGED <<repos, begun, crashes>>

-----------------------------------------------------------------------------
(* loadConfig: the root first when a workstream is active. *)

\* The one value a writer changes on purpose: documents of a workspace with
\* several repositories stay local.
KeepsLocal(p, s) ==
    IF IsFile(file[s]) /\ file[s]["multiRepo"] = "true" /\ repos # {} THEN {"multirepo"} ELSE {}

LoadRoot(p) ==
    /\ cmd[p].at = "load-root"
    /\ LET f == file["root"] IN
       Step(p, IF IsFile(f) /\ Renames(f) # {}
                 THEN [cmd[p] EXCEPT !.at = "save-root", !.text = Detected(f, repos)]
                 ELSE [cmd[p] EXCEPT !.at = "load"])
    /\ UNCHANGED <<locked, repos, begun, crashes, last, excuse>>

SaveRoot(p) ==
    /\ cmd[p].at = "save-root"
    /\ Writes(p, "root", cmd[p].text, [cmd[p] EXCEPT !.at = "load", !.raced = FALSE], FALSE)
    /\ excuse' = excuse \cup Overlap(p) \cup KeepsLocal(p, "root")
    /\ UNCHANGED <<locked, repos, begun, crashes, last>>

\* A workstream without a file of its own has the root loaded in its stead.
Load(p) ==
    /\ cmd[p].at = "load"
    /\ LET f == file[cmd[p].place] IN
       Step(p, IF ~IsFile(f)
                 THEN IF cmd[p].place = "ws" /\ IsFile(file["root"])
                        THEN [cmd[p] EXCEPT !.place = "root"] ELSE NoCmd
                 ELSE IF WrittenBack(f, repos) # f
                   THEN [cmd[p] EXCEPT !.at = "save", !.text = WrittenBack(f, repos)] ELSE NoCmd)
    /\ UNCHANGED <<locked, repos, begun, crashes, last, excuse>>

Save(p) ==
    /\ cmd[p].at = "save"
    /\ Writes(p, cmd[p].place, cmd[p].text, NoCmd, FALSE)
    /\ excuse' = excuse \cup Overlap(p) \cup KeepsLocal(p, cmd[p].place)
    /\ UNCHANGED <<locked, repos, begun, crashes, last>>

-----------------------------------------------------------------------------
(* migrateOnDisk, with writeFileSync: first empty, then whole. *)

Migrate(p) ==
    /\ cmd[p].at = "migrate"
    /\ LET f == file[cmd[p].place] IN
       Step(p, IF IsFile(f) /\ Migrated(f, repos) # f
                 THEN [cmd[p] EXCEPT !.at = "truncate", !.text = Migrated(f, repos)] ELSE NoCmd)
    /\ UNCHANGED <<locked, repos, begun, crashes, last, excuse>>

Truncate(p) ==
    /\ cmd[p].at = "truncate"
    /\ excuse' = excuse \cup Overlap(p) \cup KeepsLocal(p, cmd[p].place)
    /\ Writes(p, cmd[p].place, Torn, [cmd[p] EXCEPT !.at = "rewrite", !.raced = FALSE], FALSE)
    /\ UNCHANGED <<locked, repos, begun, crashes, last>>

Rewrite(p) ==
    /\ cmd[p].at = "rewrite"
    /\ Writes(p, cmd[p].place, cmd[p].text, NoCmd, FALSE)
    /\ excuse' = excuse \cup Overlap(p)
    /\ UNCHANGED <<locked, repos, begun, crashes, last>>

-----------------------------------------------------------------------------
Crash(p) ==
    /\ cmd[p].at # "none" /\ crashes < MaxCrashes
    /\ crashes' = crashes + 1
    /\ Step(p, NoCmd)
    /\ excuse' = excuse \cup (IF cmd[p].at = "rewrite" THEN {"torn"} ELSE {})
    /\ UNCHANGED <<locked, repos, begun, last>>

CloneRepo ==
    /\ repos = {} /\ repos' \in {{"api"}, {"api", "web"}}
    /\ UNCHANGED <<file, locked, cmd, begun, crashes, last, excuse>>

Next ==
    \/ \E p \in Procs :
        \/ BeginSet(p) \/ BeginSetProfile(p) \/ BeginNewProject(p) \/ BeginLoad(p) \/ BeginMigrate(p)
        \/ Look(p) \/ Create(p) \/ Lock(p) \/ TakeOver(p) \/ ReadToSet(p) \/ WriteSet(p)
        \/ LoadRoot(p) \/ SaveRoot(p) \/ Load(p) \/ Save(p)
        \/ Migrate(p) \/ Truncate(p) \/ Rewrite(p) \/ Crash(p)
    \/ CloneRepo

Spec == Init /\ [][Next]_vars

-----------------------------------------------------------------------------
(* Properties. *)

\* What config-set has reported as stored stays in the file, through other
\* sets, loads, migrations and crashes, unless a writer without the lock (or
\* one whose lock was taken over) overlapped it, a migration died between
\* emptying and writing the file, or a multi-repository workspace was found,
\* which is to switch planning.commit_docs off.
SettingSurvives ==
    excuse \subseteq {"multirepo"} =>
        \A s \in Places, k \in Keys :
            /\ last[<<s, k>>] # None
            /\ k = "planning.commit_docs" => excuse = {}
            /\ ~\E p \in Procs : cmd[p].at = "rewrite" /\ cmd[p].place = s
            => IsFile(file[s]) /\ file[s][k] = last[<<s, k>>]

\* What a file says, old spellings and all, without any rewriting.
Says(f, found) ==
    LET listed == Value(f, "planning.sub_repos", Value(f, "sub_repos", None))
        many == f["multiRepo"] = "true" /\ listed = None /\ found # {}
    IN  [granularity |-> IF f["granularity"] = None /\ f["depth"] # None
                           THEN Granularity[f["depth"]] ELSE f["granularity"],
         strategy |-> Value(f, "git.branching_strategy", Value(f, "branching_strategy", "none")),
         repos |-> IF many \/ (listed \notin {None, {}} /\ found # {}) THEN found
                   ELSE IF listed = None THEN {} ELSE listed,
         commit |-> Value(f, "commit_docs",
                          IF many THEN "false" ELSE Value(f, "planning.commit_docs", "true")),
         profile |-> Value(f, "model_profile", "balanced")]

\* Rewriting a file keeps what it says, a second time changes nothing, and
\* migrate-config differs from loading only for a workspace with multiRepo.
RewritingKeepsMeaning ==
    \A s \in Places : IsFile(file[s]) =>
        LET f == file[s]
            w == WrittenBack(f, repos)
        IN  /\ Loaded(f, repos) = Says(f, repos)
            /\ Extracted(w) = Says(f, repos) /\ Says(w, repos) = Says(f, repos)
            /\ WrittenBack(w, repos) = w
            /\ f["multiRepo"] = None => WrittenBack(Migrated(f, repos), repos) = w

\* A workstream inherits what it does not say itself, whichever spelling each
\* of the two files has. (commit_docs has two keys and the root's flat one
\* hides the workstream's nested one; the repositories follow the directories.)
Mentions(f, s) ==
    CASE s = "granularity" -> f["granularity"] # None \/ f["depth"] # None
      [] s = "strategy" -> f["git.branching_strategy"] # None \/ f["branching_strategy"] # None
      [] s = "profile" -> f["model_profile"] # None
WorkstreamInherits ==
    IsFile(file["root"]) /\ IsFile(file["ws"]) =>
        LET got == LoadedOver(file["root"], file["ws"], repos)
        IN  \A s \in {"granularity", "strategy", "profile"} :
                got[s] = IF Mentions(file["ws"], s) THEN Says(file["ws"], repos)[s]
                         ELSE Says(file["root"], repos)[s]
=============================================================================
