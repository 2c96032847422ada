--------------------------- MODULE DocumentTools ----------------------------
(***************************************************************************)
(* The planning tools that write files people and other tools write as     *)
(* well: STATE.md, workstreams, worktrees and the installation itself, one *)
(* instance of each module.  No two parts run together, so they share the  *)
(* variables v1, v2, ..., and each INSTANCE says which variable of its     *)
(* module is kept in which.                                                *)
(***************************************************************************)
EXTENDS ToolParts

CONSTANTS
    Phases, KeepRecent,                               \* StateDocument
    StreamNames, MainStream, MaxFailures,             \* Workstreams
    Agents, Manifest, MaxDrafts, MaxCleanups, MaxSlips,\* Worktrees
    EditedParts                                       \* InstallerMigrations

SD == INSTANCE StateDocument
     WITH NoLock <- NotUsed, doc <- v1, archive <- v2, signal <- v3, lock <- v4, disk <- v5,
          job <- v6, issued <- v7, faults <- v8, recorded <- v9, excuse <- v10
WS == INSTANCE Workstreams
     WITH Shells <- Procs, Names <- StreamNames, Migrated <- MainStream, flat <- v1, root <- v2,
          streams <- v3, archives <- v4, pointers <- v5, call <- v6,
          calls <- v7, failures <- v8, files <- v9, lapses <- v10
WT == INSTANCE Worktrees
     WITH trunk <- v1, merging <- v2, rescued <- v3, branch <- v4, tree <- v5,
          cleanup <- v6, reaper <- v7, cleanups <- v8, slips <- v9, made <- v10, settled <- v11,
          losses <- v12
IM == INSTANCE InstallerMigrations
     WITH Installers <- Procs, Edited <- EditedParts, config <- v1,
          applied <- v2, copies <- v3, journals <- v4, installLock <- v5, migrator <- v6,
          runs <- v7, trouble <- v8, wrote <- v9, flaws <- v10

ASSUME DocumentConstants ==
    SD!StateConstants /\ WS!WorkstreamConstants /\ WT!WorktreeConstants /\ IM!InstallerConstants

-----------------------------------------------------------------------------
DocumentInit ==
    \/ /\ part = "state" /\ SD!Init
       /\ v11 = NotUsed /\ v12 = NotUsed
    \/ /\ part = "streams" /\ WS!Init
       /\ v11 = NotUsed /\ v12 = NotUsed
    \/ /\ part = "worktrees" /\ WT!Init
    \/ /\ part = "installer" /\ IM!Init
       /\ v11 = NotUsed /\ v12 = NotUsed

\* Bound: the behaviours of some parts end once what happened excuses their
\* properties.
DocumentNext ==
    \/ /\ part = "state" /\ "stolen" \notin v10 /\ SD!Next /\ UNCHANGED <<v11, v12>>
    \/ /\ part = "streams" /\ v10 = {} /\ WS!Next /\ UNCHANGED <<v11, v12>>
    \/ /\ part = "worktrees" /\ v12 = {} /\ WT!Next
    \/ /\ part = "installer" /\ v10 = {} /\ IM!Next /\ UNCHANGED <<v11, v12>>

-----------------------------------------------------------------------------
(* The properties of each part, by their names there. *)

\* Every variable of the part keeps its type.
DocumentTypeOK ==
    /\ part = "state" => SD!TypeOK
    /\ part = "streams" => WS!TypeOK
    /\ part = "worktrees" => WT!TypeOK
    /\ part = "installer" => IM!TypeOK

\* STATE.md has one writer, and its entries are not lost (StateDocument).
StateIsKept == part = "state" => SD!OneWriter /\ SD!RecordedSurvives
\* Migrating and completing workstreams loses no file (Workstreams).
FilesSurvive == part = "streams" => WS!FilesSurvive
\* Neither cleanup nor reaper loses what an agent made (Worktrees).
WorkSurvives == part = "worktrees" => WT!WorkSurvives
\* Migrating an installation loses nothing of the user's, and what is recorded
\* as migrated is (InstallerMigrations).
MigrationIsWhole == part = "installer" => IM!UserPartsSurvive /\ IM!AppliedIsDone
=============================================================================
