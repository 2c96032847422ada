--------------------------- MODULE KnowledgeTools ---------------------------
(***************************************************************************)
(* The planning tools that keep what is known of a project: its settings,  *)
(* the skills a runtime shows, learnings, knowledge graph, intel files and *)
(* codebase map, one instance of each module.  No two parts run together,  *)
(* so they share the variables v1, v2, ..., and each INSTANCE says which   *)
(* variable of its module is kept in which.                                *)
(***************************************************************************)
EXTENDS ToolParts

CONSTANTS
    Products, MaxChanges,                             \* Surface
    Digests, Documents,                               \* Learnings
    MaxSettings, MaxCrashes,                          \* ProjectConfig
    GraphCommits, Budgets, MaxBuilds,                 \* KnowledgeGraph
    MaxWrites, MaxQueries,                            \* IntelFiles
    MapFiles, Threshold, MaxCommits, MaxMaps          \* CodebaseMap

PC == INSTANCE ProjectConfig
     WITH MaxCalls <- MaxSettings, file <- v1, locked <- v2, repos <- v3, cmd <- v4,
          begun <- v5, crashes <- v6, last <- v7, excuse <- v8
SU == INSTANCE Surface
     WITH Sources <- Products, MaxMishaps <- MaxUpsets, layout <- v1, source <- v2,
          marker <- v3, surface <- v4, shown <- v5, job <- v6, settled <- v7, changes <- v8,
          mishaps <- v9
LE == INSTANCE Learnings
     WITH Hashes <- Digests, store <- v1, process <- v2, promised <- v3, issued <- v4, calls <- v5,
          crashes <- v6, overlaps <- v7
KG == INSTANCE KnowledgeGraph
     WITH Commits <- GraphCommits, repo <- v1,
          out <- v2, graph <- v3, snapshot <- v4, auto <- v5, chain <- v6, said <- v7,
          builds <- v8, upsets <- v9, strays <- v10
II == INSTANCE IntelFiles
     WITH MaxCalls <- MaxQueries, file <- v1, snapshot <- v2, surface <- v3, proc <- v4,
          kept <- v5, seen <- v6, writes <- v7, calls <- v8, mixed <- v9
CB == INSTANCE CodebaseMap
     WITH Files <- MapFiles, history <- v1, head <- v2, lost <- v3, map <- v4, gate <- v5, said <- v6,
          mapper <- v7,
          seen <- v8, maps <- v9, upsets <- v10, strays <- v11

ASSUME KnowledgeConstants ==
    PC!ConfigConstants /\ SU!SurfaceConstants /\ KG!GraphConstants /\ CB!CodebaseConstants

-----------------------------------------------------------------------------
KnowledgeInit ==
    \/ /\ part = "settings" /\ PC!Init
       /\ v9 = NotUsed /\ v10 = NotUsed /\ v11 = NotUsed /\ v12 = NotUsed
    \/ /\ part = "surface" /\ SU!Init
       /\ v10 = NotUsed /\ v11 = NotUsed /\ v12 = NotUsed
    \/ /\ part = "learnings" /\ LE!Init
       /\ v8 = NotUsed /\ v9 = NotUsed /\ v10 = NotUsed /\ v11 = NotUsed /\ v12 = NotUsed
    \/ /\ part = "graph" /\ KG!Init
       /\ v11 = NotUsed /\ v12 = NotUsed
    \/ /\ part = "intel" /\ II!Init
       /\ v10 = NotUsed /\ v11 = NotUsed /\ v12 = NotUsed
    \/ /\ part = "map" /\ CB!Init
       /\ v12 = NotUsed

\* Bound: the behaviours of some parts end once what happened excuses their
\* properties.
KnowledgeNext ==
    \/ /\ part = "settings" /\ v8 \subseteq {"multirepo"} /\ PC!Next /\ UNCHANGED <<v9, v10, v11, v12>>
    \/ /\ part = "surface" /\ SU!Next /\ UNCHANGED <<v10, v11, v12>>
    \/ /\ part = "learnings" /\ LE!Next /\ UNCHANGED <<v8, v9, v10, v11, v12>>
    \/ /\ part = "graph" /\ KG!Next /\ UNCHANGED <<v11, v12>>
    \/ /\ part = "intel" /\ II!Next /\ UNCHANGED <<v10, v11, v12>>
    \/ /\ part = "map" /\ v11 = {} /\ CB!Next /\ UNCHANGED v12

-----------------------------------------------------------------------------
(* The properties of each part, by their names there. *)

\* Every variable of the part keeps its type.
KnowledgeTypeOK ==
    /\ part = "settings" => PC!TypeOK
    /\ part = "surface" => SU!TypeOK
    /\ part = "learnings" => LE!TypeOK
    /\ part = "graph" => KG!TypeOK
    /\ part = "intel" => II!TypeOK
    /\ part = "map" => CB!TypeOK

\* A setting that was set is read back, by workstreams too, and rewriting a
\* legacy file changes no setting (ProjectConfig).
SettingsHold ==
    part = "settings" => PC!SettingSurvives /\ PC!RewritingKeepsMeaning /\ PC!WorkstreamInherits
\* What a runtime shows is what was resolved, with what it requires, and the
\* user's own entries stay (Surface).
SurfaceHolds == part = "surface" => SU!ShownIsResolved /\ SU!OwnEntriesStay /\ SU!SurfaceIsClosed
\* Learnings, the graph and the intel files answer with what was stored in
\* them, and no file the codebase map leaves out is forgotten (Learnings,
\* KnowledgeGraph, IntelFiles, CodebaseMap).
KnowledgeIsKept ==
    /\ part = "learnings" => LE!StoredOnce /\ LE!ReportedIsStored
    /\ part = "graph" => KG!QueryAnswers /\ KG!FreshIsCurrent /\ KG!BaselineIsNoLater
    /\ part = "intel" => II!StampKeepsEntries /\ II!DiffFindsChanges /\ II!SilenceIsExplained
    /\ part = "map" => CB!GateMissesNothing
=============================================================================
