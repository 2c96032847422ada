---------------------------- MODULE RoadmapTools ----------------------------
(***************************************************************************)
(* The planning tools that write the roadmap and its phases, and those     *)
(* that upgrade, import and repair them, one instance of each module.  No  *)
(* two parts run together, so they share the variables v1, v2, ..., and    *)
(* each INSTANCE says which variable of its module is kept in which.       *)
(***************************************************************************)
EXTENDS ToolParts

CONSTANTS
    FirstRoadmap, FirstDirs,                          \* PlanningTree
    Roadmaps,                                         \* RoadmapUpgrade
    Projects, MaxEdits,                               \* Health
    Mine, Legacy, MaxImports                          \* LegacyImport

PT == INSTANCE PlanningTree
     WITH roadmap <- v1, reqs <- v2, dirs <- v3, state <- v4, shelf <- v5,
          planLock <- v6, stateLock <- v7, work <- v8, begun <- v9, mishaps <- v10, asked <- v11,
          upset <- v12
RU == INSTANCE RoadmapUpgrade
     WITH tree <- v1, head <- v2,
          ignored <- v3, job <- v4, upgrades <- v5, mishaps <- v6, damage <- v7
HE == INSTANCE Health
     WITH MaxMishaps <- MaxUpsets, tree <- v1,
          backups <- v2, job <- v3, last <- v4, authored <- v5, runs <- v6, edits <- v7,
          mishaps <- v8, upset <- v9
LI == INSTANCE LegacyImport
     WITH Sources <- Legacy, MaxRuns <- MaxImports, MaxUpsets <- MaxMishaps, project <- v1, planning <- v2,
          todo <- v3, whole <- v4, runs <- v5, upsets <- v6, over <- v7

ASSUME RoadmapConstants == PT!TreeConstants /\ LI!ImportConstants

-----------------------------------------------------------------------------
RoadmapInit ==
    \/ /\ part = "tree" /\ PT!Init
    \/ /\ part = "upgrade" /\ RU!Init
       /\ v8 = NotUsed /\ v9 = NotUsed /\ v10 = NotUsed /\ v11 = NotUsed /\ v12 = NotUsed
    \/ /\ part = "health" /\ HE!Init
       /\ v10 = NotUsed /\ v11 = NotUsed /\ v12 = NotUsed
    \/ /\ part = "import" /\ LI!Init
       /\ v8 = NotUsed /\ v9 = NotUsed /\ v10 = NotUsed /\ v11 = NotUsed /\ v12 = NotUsed

\* Bound: the behaviours of some parts end once what happened excuses their
\* properties.
RoadmapNext ==
    \/ /\ part = "tree" /\ v12 = {} /\ PT!Next
    \/ /\ part = "upgrade" /\ RU!Next /\ UNCHANGED <<v8, v9, v10, v11, v12>>
    \/ /\ part = "health" /\ HE!Next /\ UNCHANGED <<v10, v11, v12>>
    \/ /\ part = "import" /\ LI!Next /\ UNCHANGED <<v8, v9, v10, v11, v12>>

-----------------------------------------------------------------------------
(* The properties of each part, by their names there. *)

\* Every variable of the part keeps its type.
RoadmapTypeOK ==
    /\ part = "tree" => PT!TypeOK
    /\ part = "upgrade" => RU!TypeOK
    /\ part = "health" => HE!TypeOK
    /\ part = "import" => LI!TypeOK

\* Headings, lines and directories carry one number, only phases asked for are
\* marked as done, and phase complete writes its files together (PlanningTree).
PlanIsWhole == part = "tree" => PT!TreeAgrees /\ PT!MarksTheAsked /\ PT!FileSetIsWhole
\* Upgrading or importing a roadmap is done in whole or rolled back, and each
\* phase keeps its number, directory and references (RoadmapUpgrade, LegacyImport).
UpgradeIsWhole ==
    /\ part = "upgrade" => RU!UpgradeIsWhole /\ RU!PhasesKeepTheirOwn
    /\ part = "import" => LI!ImportIsWhole
\* Repairs keep what people wrote and leave nothing to repair, and archiving a
\* milestone is not reported as damage (Health).
HealthRepairs == part = "health" => HE!RepairsKeep /\ HE!RepairsConverge /\ HE!ArchivingIsHealthy
=============================================================================
