----------------------------- MODULE ToolParts ------------------------------
(***************************************************************************)
(* What the parts of the planning tools share.                             *)
(***************************************************************************)
EXTENDS Integers, Sequences, FiniteSets

CONSTANTS
    Procs, NotUsed, None, Missing, Torn,
    MaxPlans, MaxCommands, MaxFaults,   \* StateDocument, PlanningTree
    MaxRuns,    \* InstallerMigrations, RoadmapUpgrade, Health
    MaxMishaps, \* InstallerMigrations, RoadmapUpgrade, LegacyImport
    MaxCalls,   \* Learnings, Workstreams
    MaxUpsets   \* CodebaseMap, Health, KnowledgeGraph, Surface

VARIABLES part, v1, v2, v3, v4, v5, v6, v7, v8, v9, v10, v11, v12

vars == <<part, v1, v2, v3, v4, v5, v6, v7, v8, v9, v10, v11, v12>>
=============================================================================
