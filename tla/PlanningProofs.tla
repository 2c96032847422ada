--------------------------- MODULE PlanningProofs ---------------------------
(***************************************************************************)
(* What is proved of the planning tools as a whole: their invariant is     *)
(* that of each part, as no two parts run together.                        *)
(***************************************************************************)
EXTENDS PlanningTools, DocumentProofs, KnowledgeProofs

ToolsInv ==
    /\ part = "state" => StateInv
    /\ part = "worktrees" => WorktreesInv
    /\ part = "streams" => StreamsInv
    /\ part = "installer" => MigrationsInv
    /\ part = "settings" => SettingsInv
    /\ part = "surface" => SurfaceInv
    /\ part = "learnings" => LearningsInv
    /\ part = "graph" => GraphInv
    /\ part = "intel" => IntelInv
    /\ part = "map" => MapInv

LEMMA ToolsInit == Init => ToolsInv
BY StateInit, WorktreesInit, StreamsInit, MigrationsInit, SettingsInit, SurfaceInit, LearningsInit, GraphInit,
   IntelInit, MapInit
   DEF Init, DocumentInit, RoadmapInit, KnowledgeInit, ToolsInv

LEMMA ToolsStep == ToolsInv /\ [Next]_vars => ToolsInv'
<1> SUFFICES ASSUME ToolsInv, [Next]_vars PROVE ToolsInv'
    OBVIOUS
<1>1. part' = part /\ (DocumentNext \/ RoadmapNext \/ KnowledgeNext \/ UNCHANGED vars)
      BY DEF Next, vars
<1>2. ASSUME part = "state" PROVE StateInv'
      <2>1. [SD!Next]_(SD!vars) BY <1>1, <1>2 DEF DocumentNext, RoadmapNext, KnowledgeNext, vars, SD!vars
      <2> QED BY <2>1, <1>2, StateStep DEF ToolsInv
<1>3. ASSUME part = "worktrees" PROVE WorktreesInv'
      <2>1. WT!Next \/ UNCHANGED WT!worktreeVars
            BY <1>1, <1>3 DEF DocumentNext, RoadmapNext, KnowledgeNext, vars, WT!worktreeVars
      <2> QED BY <2>1, <1>3, WorktreesStep DEF ToolsInv
<1>4. ASSUME part = "settings" PROVE SettingsInv'
      <2>1. [PC!Next]_(PC!vars) BY <1>1, <1>4 DEF DocumentNext, RoadmapNext, KnowledgeNext, vars, PC!vars
      <2> QED BY <2>1, <1>4, SettingsStep DEF ToolsInv
<1>5. ASSUME part = "surface" PROVE SurfaceInv'
      <2>1. [SU!Next]_(SU!vars) BY <1>1, <1>5 DEF DocumentNext, RoadmapNext, KnowledgeNext, vars, SU!vars
      <2> QED BY <2>1, <1>1, <1>5, SurfaceStep DEF ToolsInv
<1>6. ASSUME part = "learnings" PROVE LearningsInv'
      <2>1. [LE!Next]_(LE!vars) BY <1>1, <1>6 DEF DocumentNext, RoadmapNext, KnowledgeNext, vars, LE!vars
      <2> QED BY <2>1, <1>1, <1>6, LearningsStep DEF ToolsInv
<1>7. ASSUME part = "graph" PROVE GraphInv'
      <2>1. [KG!Next]_(KG!vars) BY <1>1, <1>7 DEF DocumentNext, RoadmapNext, KnowledgeNext, vars, KG!vars
      <2> QED BY <2>1, <1>1, <1>7, GraphStep DEF ToolsInv
<1>8. ASSUME part = "intel" PROVE IntelInv'
      <2>1. [II!Next]_(II!vars) BY <1>1, <1>8 DEF DocumentNext, RoadmapNext, KnowledgeNext, vars, II!vars
      <2> QED BY <2>1, <1>1, <1>8, IntelStep DEF ToolsInv
<1>9. ASSUME part = "map" PROVE MapInv'
      <2>1. [CB!Next]_(CB!vars) BY <1>1, <1>9 DEF DocumentNext, RoadmapNext, KnowledgeNext, vars, CB!vars
      <2> QED BY <2>1, <1>1, <1>9, MapStep DEF ToolsInv
<1>10. ASSUME part = "streams" PROVE StreamsInv'
      <2>1. [WS!Next]_(WS!streamVars) BY <1>1, <1>10 DEF DocumentNext, RoadmapNext, KnowledgeNext, vars, WS!streamVars
      <2> QED BY <2>1, <1>1, <1>10, StreamsStep DEF ToolsInv
<1>11. ASSUME part = "installer" PROVE MigrationsInv'
      <2>1. [IM!Next]_(IM!installVars) BY <1>1, <1>11 DEF DocumentNext, RoadmapNext, KnowledgeNext, vars, IM!installVars
      <2> QED BY <2>1, <1>1, <1>11, MigrationsStep DEF ToolsInv
<1> QED BY <1>1, <1>2, <1>3, <1>4, <1>5, <1>6, <1>7, <1>8, <1>9, <1>10, <1>11 DEF ToolsInv

LEMMA ToolsInvHolds == Spec => []ToolsInv
BY ToolsInit, ToolsStep, PTL DEF Spec

\* StateDocument: STATE.md has one writer, and what a command recorded is in
\* the document, in the archive, or with the prune that moves it.
THEOREM StateIsAlwaysKept == Spec => []StateIsKept
<1>1. ToolsInv => StateIsKept BY StateAnswers DEF ToolsInv, StateIsKept
<1> QED BY <1>1, ToolsInvHolds, PTL

\* Worktrees: whatever an agent made is on the trunk, on its branch or still in
\* its worktree, and its last SUMMARY is in the main tree or in the worktree,
\* unless one of the losses the model names took it.
THEOREM WorkAlwaysSurvives == Spec => []WorkSurvives
<1>1. ToolsInv => WorkSurvives BY WorktreesAnswers DEF ToolsInv, WorkSurvives
<1> QED BY <1>1, ToolsInvHolds, PTL

\* Workstreams: every file ever made is in the flat layout, in a workstream or
\* in an archive, and no others are, for any number of names, commands and
\* failing moves, until two commands overlap or a rollback fails.
THEOREM FilesAlwaysSurvive == Spec => []FilesSurvive
<1>1. ToolsInv => FilesSurvive BY StreamsAnswers DEF ToolsInv, FilesSurvive
<1> QED BY <1>1, ToolsInvHolds, PTL

\* InstallerMigrations: what the user had in the files the migrations change is
\* still there, or in a copy that no run will drop before it puts it back, and
\* what the record says was applied was done or is being taken back: for any
\* number of runs and installers, that die, fail, time out or wait, until one
\* of the flaws the model names lets two of them overlap or strikes one twice.
THEOREM MigrationIsAlwaysWhole == Spec => []MigrationIsWhole
<1>1. ToolsInv => MigrationIsWhole BY MigrationsAnswer DEF ToolsInv, MigrationIsWhole
<1> QED BY <1>1, ToolsInvHolds, PTL

\* ProjectConfig: what config-set stored is read back until something it does
\* not guard against happens, rewriting a file keeps what it says, and a
\* workstream inherits what it does not say itself.
THEOREM SettingsAlwaysHold == Spec => []SettingsHold
<1>1. ToolsInv => SettingsHold BY SettingsAnswers DEF ToolsInv, SettingsHold
<1> QED BY <1>1, ToolsInvHolds, PTL

\* Surface: what a runtime shows, once a run went through, is what its surface
\* resolves to, with all it requires that is not refused, and none of the
\* user's own is ever pruned: for all versions of the product, and any number
\* of changes, killed runs and entries that cannot be removed.
THEOREM SurfaceAlwaysHolds == Spec => []SurfaceHolds
<1>1. ToolsInv => SurfaceHolds BY SurfaceAnswers DEF ToolsInv, SurfaceHolds
<1> QED BY <1>1, ToolsInvHolds, PTL

\* Learnings, KnowledgeGraph, IntelFiles, CodebaseMap: a learning is stored
\* once and where it was reported, a query of the graph answers with all that
\* is near, an intel file is judged by what it was, and the gate leaves no new
\* file out of the map, for all commits, files and documents, and any number of
\* processes that run, meet and die.
THEOREM KnowledgeIsAlwaysKept == Spec => []KnowledgeIsKept
<1>1. ToolsInv => KnowledgeIsKept
      BY LearningsAnswers, GraphAnswers, IntelAnswers, GateMisses DEF ToolsInv, KnowledgeIsKept
<1> QED BY <1>1, ToolsInvHolds, PTL
=============================================================================
