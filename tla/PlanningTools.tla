--------------------------- MODULE PlanningTools ---------------------------
(***************************************************************************)
(* The planning tools.  A behaviour is one of the part its initial state   *)
(* chooses.                                                                *)
(***************************************************************************)
EXTENDS DocumentTools, RoadmapTools, KnowledgeTools

Init == DocumentInit \/ RoadmapInit \/ KnowledgeInit
Next == UNCHANGED part /\ (DocumentNext \/ RoadmapNext \/ KnowledgeNext)
Spec == Init /\ [][Next]_vars

\* Every variable of the part keeps its type.
TypeOK == DocumentTypeOK /\ RoadmapTypeOK /\ KnowledgeTypeOK
=============================================================================
