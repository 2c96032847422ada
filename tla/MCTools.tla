------------------------------ MODULE MCTools ------------------------------
(* Small constants for PlanningTools: what its parts start from.           *)
EXTENDS PlanningTools, TLC

Section(id, n) == [id |-> id, name |-> n, line |-> id, checked |-> FALSE, row |-> "Planned", waves |-> FALSE]
Dir(id, n, k) == [id |-> id, name |-> n, plans |-> 1, summaries |-> k]

\* Phase 1 done, 2 without a directory, 3 planned, and a backlog item.
SomeRoadmap == <<Section(<<1, 0>>, 1), Section(<<2, 0>>, 3), Section(<<3, 0>>, 4),
             [Section(<<999, 1>>, 5) EXCEPT !.line = <<0, 0>>]>>
SomeDirs == {Dir(<<1, 0>>, 1, 1), Dir(<<3, 0>>, 4, 0), Dir(<<999, 1>>, 5, 0)}

\* Roadmaps to upgrade: a phase before any milestone, the newest milestone
\* first, numbers that start again in each milestone.
Line(k, n, w) == [kind |-> k, id |-> <<n>>, first |-> n, who |-> w]
M(m) == Line("milestone", m, 0)
P(n, w) == Line("phase", n, w)
C(n, w) == Line("check", n, w)
OldRoadmaps ==
    {<<P(9, 9), M(1), C(1, 1), P(1, 1), P(2, 2), M(1), P(3, 3), M(2), C(4, 4), P(4, 4)>>,
     <<M(2), P(3, 3), M(1), P(1, 1), P(2, 2)>>,
     <<M(1), P(1, 1), P(2, 2), M(2), P(1, 3), P(3, 4), C(2, 2)>>}

\* Projects with something for every check of health to find.
Found(id, plans, summaries, padded) ==
    [id |-> id, plans |-> plans, summaries |-> summaries, padded |-> padded, waves |-> plans,
     research |-> "none", validation |-> FALSE]
Config(flaws, workflow) ==
    [text |-> 1, flaws |-> flaws, prefixed |-> FALSE, custom |-> FALSE, workflow |-> workflow]
State(p, m) ==
    [text |-> 2, refs |-> {p}, current |-> p, status |-> "executing", milestone |-> m]
Planned(current, older, begun, misplaced) ==
    [current |-> current, older |-> older, begun |-> begun, checked |-> {10}, misplaced |-> misplaced]
NoState ==
    [project |-> "whole", state |-> None, config |-> Config({}, {}), strays |-> FALSE,
     roadmap |-> Planned({10, 20, 21}, {}, {10}, {}),
     dirs |-> {Found(10, {1}, {1}, TRUE), Found(20, {1, 2, 4}, {1, 3}, FALSE)},
     archives |-> <<>>, snapshots |-> {}, registry |-> <<>>, agents |-> "all", worktrees |-> "fine"]
NoConfig ==
    [project |-> "whole", state |-> State(30, 0), config |-> None, strays |-> TRUE,
     roadmap |-> Planned({20, 40}, {10}, {20, 40}, {}), dirs |-> {Found(20, {1}, {}, TRUE)},
     archives |-> 1 :> {10}, snapshots |-> {1, 2}, registry |-> <<2>>,
     agents |-> "all", worktrees |-> "fine"]
TornConfig ==
    [project |-> "short", state |-> None, config |-> Torn, strays |-> FALSE, roadmap |-> None,
     dirs |-> {Found(10, {1}, {1}, TRUE), Found(20, {1, 2, 4}, {1, 3}, FALSE)},
     archives |-> <<>>, snapshots |-> {1, 10}, registry |-> <<10>>,
     agents |-> "some", worktrees |-> "unknown"]
Flawed ==
    [project |-> "absent", state |-> State(10, 0), strays |-> FALSE,
     config |-> [Config({"strategy", "window", "template"}, None)
                   EXCEPT !.prefixed = TRUE, !.custom = TRUE],
     roadmap |-> Planned({10, 20, 21}, {}, {10}, {10}),
     dirs |-> {[Found(30, {1}, {1}, TRUE) EXCEPT !.research = "with validation"]},
     archives |-> <<>>, snapshots |-> {}, registry |-> <<>>, agents |-> "all", worktrees |-> "stale"]
Ailing == {NoState, NoConfig, TornConfig, Flawed}

\* Versions of the product: a chain of requirements, a smaller version, two
\* skills that require each other and one that calls no agent.
BySkill(p, s, d) == "plan" :> p @@ "ship" :> s @@ "docs" :> d
Product(stems, requires, calls) ==
    [stems |-> stems, agents |-> {"planner", "writer"}, requires |-> requires, calls |-> calls]
SomeProducts ==
    {Product({"plan", "ship", "docs"}, BySkill({"ship"}, {"docs"}, {"plan"}),
             BySkill({"planner", "tools"}, {}, {"writer"})),
     Product({"plan", "docs"}, BySkill({"docs"}, {}, {}), BySkill({}, {}, {"writer"})),
     Product({"plan", "ship", "docs"}, BySkill({}, {"plan", "docs"}, {}),
             BySkill({"planner"}, {"planner"}, {}))}

\* What graphify finds at two commits: a path longer than two edges, edges of
\* each tier, an edge to a node that is not there, two edges with one key.
Node(i, s) == [id |-> i, says |-> s]
Edge(a, b, l, t) == [source |-> a, target |-> b, label |-> l, relation |-> l, tier |-> t]
Graphs ==
    <<[nodes |-> {Node(1, {"auth"}), Node(2, {}), Node(3, {}), Node(4, {}), Node(5, {"chat"})},
       edges |-> <<Edge(1, 2, "calls", "EXTRACTED"), Edge(3, 2, "calls", "AMBIGUOUS"),
                   Edge(3, 4, "uses", "INFERRED"), Edge(4, 9, "uses", "none")>>],
      [nodes |-> {Node(1, {"auth", "chat"}), Node(2, {}), Node(5, {"chat"}), Node(6, {})},
       edges |-> <<Edge(1, 2, "calls", "INFERRED"), Edge(1, 2, "calls", "EXTRACTED"),
                   Edge(5, 6, "calls", "AMBIGUOUS"), Edge(2, 6, "uses", "INFERRED"),
                   Edge(2, 9, "uses", "none")>>]>>

\* GSD-2 projects: two slices of one title, a slice with no directory, an
\* empty milestone, a slice done whose task has no summary.
Slice(slug, done, research, summaries) ==
    [slug |-> slug, done |-> done, research |-> research,
     tasks |-> [i \in DOMAIN summaries |-> [summary |-> summaries[i]]]]
Gsd2 ==
    {<<<<Slice("login", TRUE, TRUE, <<TRUE>>), Slice("chat", FALSE, FALSE, <<TRUE, FALSE>>)>>,
       <<Slice("login", FALSE, FALSE, <<>>)>>>>,
     <<<<>>, <<Slice("chat", TRUE, FALSE, <<FALSE>>)>>>>}

\* Files that commits add: below one top directory, and in two packages.
At(path, kind) == [path |-> path, kind |-> kind]
SourceFiles ==
    {At(<<"src", "lib", "a">>, "plain"), At(<<"src", "routes", "b">>, "route"),
     At(<<"packages", "ui", "c">>, "plain"), At(<<"packages", "db", "d">>, "plain")}

SomeManifest == <<"a", "b">>
SomeDocuments == {<<"a", "b">>, <<"b", "b">>}

Symmetry == Permutations(Procs)
=============================================================================
