--------------------------- MODULE KnowledgeGraph ---------------------------
(***************************************************************************)
(* The project's knowledge graph: the chain of commands that builds        *)
(* graph.json and its snapshot, run by sessions that take no lock, while   *)
(* the repository moves on; and the queries, the status and the diff read  *)
(* from the files it leaves.                                               *)
(***************************************************************************)
EXTENDS Integers, FiniteSets, Sequences, SequencesExt

CONSTANTS Procs, None, Torn,
          Commits,    \* what graphify finds at each commit: [nodes, edges]
          Budgets,    \* token budgets of a query; 0 is none
          MaxBuilds,  \* bound: graphs made
          MaxUpsets   \* bound: chains that fail or are killed, and other surprises

Terms == {"auth", "chat"}
Tiers == <<"AMBIGUOUS", "INFERRED", "EXTRACTED">>

GraphConstants ==
    /\ Commits \in Seq(ToSet(Commits)) /\ Commits # <<>> /\ Budgets \subseteq Nat
    /\ \A i \in DOMAIN Commits :
        LET nodes == Commits[i].nodes
            edges == Commits[i].edges IN
        /\ IsFiniteSet(nodes) /\ \A n \in nodes : n.says \subseteq Terms
        /\ edges \in Seq(ToSet(edges))
        /\ \A e \in ToSet(edges) : e.tier \in ToSet(Tiers) \cup {"none"}
    /\ None # "fresh" /\ None \notin Nat \X Nat

VARIABLES
    repo,      \* the commit checked out, whether there is git, whether graphify stamps its graphs
    out,       \* graphify-out/graph.json
    graph,     \* .planning/graphs/graph.json, with its age
    snapshot,  \* .last-build-snapshot.json
    auto,      \* the status the auto-update hook left
    chain,     \* what each session runs
    said,      \* the last answer, with what it was read from
    builds,    \* graphs graphify has made; each carries its number
    upsets,
    strays     \* what happened that a property excuses

vars == <<repo, out, graph, snapshot, auto, chain, said, builds, upsets, strays>>

Ids(g) == {n.id : n \in g.nodes}
Ends(g, I) == UNION {{g.edges[i].source, g.edges[i].target} : i \in I}

-----------------------------------------------------------------------------
(* Query: from the nodes that match, two edges out, cut to a budget. *)

Seeds(g, term) == {n.id : n \in {m \in g.nodes : term \in m.says}}
Key(e) == <<e.source, e.target, e.label>>
AtForward(g, ids) == {i \in DOMAIN g.edges : g.edges[i].source \in ids}
At(g, ids) == {i \in DOMAIN g.edges : {g.edges[i].source, g.edges[i].target} \cap ids # {}}
FirstOfKey(g, I) == {i \in I : \A j \in I : Key(g.edges[j]) = Key(g.edges[i]) => i <= j}

Hop(g, walk) ==
    LET met == At(g, walk.frontier)
        seen == walk.seen \cup Ends(g, met) IN
    [seen |-> seen, frontier |-> seen \ walk.seen, edges |-> FirstOfKey(g, walk.edges \cup met)]
SeedAndExpand(g, term) ==
    LET start == Seeds(g, term)
        walk == Hop(g, Hop(g, [seen |-> start, frontier |-> start, edges |-> {}])) IN
    [nodes |-> walk.seen \cap Ids(g), edges |-> walk.edges, seeds |-> start, trimmed |-> None]

Size(nodes, edges) == Cardinality(nodes) + Cardinality(edges)
Cut(g, nodes, kept, budget, tier) ==
    IF Size(nodes, kept) <= budget THEN kept ELSE {i \in kept : g.edges[i].tier # tier}
Fitting(g, nodes, edges, budget) ==
    LET without1 == Cut(g, nodes, edges, budget, Tiers[1])
        without2 == Cut(g, nodes, without1, budget, Tiers[2])
    IN  Cut(g, nodes, without2, budget, Tiers[3])
ApplyBudget(g, found, budget) ==
    LET kept == Fitting(g, found.nodes, found.edges, budget)
        nodes == found.nodes \cap (Ends(g, kept) \cup found.seeds)
        omitted == Cardinality(found.edges \ kept) IN
    [found EXCEPT !.nodes = nodes, !.edges = kept,
                  !.trimmed = IF omitted = 0 THEN None
                              ELSE <<omitted, Cardinality(found.nodes \ nodes)>>]
Found(g, term, budget) ==
    LET found == SeedAndExpand(g, term) IN
    IF budget = 0 THEN found ELSE ApplyBudget(g, found, budget)

-----------------------------------------------------------------------------
(* Status and diff. *)

Behind(from, to) == IF to > from THEN to - from ELSE 0  \* git rev-list --count from..to
CommitsBehind(g) == IF repo.git /\ g.stamp # None THEN Behind(g.stamp, repo.head) ELSE None
CommitStale(g) == IF CommitsBehind(g) = None THEN None
                  ELSE IF CommitsBehind(g) > 0 THEN "stale" ELSE "fresh"
Stale(g) == g.old \/ auto \in {"failed", "running"}

DiffKey(e) == <<e.source, e.target, e.relation>>
Keys(g) == {DiffKey(e) : e \in ToSet(g.edges)}
LastOfKey(g, k) == g.edges[CHOOSE i \in DOMAIN g.edges :
                              /\ DiffKey(g.edges[i]) = k
                              /\ \A j \in DOMAIN g.edges : DiffKey(g.edges[j]) = k => j <= i]
Node(g, id) == CHOOSE n \in g.nodes : n.id = id
Diff(now, then) ==
    [added |-> <<Ids(now) \ Ids(then), Keys(now) \ Keys(then)>>,
     removed |-> <<Ids(then) \ Ids(now), Keys(then) \ Keys(now)>>,
     changed |-> <<{id \in Ids(now) \cap Ids(then) : Node(now, id) # Node(then, id)},
                   {k \in Keys(now) \cap Keys(then) : LastOfKey(now, k) # LastOfKey(then, k)}>>]

-----------------------------------------------------------------------------
(* The build. *)

Nothing == [kind |-> "nothing"]
Idle == [at |-> "none", read |-> None]

TypeOK ==
    /\ repo.head \in DOMAIN Commits /\ repo.git \in BOOLEAN /\ repo.stamps \in BOOLEAN
    /\ auto \in {None, "ok", "running", "failed"}
    /\ \A p \in Procs : chain[p].at \in {"none", "update", "copy", "report", "snapshot", "write", "status"}
    /\ builds \in 0..MaxBuilds /\ upsets \in 0..MaxUpsets
    /\ strays \subseteq {"rewound"}

Init ==
    /\ repo \in [head : {1}, git : BOOLEAN, stamps : BOOLEAN]
    /\ out = None /\ graph = None /\ snapshot = None /\ auto = None
    /\ chain = [p \in Procs |-> Idle]
    /\ said = Nothing /\ builds = 0 /\ upsets = 0 /\ strays = {}

Goes(p, at) == chain' = [chain EXCEPT ![p] = [Idle EXCEPT !.at = at]]
Upset(kinds) == /\ upsets < MaxUpsets /\ upsets' = upsets + 1
                /\ strays' = strays \cup kinds

\* graphifyBuild: enabled and installed, so the chain is run.
Build(p) ==
    /\ chain[p].at = "none" /\ builds < MaxBuilds
    /\ Goes(p, "update")
    /\ UNCHANGED <<repo, out, graph, snapshot, auto, said, builds, upsets, strays>>
\* graphify update: it leaves graphify-out behind, or fails and ends the chain.
Update(p) ==
    /\ chain[p].at = "update" /\ builds < MaxBuilds
    /\ builds' = builds + 1
    /\ out' = [nodes |-> Commits[repo.head].nodes, edges |-> Commits[repo.head].edges,
               stamp |-> IF repo.stamps THEN repo.head ELSE None, of |-> repo.head, old |-> FALSE,
               nr |-> builds + 1]
    /\ Goes(p, "copy")
    /\ UNCHANGED <<repo, graph, snapshot, auto, said, upsets, strays>>
UpdateFails(p) ==
    /\ chain[p].at = "update" /\ Upset({})
    /\ Goes(p, "none")
    /\ UNCHANGED <<repo, out, graph, snapshot, auto, said, builds>>
\* cp truncates graph.json and then writes it.
Truncate(p) ==
    /\ chain[p].at = "copy"
    /\ graph' = Torn
    /\ Goes(p, "report")
    /\ UNCHANGED <<repo, out, snapshot, auto, said, builds, upsets, strays>>
Copy(p) ==
    /\ chain[p].at = "report"
    /\ graph' = out
    /\ Goes(p, "snapshot")
    /\ UNCHANGED <<repo, out, snapshot, auto, said, builds, upsets, strays>>
\* writeSnapshot of whatever graph is there, another session's too, which may
\* also copy between the reading and the writing.
Snapshot(g) == [nodes |-> g.nodes, edges |-> g.edges, nr |-> g.nr]
ReadForSnapshot(p) ==
    /\ chain[p].at = "snapshot"
    /\ IF graph \in {None, Torn} THEN Goes(p, "status")
       ELSE chain' = [chain EXCEPT ![p] = [at |-> "write", read |-> graph]]
    /\ UNCHANGED <<repo, out, graph, snapshot, auto, said, builds, upsets, strays>>
WriteSnapshot(p) ==
    /\ chain[p].at = "write"
    /\ snapshot' = Snapshot(chain[p].read)
    /\ Goes(p, "status")
    /\ UNCHANGED <<repo, out, graph, auto, said, builds, upsets, strays>>

\* graphifyStatus, as the last command of the chain or asked for.
Report(g) == [kind |-> "status", graph |-> g, head |-> repo.head, git |-> repo.git,
              stale |-> Stale(g), commit |-> CommitStale(g), behind |-> CommitsBehind(g)]
Status == said' = IF graph \in {None, Torn} THEN Nothing ELSE Report(graph)
EndsWithStatus(p) ==
    /\ chain[p].at = "status"
    /\ Status /\ Goes(p, "none")
    /\ UNCHANGED <<repo, out, graph, snapshot, auto, builds, upsets, strays>>
AskStatus ==
    /\ Status
    /\ UNCHANGED <<repo, out, graph, snapshot, auto, chain, builds, upsets, strays>>
Query ==
    /\ graph \notin {None, Torn}
    /\ \E t \in Terms, b \in Budgets :
        said' = [kind |-> "query", graph |-> graph, term |-> t, budget |-> b, found |-> Found(graph, t, b)]
    /\ UNCHANGED <<repo, out, graph, snapshot, auto, chain, builds, upsets, strays>>
AskDiff ==
    /\ graph \notin {None, Torn} /\ snapshot # None
    /\ said' = [kind |-> "diff", now |-> graph, then |-> snapshot, diff |-> Diff(graph, snapshot)]
    /\ UNCHANGED <<repo, out, graph, snapshot, auto, chain, builds, upsets, strays>>

-----------------------------------------------------------------------------
(* Around the build. *)

Killed(p) ==
    /\ chain[p].at # "none" /\ Upset({})
    /\ Goes(p, "none")
    /\ UNCHANGED <<repo, out, graph, snapshot, auto, said, builds>>
Commit ==
    /\ repo.head < Len(Commits)
    /\ repo' = [repo EXCEPT !.head = @ + 1]
    /\ UNCHANGED <<out, graph, snapshot, auto, chain, said, builds, upsets, strays>>
CheckOutBack ==
    /\ repo.head > 1 /\ Upset({"rewound"})
    /\ repo' = [repo EXCEPT !.head = @ - 1]
    /\ UNCHANGED <<out, graph, snapshot, auto, chain, said, builds>>
DayPasses ==
    /\ graph \notin {None, Torn} /\ ~graph.old /\ Upset({})
    /\ graph' = [graph EXCEPT !.old = TRUE]
    /\ UNCHANGED <<repo, out, snapshot, auto, chain, said, builds>>
HookReports ==
    /\ auto = None /\ Upset({})
    /\ auto' \in {"ok", "running", "failed"}
    /\ UNCHANGED <<repo, out, graph, snapshot, chain, said, builds>>

Next ==
    \/ \E p \in Procs :
        \/ Build(p) \/ Update(p) \/ UpdateFails(p) \/ Truncate(p) \/ Copy(p)
        \/ ReadForSnapshot(p) \/ WriteSnapshot(p) \/ EndsWithStatus(p) \/ Killed(p)
    \/ AskStatus \/ Query \/ AskDiff \/ Commit \/ CheckOutBack \/ DayPasses \/ HookReports

Spec == Init /\ [][Next]_vars

-----------------------------------------------------------------------------
(* What the answers promise. *)

Joined(g, a, b) == \E e \in ToSet(g.edges) : {e.source, e.target} = {a, b}
Nearby(g, ids) == {b \in Ids(g) \cup Ends(g, DOMAIN g.edges) : b \in ids \/ \E a \in ids : Joined(g, a, b)}
Rank(e) == IF e.tier = "none" THEN 4 ELSE CHOOSE i \in 1..3 : Tiers[i] = e.tier

\* A query answers with everything within two edges of a match, and with each
\* edge at a node one edge away; a budget takes the least certain edges first,
\* no tier more than it must, and leaves no node that neither matches nor has
\* an edge (seedAndExpand, applyBudget).
QueryAnswers ==
    said.kind = "query" =>
        LET g == said.graph
            f == said.found
            start == Seeds(g, said.term)
            all == At(g, Nearby(g, start))
            near == Nearby(g, Nearby(g, start)) \cap Ids(g)
            dropped == FirstOfKey(g, all) \ f.edges
            worst == {i \in dropped : \A j \in dropped : Rank(g.edges[i]) >= Rank(g.edges[j])} IN
        /\ f.edges \subseteq all /\ start \subseteq f.nodes /\ f.nodes \subseteq near
        /\ \A i \in f.edges, j \in dropped : Rank(g.edges[i]) > Rank(g.edges[j])
        /\ said.budget = 0 => dropped = {} /\ f.nodes = near
        /\ dropped # {} => Size(near, f.edges \cup worst) > said.budget
        /\ (dropped # {}) = (f.trimmed # None)
        /\ Ends(g, f.edges) \cap Ids(g) \subseteq f.nodes

\* A status that calls the graph fresh has read one built from the commit that
\* is checked out, unless an earlier commit was checked out since: commits the
\* graph is ahead by are not counted (graphifyStatus).
FreshIsCurrent ==
    said.kind = "status" /\ "rewound" \notin strays =>
        (said.commit = "fresh" => said.graph.of = said.head)

\* A diff never compares the graph with one that was made after it: what it
\* calls added is not what was removed, wherever sessions overlap, fail or are
\* killed in their chains (the build chain, writeSnapshot, graphifyDiff).
BaselineIsNoLater ==
    graph \notin {None, Torn} /\ snapshot # None => snapshot.nr <= graph.nr
=============================================================================
