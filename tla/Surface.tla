------------------------------ MODULE Surface ------------------------------
(***************************************************************************)
(* Which skills and agents a runtime shows: the profile chosen at install  *)
(* time, the deltas of .gsd-surface.json, and their application to the     *)
(* runtime's directories, where the user keeps files as well.              *)
(***************************************************************************)
EXTENDS Integers, FiniteSets

CONSTANTS Sources,     \* versions of the product: its skills and agents
          None, Torn,  \* a file that is absent, one that cannot be used
          MaxChanges,  \* bound: commands of the user
          MaxMishaps   \* bound: killed runs and entries that cannot be removed

VARIABLES
    layout,    \* how the runtime is laid out
    source,    \* the version installed
    marker,    \* .gsd-profile
    surface,   \* .gsd-surface.json
    shown,     \* the entries of each directory
    job,       \* the run that applies a surface
    settled,   \* whether the last run went through and nothing has changed since
    changes, mishaps

vars == <<layout, source, marker, surface, shown, job, settled, changes, mishaps>>

\* A source has `stems` and `agents`, what each skill `requires` and which
\* agents its text `calls`, whether there or not.
Stems == {"plan", "ship", "docs"}
Profiles == [core |-> {"plan"}, standard |-> {"plan", "ship"}]
Clusters == [loop |-> {"plan"}, writing |-> {"docs", "ship"}]

\* The kinds of directories of a runtime: Claude and the like, Hermes with no
\* prefix, Claude in a project, OpenCode.
Kinds == [global |-> {"skills"}, hermes |-> {"skills"}, project |-> {"commands", "agents"},
          opencode |-> {"commands"}]
Prefixed(kind, l) == kind = "agents" \/ (kind = "skills" /\ l # "hermes")
Entry(pre, name) == [pre |-> pre, name |-> name]
Own == [skills |-> {Entry(FALSE, "plan"), Entry(FALSE, "mine"), Entry(TRUE, "mine")},
        commands |-> {Entry(FALSE, "mine")},
        agents |-> {Entry(FALSE, "mine"), Entry(TRUE, "mine")}]

\* A version ships what its skills require.
SurfaceConstants ==
    \A src \in Sources :
        /\ src.stems \subseteq Stems /\ src.requires \in [Stems -> SUBSET Stems]
        /\ \A s \in src.stems : src.requires[s] \subseteq src.stems

-----------------------------------------------------------------------------
(* computeClosure, resolveProfile and resolveSurface. *)

Direct(base, src) == base \cup UNION {src.requires[s] : s \in base}
Closure(base, src) ==
    LET after[n \in 0..Cardinality(Stems)] == IF n = 0 THEN base ELSE Direct(after[n - 1], src)
    IN  after[Cardinality(Stems)]

\* Unknown names are passed over; full, or nothing known, stands for all.
Known(modes) == modes \cap DOMAIN Profiles
IsFull(modes) == "full" \in modes \/ Known(modes) = {}
ProfileSkills(modes, src) ==
    IF IsFull(modes) THEN src.stems ELSE UNION {Closure(Profiles[m], src) : m \in Known(modes)}
Called(skills, src) == UNION {src.calls[s] : s \in skills \cap src.stems}

IsSurface(f) == f \notin {None, Torn}
Base(f, m) == IF IsSurface(f) THEN f.base ELSE IF IsSurface(m) THEN m ELSE {"full"}
Off(f) == UNION {Clusters[c] : c \in f.disabled}
\* Clusters go first, then the additions with what they require, then the
\* removals, each by itself.
Resolved(f, m, src) ==
    LET base == ProfileSkills(Base(f, m), src)
    IN  IF ~IsSurface(f) THEN base
        ELSE ((base \ Off(f)) \cup Closure(f.adds, src)) \ f.removes

-----------------------------------------------------------------------------
(* Staging and syncing one directory. *)

Staged(kind, l, skills, src) ==
    LET names == IF kind = "agents" THEN Called(skills, src) \cap src.agents ELSE skills \cap src.stems
    IN  {Entry(Prefixed(kind, l), n) : n \in names}
StagedInFull(kind, l, src) ==
    {Entry(Prefixed(kind, l), n) : n \in IF kind = "agents" THEN src.agents ELSE src.stems}

\* A skill's directory is the product's when the manifest knows it, an agent
\* when its name has the prefix, and in a commands directory everything is.
Ours(kind, l, e, src) ==
    CASE kind = "skills" -> e.pre = Prefixed(kind, l) /\ e.name \in src.stems
      [] kind = "agents" -> e.pre
      [] OTHER -> TRUE
Prunable(kind, staged) == {e \in shown[kind] \ staged : Ours(kind, layout, e, source)}

-----------------------------------------------------------------------------
NoJob == [at |-> "none", kinds |-> {}, kind |-> None, skills |-> {}, staged |-> {}, whole |-> TRUE]

TypeOK ==
    /\ layout \in DOMAIN Kinds /\ source \in Sources
    /\ DOMAIN shown = DOMAIN Own /\ \A k \in DOMAIN shown : \A e \in shown[k] : e.pre \in BOOLEAN
    /\ IsSurface(surface) => surface.adds \subseteq Stems /\ surface.removes \subseteq Stems
                               /\ surface.disabled \subseteq DOMAIN Clusters
    /\ job.at \in {"none", "copy", "prune"} /\ job.kinds \subseteq Kinds[layout]
    /\ settled \in BOOLEAN /\ changes \in 0..MaxChanges /\ mishaps \in 0..MaxMishaps

Init ==
    /\ layout \in DOMAIN Kinds
    /\ source \in Sources
    /\ marker \in {None, {"core"}, {"core", "standard"}, {"bogus"}} /\ surface \in {None, Torn}
    /\ shown = Own /\ job = NoJob
    /\ settled = FALSE /\ changes = 0 /\ mishaps = 0

Change == job.at = "none" /\ changes < MaxChanges /\ changes' = changes + 1
UnchangedByUser == UNCHANGED <<layout, source, marker, shown, mishaps>>

\* The run resolves once, and then deals with one directory after the other.
Applies(f) ==
    /\ surface' = f
    /\ settled' = FALSE
    /\ job' = [NoJob EXCEPT !.at = "copy", !.kinds = Kinds[layout],
                            !.skills = Resolved(f, marker, source)]

\* What the surface commands start from when there is no usable file.
Seed == IF IsSurface(surface) THEN surface
        ELSE [base |-> Base(surface, marker), disabled |-> {}, adds |-> {}, removes |-> {}]
SetProfile ==
    \E modes \in {{"core"}, {"standard"}, {"full"}} :
        Change /\ UnchangedByUser /\ Applies([Seed EXCEPT !.base = modes])
Disable ==
    \E c \in DOMAIN Clusters :
        Change /\ UnchangedByUser /\ Applies([Seed EXCEPT !.disabled = @ \cup {c}])
Enable ==
    \E c \in DOMAIN Clusters :
        Change /\ UnchangedByUser /\ IsSurface(surface) /\ Applies([surface EXCEPT !.disabled = @ \ {c}])
AddOrRemove ==
    \E s \in Stems, add \in BOOLEAN :
        /\ Change /\ UnchangedByUser
        /\ Applies(IF add THEN [Seed EXCEPT !.adds = @ \cup {s}] ELSE [Seed EXCEPT !.removes = @ \cup {s}])
Reset == Change /\ UnchangedByUser /\ Applies(None)
Reapply == Change /\ UnchangedByUser /\ Applies(surface)

\* install writes the marker: the profile asked for, or the marker's own, or
\* full; it copies what that profile stages.
Effective(asked) ==
    IF asked # None THEN asked ELSE IF IsSurface(marker) THEN marker ELSE {"full"}
Install ==
    \E src \in Sources, asked \in {None, {"core"}, {"full"}} :
        LET modes == Effective(asked)
            staged(k) == IF IsFull(modes) THEN StagedInFull(k, layout, src)
                         ELSE Staged(k, layout, ProfileSkills(modes, src), src)
        IN  /\ Change
            /\ source' = src /\ marker' = modes /\ settled' = FALSE
            /\ shown' = [k \in DOMAIN shown |-> IF k \in Kinds[layout] THEN shown[k] \cup staged(k) ELSE shown[k]]
            /\ UNCHANGED <<layout, surface, job, mishaps>>

\* Copy all that is staged; a run killed before has copied some of it.
Copy ==
    /\ job.at = "copy"
    /\ \E k \in job.kinds :
        LET staged == Staged(k, layout, job.skills, source) IN
        /\ shown' = [shown EXCEPT ![k] = @ \cup staged]
        /\ job' = [job EXCEPT !.at = "prune", !.kind = k, !.staged = staged, !.kinds = @ \ {k}]
    /\ UNCHANGED <<layout, source, marker, surface, settled, changes, mishaps>>
Mishap == mishaps < MaxMishaps /\ mishaps' = mishaps + 1
KilledInCopy ==
    /\ job.at = "copy" /\ Mishap
    /\ \E k \in job.kinds : \E part \in SUBSET Staged(k, layout, job.skills, source) :
        shown' = [shown EXCEPT ![k] = @ \cup part]
    /\ job' = NoJob
    /\ UNCHANGED <<layout, source, marker, surface, settled, changes>>

Finish(whole) ==
    /\ job' = IF job.kinds = {} THEN NoJob ELSE [job EXCEPT !.at = "copy", !.whole = whole]
    /\ settled' = (job.kinds = {} /\ whole)
    /\ UNCHANGED <<layout, source, marker, surface, changes>>
Prune ==
    /\ job.at = "prune" /\ Finish(job.whole)
    /\ shown' = [shown EXCEPT ![job.kind] = @ \ Prunable(job.kind, job.staged)]
    /\ UNCHANGED mishaps
\* An entry that cannot be removed is passed over.
PruneMisses ==
    /\ job.at = "prune" /\ Mishap /\ Finish(FALSE)
    /\ \E e \in Prunable(job.kind, job.staged) :
        shown' = [shown EXCEPT ![job.kind] = (@ \ Prunable(job.kind, job.staged)) \cup {e}]
KilledInPrune ==
    /\ job.at = "prune" /\ Mishap
    /\ \E part \in SUBSET Prunable(job.kind, job.staged) :
        shown' = [shown EXCEPT ![job.kind] = @ \ part]
    /\ job' = NoJob
    /\ UNCHANGED <<layout, source, marker, surface, settled, changes>>

Next ==
    \/ SetProfile \/ Disable \/ Enable \/ AddOrRemove \/ Reset \/ Reapply \/ Install
    \/ Copy \/ KilledInCopy \/ Prune \/ PruneMisses \/ KilledInPrune

Spec == Init /\ [][Next]_vars

-----------------------------------------------------------------------------
(* Properties. *)

\* After a run that went through, each directory shows what the surface
\* resolves to, whatever killed runs and other versions have left there: no
\* skill of the product beyond it, no agent that no skill calls.
ShownIsResolved ==
    settled => \A k \in Kinds[layout] :
        {e \in shown[k] : Ours(k, layout, e, source)}
            = Staged(k, layout, Resolved(surface, marker, source), source)

\* The user's own entries stay: every skill the product does not know, and
\* every agent without its prefix. (A commands directory and the prefix of
\* agents are the product's own.)
OwnEntriesStay ==
    /\ {e \in Own["skills"] : layout # "hermes" \/ e.name # "plan"} \subseteq shown["skills"]
    /\ {e \in Own["agents"] : ~e.pre} \subseteq shown["agents"]

\* A skill that is shown has all it requires, except for what the user has
\* disabled or removed; and the closure adds nothing it need not.
SurfaceIsClosed ==
    LET skills == Resolved(surface, marker, source)
        refused == IF IsSurface(surface) THEN Off(surface) \cup surface.removes ELSE {}
    IN  /\ Direct(skills \cap source.stems, source) \ skills \subseteq refused
        /\ IsSurface(surface) => skills \cap surface.removes = {}
        /\ \A base \in SUBSET Stems, all \in SUBSET Stems :
            base \subseteq all /\ Direct(all, source) = all => Closure(base, source) \subseteq all
=============================================================================
