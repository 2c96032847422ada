----------------------------- MODULE IntelFiles -----------------------------
(***************************************************************************)
(* The project intel under .planning/intel: files an updater agent writes, *)
(* the commands that stamp them, take a snapshot of their hashes and       *)
(* render the API surface, and what status, validate, diff and query say   *)
(* of them. The commands read a file, and write it or another one, with no *)
(* lock between.                                                           *)
(***************************************************************************)
EXTENDS Integers, FiniteSets

CONSTANTS Procs, None, Torn,
          MaxWrites,  \* bound: files the agent writes
          MaxCalls    \* bound: commands started

\* INTEL_FILES: the commands look at five files, of which the agent's own
\* names hold one; two of each stand for the rest.
Names == {"stack.json", "api-map.json"}
AgentNames == {"stack.json", "apis.json"}
AllNames == Names \cup AgentNames
ApiMap == "api-map.json"

VARIABLES
    file,      \* what each file holds
    snapshot,  \* .last-refresh.json: the hashes of a refresh
    surface,   \* API-SURFACE.md: the symbols shown, and its banner
    proc,      \* what each command does
    kept,      \* what was last written to each file, by the agent or by hand
    seen,      \* what the files held when the last snapshot was begun
    writes, calls,
    mixed      \* what came between a command's reading and its writing

vars == <<file, snapshot, surface, proc, kept, seen, writes, calls, mixed>>

\* A file: its entries (a number for which ones, 0 for none), and _meta.
Content(n, at, v) == [entries |-> n, at |-> at, version |-> v]
Read(n) == IF file[n] = Torn THEN None ELSE file[n]          \* safeReadJson
Hash(n) == file[n]                                           \* hashFile
Hashes == [n \in {m \in Names : file[m] # None} |-> Hash(n)]

TypeOK ==
    /\ \A n \in AllNames : file[n] \notin {None, Torn} => file[n].at \in {"fresh", "old", None}
    /\ \A p \in Procs : proc[p].at \in {"none", "patch", "snapshot", "surface"}
    /\ writes \in 0..MaxWrites /\ calls \in 0..MaxCalls
    /\ mixed \subseteq {"patch", "snapshot"}

Idle == [at |-> "none", name |-> None, read |-> None]
Init ==
    /\ file \in {[n \in AllNames |-> None], [n \in AllNames |-> Content(1, "old", 1)]}
    /\ snapshot = None /\ surface = None
    /\ proc = [p \in Procs |-> Idle]
    /\ kept = [n \in AllNames |-> IF file[n] = None THEN 0 ELSE 1]
    /\ seen = None /\ writes = 0 /\ calls = 0 /\ mixed = {}

-----------------------------------------------------------------------------
(* The agent, a person's editor, and time. *)

AgentWrites ==
    /\ writes < MaxWrites /\ writes' = writes + 1
    /\ \E n \in AllNames, e \in {0, writes + 2}, at \in {"fresh", None} :
        /\ file' = [file EXCEPT ![n] = Content(e, at, 1)]
        /\ kept' = [kept EXCEPT ![n] = e]
    /\ UNCHANGED <<snapshot, surface, proc, seen, calls, mixed>>
EditBreaks ==
    /\ writes < MaxWrites /\ writes' = writes + 1
    /\ \E n \in Names :
        /\ file' = [file EXCEPT ![n] = Torn]
        /\ kept' = [kept EXCEPT ![n] = 0]
    /\ UNCHANGED <<snapshot, surface, proc, seen, calls, mixed>>
DayPasses ==
    /\ \E n \in AllNames : file[n] \notin {None, Torn} /\ file[n].at = "fresh"
    /\ file' = [n \in AllNames |-> IF file[n] \notin {None, Torn} /\ file[n].at = "fresh"
                                     THEN [file[n] EXCEPT !.at = "old"] ELSE file[n]]
    /\ UNCHANGED <<snapshot, surface, proc, kept, seen, writes, calls, mixed>>

-----------------------------------------------------------------------------
(* The commands that write. *)

Begin(p, c) ==
    /\ proc[p].at = "none" /\ calls < MaxCalls /\ calls' = calls + 1
    /\ proc' = [proc EXCEPT ![p] = c]
    /\ UNCHANGED <<file, snapshot, surface, kept, writes, mixed>>
Ends(p, kind, same) ==
    /\ proc' = [proc EXCEPT ![p] = Idle]
    /\ mixed' = mixed \cup (IF same THEN {} ELSE {kind})
    /\ UNCHANGED <<kept, writes, calls>>

\* intelPatchMeta: a file that is absent or no JSON is not patched.
BeginPatch(p) ==
    \E n \in AllNames :
        /\ Read(n) # None
        /\ Begin(p, [at |-> "patch", name |-> n, read |-> Read(n)]) /\ UNCHANGED seen
WritePatch(p) ==
    /\ proc[p].at = "patch"
    /\ LET n == proc[p].name
           c == proc[p].read
       IN  /\ file' = [file EXCEPT ![n] = Content(c.entries, "fresh", c.version + 1)]
           /\ Ends(p, "patch", Read(n) # None /\ Read(n).entries = c.entries)
    /\ UNCHANGED <<snapshot, surface, seen>>

\* saveRefreshSnapshot: the hashes, and then the file.
BeginSnapshot(p) ==
    /\ Begin(p, [at |-> "snapshot", name |-> None, read |-> Hashes])
    /\ seen' = [n \in Names |-> file[n]]
WriteSnapshot(p) ==
    /\ proc[p].at = "snapshot"
    /\ snapshot' = proc[p].read
    /\ Ends(p, "snapshot", \A q \in Procs \ {p} : proc[q].at # "snapshot")
    /\ UNCHANGED <<file, surface, seen>>

\* intelApiSurface: always written, with a banner when there is nothing to show.
Banner(c) ==
    IF c = None \/ c.entries = 0 THEN "incomplete" ELSE IF c.at = "fresh" THEN "none" ELSE "stale"
Surface(c) == [symbols |-> IF c = None THEN 0 ELSE c.entries, banner |-> Banner(c)]
BeginSurface(p) ==
    Begin(p, [at |-> "surface", name |-> ApiMap, read |-> Read(ApiMap)]) /\ UNCHANGED seen
WriteSurface(p) ==
    /\ proc[p].at = "surface"
    /\ surface' = Surface(proc[p].read)
    /\ Ends(p, "surface", TRUE)
    /\ UNCHANGED <<file, snapshot, seen>>

Next ==
    \/ AgentWrites \/ EditBreaks \/ DayPasses
    \/ \E p \in Procs :
        \/ BeginPatch(p) \/ WritePatch(p) \/ BeginSnapshot(p) \/ WriteSnapshot(p)
        \/ BeginSurface(p) \/ WriteSurface(p)

Spec == Init /\ [][Next]_vars

-----------------------------------------------------------------------------
(* What the reading commands say of a state. *)

StaleFile(n) == Read(n) = None \/ Read(n).at # "fresh"
OverallStale == \E n \in Names : StaleFile(n)                       \* intelStatus
Errors == {n \in Names : Read(n) = None}                            \* intelValidate
Warnings == {n \in Names \ Errors : Read(n).at # "fresh"}

Listed == DOMAIN snapshot
Added == {n \in Names : Hash(n) # None /\ n \notin Listed}          \* intelDiff
Removed == {n \in Listed : Hash(n) = None}
Changed == {n \in Listed : Hash(n) # None /\ Hash(n) # snapshot[n]}
Matches == {n \in Names : Read(n) # None /\ Read(n).entries # 0}    \* intelQuery, of any term

-----------------------------------------------------------------------------
(* Properties. *)

\* Stamping a file keeps the entries last written to it, unless they were
\* written between the stamp's reading and its writing (intelPatchMeta).
StampKeepsEntries ==
    "patch" \notin mixed =>
        \A n \in AllNames : file[n] \notin {None, Torn} => file[n].entries = kept[n]

\* Once a snapshot is finished, the diff names the files whose content is not
\* what it was when the snapshot was begun, and no other, unless two snapshots
\* met (saveRefreshSnapshot, intelDiff).
DiffFindsChanges ==
    snapshot # None /\ "snapshot" \notin mixed /\ (\A p \in Procs : proc[p].at # "snapshot") =>
        Added \cup Removed \cup Changed = {n \in Names : file[n] # seen[n]}

\* The surface shows no symbols only under the banner that says so, and in a
\* project that status calls fresh validate finds nothing wrong and a query
\* finds what was written to each file, but for a stamp that overwrote it
\* (intelApiSurface, intelStatus, intelValidate, intelQuery).
SilenceIsExplained ==
    /\ surface # None => (surface.symbols = 0) = (surface.banner = "incomplete")
    /\ ~OverallStale => Errors = {} /\ Warnings = {}
    /\ ~OverallStale /\ "patch" \notin mixed => Matches = {n \in Names : kept[n] # 0}
=============================================================================
