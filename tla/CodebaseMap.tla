---------------------------- MODULE CodebaseMap ----------------------------
(***************************************************************************)
(* The map of the codebase and the gate that asks for a new one: an agent  *)
(* describes the directories in STRUCTURE.md and stamps it with a commit,  *)
(* and verify codebase-drift judges the files added since that commit,     *)
(* while commits go on.  A file is the path of its directories and name.   *)
(***************************************************************************)
EXTENDS Integers, FiniteSets, Sequences, SequencesExt

CONSTANTS Files,       \* files that commits may add: [path, kind]
          None,
          Threshold,   \* workflow.drift_threshold
          MaxCommits,  \* bound: commits in the history
          MaxMaps,     \* bound: runs of the mapper
          MaxUpsets    \* bound: checkouts of an older commit, lost commits, killed mappers

VARIABLES
    history,  \* the files of each commit
    head,     \* the commit checked out, 0 for no repository
    lost,     \* commits that git no longer has
    map,      \* STRUCTURE.md: the directories it mentions, and its stamp
    gate,     \* what the gate has read so far
    said,     \* its last verdict
    mapper,   \* what the mapper looks at
    seen,     \* files a mapper has looked at, as its map was written
    maps, upsets,
    strays    \* what happened that the property excuses

vars == <<history, head, lost, map, gate, said, mapper, seen, maps, upsets, strays>>

-----------------------------------------------------------------------------
(* What drifts. *)

Parents(f) == {SubSeq(f.path, 1, i) : i \in 1..(Len(f.path) - 1)}
\* Any directory above the file will do: a new one below a mapped one is mapped.
IsPathMapped(f, covers) == \E d \in Parents(f), c \in covers : IsPrefix(d, c)
Drifts(f, covers) == f.kind # "plain" \/ ~IsPathMapped(f, covers)
Elements(added, covers) == {f \in added : Drifts(f, covers)}

\* The places a mapper is sent to: a package, or else the top directory.
Place(f) == SubSeq(f.path, 1, IF f.path[1] \in {"apps", "packages"} /\ Len(f.path) > 1 THEN 2 ELSE 1)
AffectedPaths(elements) == {Place(f) : f \in elements}
Under(files, places) == {f \in files : \E p \in places : IsPrefix(p, f.path)}

CodebaseConstants ==
    /\ IsFiniteSet(Files)
    /\ \A f \in Files : /\ f.path \in Seq(STRING) /\ f.path # <<>>
                         /\ f.kind \in {"plain", "barrel", "route", "migration"}
    /\ Threshold \in Nat \ {0}
    /\ \A files \in SUBSET Files : None # AffectedPaths(files)

FilesAt(commit) == IF commit = 0 THEN {} ELSE history[commit]
Tree == FilesAt(head)
\* Without a stamp, or when its commit is gone, everything counts as added.
Base(stamp) == IF stamp = None \/ stamp \in lost THEN {} ELSE history[stamp]

-----------------------------------------------------------------------------
NoMapper == [at |-> "none", files |-> {}, places |-> None, head |-> 0]
Skipped == [skipped |-> TRUE, elements |-> {}, required |-> FALSE, covers |-> {}, new |-> {}, head |-> 0]

TypeOK ==
    /\ \A i \in DOMAIN history : history[i] \subseteq Files
    /\ head \in 0..Len(history) /\ lost \subseteq DOMAIN history
    /\ map # None => (map.stamp = None \/ map.stamp \in DOMAIN history)
    /\ said.elements \subseteq Files /\ said.required \in BOOLEAN
    /\ mapper.at \in {"none", "write"} /\ seen \subseteq Files
    /\ maps \in 0..MaxMaps /\ upsets \in 0..MaxUpsets
    /\ strays \subseteq {"partial", "moved", "between"}

Init ==
    /\ \/ history = <<>> /\ head = 0
       \/ history \in {<<{f}>> : f \in Files} /\ head = 1
    /\ lost = {} /\ map = None /\ gate = None /\ said = Skipped /\ mapper = NoMapper
    /\ seen = {} /\ maps = 0 /\ upsets = 0 /\ strays = {}

\* verify codebase-drift: STRUCTURE.md is read for its text, and then once
\* more for its stamp.
GateReads ==
    /\ gate = None
    /\ IF map = None THEN said' = Skipped /\ UNCHANGED gate
       ELSE gate' = map /\ UNCHANGED said
    /\ UNCHANGED <<history, head, lost, map, mapper, seen, maps, upsets, strays>>
Verdict(covers, stamp) ==
    LET elements == Elements(Tree \ Base(stamp), covers) IN
    [skipped |-> FALSE, elements |-> elements, required |-> Cardinality(elements) >= Threshold,
     covers |-> covers, new |-> Tree \ seen, head |-> head]
GateJudges ==
    /\ gate # None
    /\ said' = IF head = 0 THEN Skipped ELSE Verdict(gate.covers, map.stamp)
    /\ strays' = strays \cup (IF map = gate THEN {} ELSE {"between"})
    /\ gate' = None
    /\ UNCHANGED <<history, head, lost, map, mapper, seen, maps, upsets>>

-----------------------------------------------------------------------------
(* The mapper: of everything, of the paths a verdict asked for, or of a path  *)
(* somebody chose.                                                            *)

Look(files, places, stray) ==
    /\ mapper.at = "none" /\ maps < MaxMaps /\ maps' = maps + 1
    /\ mapper' = [at |-> "write", files |-> files, places |-> places, head |-> head]
    /\ strays' = strays \cup stray
    /\ UNCHANGED <<history, head, lost, map, gate, said, seen, upsets>>
MapAll == Look(Tree, None, {})
Remap ==
    /\ said.required /\ map # None
    /\ LET places == AffectedPaths(said.elements) IN
       Look(Under(Tree, places), places,
            IF Tree \subseteq FilesAt(said.head) /\ said.covers \subseteq map.covers THEN {} ELSE {"moved"})
Drifted == Elements(Tree \ Base(map.stamp), map.covers)
MapOnePlace ==
    /\ map # None
    /\ \E p \in AffectedPaths(Tree) :
        Look(Under(Tree, {p}), {p}, IF AffectedPaths(Drifted) \subseteq {p} THEN {} ELSE {"partial"})
\* It rewrites STRUCTURE.md and stamps the commit checked out by now, if it
\* keeps to its instructions.
MapperWrites ==
    /\ mapper.at = "write"
    /\ \E stamped \in BOOLEAN :
        map' = [covers |-> (UNION {Parents(f) : f \in mapper.files})
                             \cup (IF mapper.places = None \/ map = None THEN {} ELSE map.covers),
                stamp |-> IF stamped /\ head # 0 THEN head ELSE None]
    /\ seen' = seen \cup mapper.files
    /\ strays' = strays \cup (IF Tree \subseteq FilesAt(mapper.head) THEN {} ELSE {"moved"})
    /\ mapper' = NoMapper
    /\ UNCHANGED <<history, head, lost, gate, said, maps, upsets>>

-----------------------------------------------------------------------------
Upset == upsets < MaxUpsets /\ upsets' = upsets + 1
MapperFails ==
    /\ mapper.at = "write" /\ Upset /\ mapper' = NoMapper
    /\ UNCHANGED <<history, head, lost, map, gate, said, seen, maps, strays>>
Commit ==
    /\ Len(history) < MaxCommits
    /\ \E f \in Files :
        history' = Append(history, IF f \in Tree THEN Tree \ {f} ELSE Tree \cup {f})
    /\ head' = Len(history')
    /\ UNCHANGED <<lost, map, gate, said, mapper, seen, maps, upsets, strays>>
CheckOut ==
    /\ Upset /\ head' \in (DOMAIN history) \ (lost \cup {head})
    /\ UNCHANGED <<history, lost, map, gate, said, mapper, seen, maps, strays>>
Lose ==
    /\ Upset /\ \E i \in (DOMAIN history) \ {head} : lost' = lost \cup {i}
    /\ UNCHANGED <<history, head, map, gate, said, mapper, seen, maps, strays>>

Next == GateReads \/ GateJudges \/ MapAll \/ Remap \/ MapOnePlace \/ MapperWrites \/ MapperFails
            \/ Commit \/ CheckOut \/ Lose

Spec == Init /\ [][Next]_vars

-----------------------------------------------------------------------------
\* A verdict misses no file that no mapper has looked at and that its map does
\* not cover, across remaps of only the paths it asked for, or of the one path
\* in which files had drifted; unless commits added files while a mapper was at
\* work or before it began, it went by a verdict on another map, somebody mapped
\* one path while files had drifted elsewhere, or the map was replaced between
\* the gate's two readings: the stamp then covers files that nobody looked at
\* (cmdVerifyCodebaseDrift, detectDrift).
GateMissesNothing ==
    strays = {} /\ ~said.skipped =>
        /\ Elements(said.new, said.covers) \subseteq said.elements
        /\ Cardinality(Elements(said.new, said.covers)) >= Threshold => said.required
=============================================================================
