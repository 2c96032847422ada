----------------------------- MODULE Learnings -----------------------------
(***************************************************************************)
(* The knowledge store all projects of a user share: one file for each     *)
(* learning, written after a look for its content hash, copied from a      *)
(* project's LEARNINGS.md with an index made beforehand, pruned by age and *)
(* deleted by id, by processes that take no lock.                          *)
(***************************************************************************)
EXTENDS Integers, FiniteSets, Sequences

CONSTANTS Procs, None,
          Hashes,      \* content hashes: a learning and the project it is from
          Documents,   \* the sections a LEARNINGS.md may have, as hashes
          MaxCalls,    \* bound: commands started
          MaxCrashes   \* bound: commands killed

VARIABLES
    store,     \* the files of the knowledge directory
    process,   \* what each process runs
    promised,  \* hashes a write or a copy reported, as new or as known, and nobody removed since
    issued,    \* ids given out
    calls, crashes,
    overlaps   \* what was done to a hash between another's look and its write

vars == <<store, process, promised, issued, calls, crashes, overlaps>>

Idle == [at |-> "none", todo |-> <<>>, index |-> {}, ids |-> {}, id |-> None, met |-> {}]
Stored == {r.hash : r \in store}
Record(p, h) == [id |-> issued + 1, hash |-> h, old |-> FALSE, by |-> p]

TypeOK ==
    /\ \A r \in store : r.hash \in Hashes /\ r.old \in BOOLEAN
    /\ \A p \in Procs : process[p].at \in {"none", "scan", "write", "index", "copy", "prune", "unlink"}
    /\ promised \subseteq Hashes /\ issued \in Nat
    /\ calls \in 0..MaxCalls /\ crashes \in 0..MaxCrashes
    /\ overlaps \subseteq {"written", "removed"} \X Hashes

Init ==
    /\ store \in {{}, {[id |-> 0, hash |-> CHOOSE h \in Hashes : TRUE, old |-> TRUE, by |-> None]}}
    /\ process = [p \in Procs |-> Idle]
    /\ promised = {} /\ issued = 0 /\ calls = 0 /\ crashes = 0 /\ overlaps = {}

Begin(p, c) ==
    /\ process[p].at = "none" /\ calls < MaxCalls
    /\ calls' = calls + 1
    /\ process' = [process EXCEPT ![p] = c]
    /\ UNCHANGED <<store, promised, issued, crashes, overlaps>>
BeginWrite(p) == \E h \in Hashes : Begin(p, [Idle EXCEPT !.at = "scan", !.todo = <<h>>])
BeginCopy(p) == \E d \in Documents : Begin(p, [Idle EXCEPT !.at = "index", !.todo = d])
BeginPrune(p) == Begin(p, [Idle EXCEPT !.at = "prune", !.ids = {r.id : r \in store}])

Goes(p, c) == process' = [process EXCEPT ![p] = c]
Promise(h) == promised' = promised \cup {h}

\* learningsWrite without an index: the first file with this hash ends it.
Scan(p) ==
    /\ process[p].at = "scan"
    /\ LET h == Head(process[p].todo) IN
       IF h \in Stored THEN Goes(p, Idle) /\ Promise(h)
       ELSE Goes(p, [process[p] EXCEPT !.at = "write", !.met = {}]) /\ UNCHANGED promised
    /\ UNCHANGED <<store, issued, calls, crashes, overlaps>>
Saw(p, c, h) ==
    process' = [q \in Procs |-> IF q = p THEN c
                                ELSE IF process[q].at = "none" THEN process[q]
                                ELSE [process[q] EXCEPT !.met = @ \cup {h}]]
WritesFile(p, h, c) ==
    /\ Saw(p, c, h)
    /\ store' = store \cup {Record(p, h)} /\ issued' = issued + 1
    /\ overlaps' = overlaps \cup (IF h \in process[p].met THEN {<<"written", h>>} ELSE {})
    /\ Promise(h)
WriteOne(p) ==
    /\ process[p].at = "write"
    /\ WritesFile(p, Head(process[p].todo), Idle)
    /\ UNCHANGED <<calls, crashes>>

\* learningsCopyFromProject: the index, and then section by section. What it
\* writes goes into the index as well.
Index(p) ==
    /\ process[p].at = "index"
    /\ Goes(p, [process[p] EXCEPT !.at = "copy", !.index = Stored, !.met = {}])
    /\ UNCHANGED <<store, promised, issued, calls, crashes, overlaps>>
Indexed(c, h) == c.index \cup {h}
AfterSection(c, h) == IF Len(c.todo) = 1 THEN Idle
               ELSE [c EXCEPT !.todo = Tail(@), !.index = Indexed(c, h)]
CopySection(p) ==
    /\ process[p].at = "copy"
    /\ LET c == process[p]
           h == Head(c.todo)
       IN  IF h \in c.index
                THEN /\ Promise(h) /\ Goes(p, AfterSection(c, h))
                     /\ overlaps' = overlaps \cup (IF h \in Stored THEN {} ELSE {<<"removed", h>>})
                     /\ UNCHANGED <<store, issued>>
                ELSE WritesFile(p, h, AfterSection(c, h))
    /\ UNCHANGED <<calls, crashes>>

\* learningsPrune over the files it listed: a file read as old is removed, one
\* that is gone when it is to be removed ends the run.
PruneReads(p) ==
    /\ process[p].at = "prune"
    /\ IF process[p].ids = {} THEN Goes(p, Idle)
       ELSE \E i \in process[p].ids :
            Goes(p, [process[p] EXCEPT !.ids = @ \ {i}, !.id = i,
                       !.at = IF \E r \in store : r.id = i /\ r.old THEN "unlink" ELSE "prune"])
    /\ UNCHANGED <<store, promised, issued, calls, crashes, overlaps>>
Removes(i) ==
    /\ store' = {r \in store : r.id # i}
    /\ promised' = promised \ {r.hash : r \in {s \in store : s.id = i}}
PruneUnlinks(p) ==
    /\ process[p].at = "unlink"
    /\ IF \E r \in store : r.id = process[p].id
         THEN Goes(p, [process[p] EXCEPT !.at = "prune"]) /\ Removes(process[p].id)
         ELSE Goes(p, Idle) /\ UNCHANGED <<store, promised>>
    /\ UNCHANGED <<issued, calls, crashes, overlaps>>

Delete ==
    /\ calls < MaxCalls /\ calls' = calls + 1
    /\ \E r \in store : Removes(r.id)
    /\ UNCHANGED <<process, issued, crashes, overlaps>>

\* Time passes: everything is old.
Age ==
    /\ \E r \in store : ~r.old
    /\ store' = {[r EXCEPT !.old = TRUE] : r \in store}
    /\ UNCHANGED <<process, promised, issued, calls, crashes, overlaps>>

Crash(p) ==
    /\ process[p].at # "none" /\ crashes < MaxCrashes
    /\ crashes' = crashes + 1
    /\ Goes(p, Idle)
    /\ UNCHANGED <<store, promised, issued, calls, overlaps>>

Next ==
    \/ \E p \in Procs :
        \/ BeginWrite(p) \/ BeginCopy(p) \/ BeginPrune(p) \/ Scan(p) \/ WriteOne(p) \/ Index(p)
        \/ CopySection(p) \/ PruneReads(p) \/ PruneUnlinks(p) \/ Crash(p)
    \/ Delete \/ Age

Spec == Init /\ [][Next]_vars

-----------------------------------------------------------------------------
(* Properties. *)

\* A learning is stored once, also one a document has twice or an earlier copy
\* that was killed has stored; one that two processes had looked for before
\* either wrote it is stored by each of them, and by none of them twice.
StoredOnce ==
    \A r, s \in store : r.hash = s.hash /\ r # s =>
        r.by # s.by /\ <<"written", r.hash>> \in overlaps

\* What a write or a copy reports, as stored or as known, is in the store
\* until it is removed; a copy may report one that was removed after it made
\* its index.
ReportedIsStored == \A h \in promised : h \in Stored \/ <<"removed", h>> \in overlaps
=============================================================================
