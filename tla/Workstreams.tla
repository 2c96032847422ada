---------------------------- MODULE Workstreams ----------------------------
(***************************************************************************)
(* .planning/workstreams: the directories of the parallel workstreams, the *)
(* flat layout they are migrated from, their archives under milestones/    *)
(* and the pointer each session keeps to its active workstream             *)
(* (workstream.cjs, active-workstream-store.cjs).  Nothing here takes a    *)
(* lock.  A file is named by its kind and by the command that made it; the *)
(* archives of a day are told apart by a suffix.                           *)
(***************************************************************************)
EXTENDS Integers, FiniteSets, Sequences, FiniteSetsExt, Functions

CONSTANTS
    Shells,         \* processes, each with a session key of its own
    Names,          \* workstream names
    Migrated,       \* the name the flat layout is migrated to
    None,
    MaxCalls,       \* bound: commands issued in a behaviour
    MaxFailures     \* bound: crashes and renames that fail

WorkstreamConstants ==
    /\ Migrated \in Names /\ None \notin Names
    /\ MaxCalls \in Nat /\ MaxFailures \in Nat

Kinds == {"ROADMAP", "STATE"}
File == [kind : Kinds, by : 0..MaxCalls]

VARIABLES
    flat,       \* the files of the flat layout
    root,       \* whether .planning/workstreams exists
    streams,    \* the directories in it: a function from names to sets of files
    archives,   \* milestones/ws-<name>-<day>-<suffix>: <<name, suffix>> to sets of files
    pointers,   \* the active workstream a session has stored
    call,       \* what each process is doing
    calls, failures,
    files,      \* history: every file made so far
    lapses      \* history: what went wrong so far, of Lapses
streamVars == <<flat, root, streams, archives, pointers, call, calls, failures, files, lapses>>

Free == [pc |-> "idle", op |-> "none", name |-> None, id |-> 0, home |-> None, todo |-> {},
         moved |-> <<>>, active |-> FALSE]

Init ==
    /\ files = [kind : Kinds, by : {0}]
    /\ \/ flat = files /\ root = FALSE /\ streams = << >>
       \/ flat = {} /\ root = TRUE /\ streams = [n \in {Migrated} |-> files]
    /\ archives = << >>
    /\ pointers = [p \in Shells |-> IF root THEN Migrated ELSE None]
    /\ call = [p \in Shells |-> Free]
    /\ calls = 0 /\ failures = 0 /\ lapses = {}

Put(p, c) == call' = [call EXCEPT ![p] = c]
Goes(p, pc) == Put(p, [call[p] EXCEPT !.pc = pc])
Made(dirs, d) == [e \in DOMAIN dirs \cup {d} |-> IF e \in DOMAIN dirs THEN dirs[e] ELSE {}]
Dropped(dirs, d) == Restrict(dirs, DOMAIN dirs \ {d})

\* getActiveWorkstream: a pointer to a directory that is gone is cleared.
Active(p) == IF pointers[p] \in DOMAIN streams THEN pointers[p] ELSE None
Healed(p) == [pointers EXCEPT ![p] = Active(p)]

(* The pointer is written after its directory has been made, if need be. *)
SetPointer(p, n, dirs) ==
    /\ root' = TRUE /\ streams' = Made(dirs, n)
    /\ pointers' = [pointers EXCEPT ![p] = n]

-----------------------------------------------------------------------------
Begin(p, op, n) ==
    /\ call[p].pc = "idle" /\ calls < MaxCalls
    /\ calls' = calls + 1
    /\ lapses' = lapses \cup (IF \E q \in Shells : call[q].pc # "idle" THEN {"overlap"} ELSE {})
    /\ Put(p, [Free EXCEPT !.op = op, !.name = n, !.id = calls + 1, !.pc = op])

(* create: refused when the directory has a STATE.md; a flat layout with   *)
(* files in it is migrated first, unless told not to.                      *)
Create(p) ==
    /\ \E n \in Names, migrate \in BOOLEAN :
        /\ n \in DOMAIN streams => \A f \in streams[n] : f.kind # "STATE"
        /\ Begin(p, IF ~root /\ flat # {} /\ migrate THEN "migrate" ELSE "make", n)
    /\ UNCHANGED <<flat, root, streams, archives, pointers, failures, files>>

MigrationBegins(p) ==
    /\ call[p].pc = "migrate"
    /\ IF root THEN Put(p, Free) /\ UNCHANGED <<root, streams>>
       ELSE /\ root' = TRUE /\ streams' = Made(streams, Migrated)
            /\ Put(p, [call[p] EXCEPT !.pc = "move", !.home = Migrated, !.todo = flat])
    /\ UNCHANGED <<flat, archives, pointers, calls, failures, files, lapses>>

MakeDir(p) ==
    /\ call[p].pc = "make"
    /\ root' = TRUE /\ streams' = Made(streams, call[p].name)
    /\ Goes(p, "state")
    /\ UNCHANGED <<flat, archives, pointers, calls, failures, files, lapses>>

\* STATE.md is written unless there is one; then the pointer.
WriteState(p) ==
    LET c == call[p]
        new == [kind |-> "STATE", by |-> c.id]
        have == c.name \in DOMAIN streams /\ \E f \in streams[c.name] : f.kind = "STATE"
    IN  /\ c.pc = "state"
        /\ files' = IF have THEN files ELSE files \cup {new}
        /\ SetPointer(p, c.name, IF have THEN streams
                                 ELSE [Made(streams, c.name) EXCEPT ![c.name] = @ \cup {new}])
        /\ Put(p, Free)
        /\ UNCHANGED <<flat, archives, calls, failures, lapses>>

-----------------------------------------------------------------------------
(* complete: the pointer is cleared, an archive directory is chosen and    *)
(* made, and every file found is moved to it.                              *)

DaySuffixes == 0..MaxCalls
FreeArchive(n) == <<n, Min({k \in DaySuffixes : <<n, k>> \notin DOMAIN archives})>>

Complete(p) ==
    /\ \E n \in DOMAIN streams :
        Begin(p, "complete", n)
    /\ UNCHANGED <<flat, root, streams, archives, pointers, failures, files>>

ChooseArchive(p) ==
    LET c == call[p] IN
    /\ c.pc = "complete"
    /\ pointers' = IF Active(p) = c.name THEN [pointers EXCEPT ![p] = None] ELSE Healed(p)
    /\ Put(p, [c EXCEPT !.pc = "archive", !.home = FreeArchive(c.name), !.active = Active(p) = c.name])
    /\ UNCHANGED <<flat, root, streams, archives, calls, failures, files, lapses>>

MakeArchive(p) ==
    LET c == call[p] IN
    /\ c.pc = "archive"
    /\ archives' = Made(archives, c.home)
    /\ Put(p, IF c.name \in DOMAIN streams THEN [c EXCEPT !.pc = "move", !.todo = streams[c.name]]
              ELSE [c EXCEPT !.pc = "undo"])
    /\ UNCHANGED <<flat, root, streams, pointers, calls, failures, files, lapses>>

-----------------------------------------------------------------------------
(* Moving files, one rename at a time; a migration moves them from the     *)
(* flat layout into a workstream, complete from a workstream to an archive. *)

Migrating(c) == c.op = "migrate"
Source(c) == IF Migrating(c) THEN flat ELSE IF c.name \in DOMAIN streams THEN streams[c.name] ELSE {}
\* A renamed file replaces the one of its name.
Over(dir, f) == {g \in dir : g.kind # f.kind} \cup {f}
Into(c, f) == IF Migrating(c) THEN [streams EXCEPT ![c.home] = Over(@, f)]
              ELSE [archives EXCEPT ![c.home] = Over(@, f)]
Ready(c) == c.home \in IF Migrating(c) THEN DOMAIN streams ELSE DOMAIN archives

Move(p) ==
    LET c == call[p] IN
    /\ c.pc = "move"
    /\ \E f \in c.todo :
        IF f \in Source(c) /\ Ready(c)
        THEN /\ IF Migrating(c) THEN /\ flat' = flat \ {f} /\ streams' = Into(c, f)
                                     /\ UNCHANGED archives
                ELSE /\ streams' = [streams EXCEPT ![c.name] = @ \ {f}] /\ archives' = Into(c, f)
                     /\ UNCHANGED flat
             /\ Put(p, [c EXCEPT !.todo = @ \ {f}, !.moved = Append(@, f)])
        ELSE /\ IF Migrating(c) /\ f \notin flat THEN Put(p, [c EXCEPT !.todo = @ \ {f}])
                ELSE Goes(p, "undo")
             /\ UNCHANGED <<flat, streams, archives>>
    /\ UNCHANGED <<root, pointers, calls, failures, files, lapses>>

MoveFails(p) ==
    /\ call[p].pc = "move" /\ call[p].todo # {} /\ failures < MaxFailures
    /\ failures' = failures + 1
    /\ Goes(p, "undo")
    /\ UNCHANGED <<flat, root, streams, archives, pointers, calls, files, lapses>>

\* Back again, oldest first; a rename that fails is passed over.
Undo(p) ==
    LET c == call[p]
        f == Head(c.moved)
        there == Ready(c) /\ f \in (IF Migrating(c) THEN streams[c.home] ELSE archives[c.home])
        back == Migrating(c) \/ c.name \in DOMAIN streams
    IN  /\ c.pc = "undo" /\ c.moved # <<>>
        /\ Put(p, [c EXCEPT !.moved = Tail(@)])
        /\ \/ /\ IF ~there \/ ~back THEN UNCHANGED <<flat, streams, archives>>
                 ELSE IF Migrating(c)
                 THEN /\ flat' = Over(flat, f)
                      /\ streams' = [streams EXCEPT ![c.home] = @ \ {f}] /\ UNCHANGED archives
                 ELSE /\ streams' = [streams EXCEPT ![c.name] = Over(@, f)]
                      /\ archives' = [archives EXCEPT ![c.home] = @ \ {f}] /\ UNCHANGED flat
              /\ UNCHANGED <<failures, lapses>>
           \/ /\ failures < MaxFailures /\ failures' = failures + 1
              /\ lapses' = lapses \cup {"undo"}
              /\ UNCHANGED <<flat, streams, archives>>
        /\ UNCHANGED <<root, pointers, calls, files>>

\* Mutant: the rollback removes the directory before the files are back.
UndoneAtOnce(p) ==
    LET c == call[p] IN
    /\ c.pc = "undo"
    /\ IF Migrating(c)
       THEN /\ streams' = Dropped(streams, c.home)
            /\ root' = (DOMAIN streams' # {})
            /\ UNCHANGED <<archives, pointers>>
       ELSE /\ archives' = Dropped(archives, c.home)
            /\ IF c.active THEN SetPointer(p, c.name, streams)
               ELSE UNCHANGED <<root, streams, pointers>>
    /\ Put(p, Free)
    /\ UNCHANGED <<flat, calls, failures, files, lapses>>

\* The directory is removed with all that is in it, and the pointer put back.
Undone(p) ==
    LET c == call[p] IN
    /\ c.pc = "undo" /\ c.moved = <<>>
    /\ IF Migrating(c)
       THEN /\ streams' = Dropped(streams, c.home)
            /\ root' = (DOMAIN streams' # {})
            /\ UNCHANGED <<archives, pointers>>
       ELSE /\ archives' = Dropped(archives, c.home)
            /\ IF c.active THEN SetPointer(p, c.name, streams)
               ELSE UNCHANGED <<root, streams, pointers>>
    /\ Put(p, Free)
    /\ UNCHANGED <<flat, calls, failures, files, lapses>>

Moved(p) ==
    /\ call[p].pc = "move" /\ call[p].todo = {}
    /\ Goes(p, IF Migrating(call[p]) THEN "make" ELSE "clean")
    /\ UNCHANGED <<flat, root, streams, archives, pointers, calls, failures, files, lapses>>

\* rmdir leaves what is not empty.
CleanUp(p) ==
    LET n == call[p].name
        empty == n \in DOMAIN streams /\ streams[n] = {}
    IN  /\ call[p].pc = "clean"
        /\ streams' = IF empty THEN Dropped(streams, n) ELSE streams
        /\ root' = (root /\ DOMAIN streams' # {})
        /\ Put(p, Free)
        /\ UNCHANGED <<flat, archives, pointers, calls, failures, files, lapses>>

-----------------------------------------------------------------------------
(* set looks for the directory and then makes sure it is there; set --clear *)
(* forgets it; every other command reads the pointer and may clear it.      *)

Switch(p) ==
    /\ \E n \in DOMAIN streams : Begin(p, "set", n)
    /\ UNCHANGED <<flat, root, streams, archives, pointers, failures, files>>

Point(p) ==
    /\ call[p].pc = "set"
    /\ SetPointer(p, call[p].name, streams)
    /\ Put(p, Free)
    /\ UNCHANGED <<flat, archives, calls, failures, files, lapses>>

Forget(p) ==
    /\ call[p].pc = "idle" /\ pointers[p] # None
    /\ pointers' = [pointers EXCEPT ![p] = None]
    /\ UNCHANGED <<flat, root, streams, archives, call, calls, failures, files, lapses>>

Consult(p) ==
    /\ call[p].pc = "idle" /\ Healed(p) # pointers
    /\ pointers' = Healed(p)
    /\ UNCHANGED <<flat, root, streams, archives, call, calls, failures, files, lapses>>

Crash(p) ==
    /\ call[p].pc # "idle" /\ failures < MaxFailures
    /\ failures' = failures + 1
    /\ Put(p, Free)
    /\ UNCHANGED <<flat, root, streams, archives, pointers, calls, files, lapses>>

Next ==
    \E p \in Shells :
        \/ Create(p) \/ MigrationBegins(p) \/ MakeDir(p) \/ WriteState(p)
        \/ Complete(p) \/ ChooseArchive(p) \/ MakeArchive(p)
        \/ Move(p) \/ MoveFails(p) \/ Undo(p) \/ Undone(p) \/ Moved(p) \/ CleanUp(p)
        \/ Switch(p) \/ Point(p) \/ Forget(p) \/ Consult(p) \/ Crash(p)

Spec == Init /\ [][Next]_streamVars

-----------------------------------------------------------------------------
(* Properties. *)

Lapses == {"overlap", "undo"}
Held == flat \cup (UNION Range(streams)) \cup (UNION Range(archives))

TypeOK ==
    /\ flat \subseteq File /\ files \subseteq File /\ root \in BOOLEAN
    /\ DOMAIN streams \subseteq Names /\ Range(streams) \subseteq SUBSET File
    /\ DOMAIN archives \subseteq Names \X DaySuffixes /\ Range(archives) \subseteq SUBSET File
    /\ pointers \in [Shells -> Names \cup {None}]
    /\ \A p \in Shells : call[p].pc \in {"idle", "migrate", "make", "state", "complete", "archive",
                                          "move", "undo", "clean", "set"}
    /\ calls \in 0..MaxCalls /\ failures \in 0..MaxFailures /\ lapses \subseteq Lapses

(* No migration and no completion loses a file, whatever rename fails and  *)
(* wherever the process is killed, unless two commands overlapped or the   *)
(* rollback itself failed.                                                 *)
FilesSurvive == lapses = {} => files = Held

=============================================================================
