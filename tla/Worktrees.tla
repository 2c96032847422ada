------------------------------ MODULE Worktrees ------------------------------
(***************************************************************************)
(* The git worktrees of a wave of executor agents (worktree-safety.cjs):   *)
(* `worktree cleanup-wave` merges and removes those its manifest names,    *)
(* `worktree reap-orphans` removes those whose owner died, and git prunes  *)
(* the records of those whose directory is gone, while agents still write. *)
(*                                                                         *)
(* All branches fork from one commit, the expected base of the manifest.   *)
(* An agent makes at most one change and one deletion, uncommitted at      *)
(* first, and a SUMMARY file that it never commits, in several versions.   *)
(***************************************************************************)
EXTENDS Integers, Sequences, FiniteSets

CONSTANTS
    Agents,
    Manifest,       \* the order in which the manifest names them
    MaxDrafts,      \* bound: versions of a SUMMARY
    MaxCleanups,    \* bound: runs of cleanup-wave
    MaxSlips        \* bound: git commands and copies that fail, and owners that die

WorktreeConstants ==
    /\ Manifest \in Seq(Agents) /\ Len(Manifest) > 0
    /\ MaxDrafts \in Nat /\ MaxCleanups \in Nat /\ MaxSlips \in Nat

VARIABLES
    trunk,      \* the commits on the orchestrator's branch, named <<agent, what>>
    merging,    \* whether a merge failed there and was not resolved
    rescued,    \* the version of each agent's SUMMARY in the main tree
    branch,     \* the branches that exist: agent to what was committed on it
    tree,       \* each agent's worktree
    cleanup,    \* what cleanup-wave is doing
    reaper,     \* what reap-orphans is doing
    cleanups, slips,
    made,       \* history: the agents that made their change
    settled,    \* history: the agents a cleanup merged and removed
    losses      \* history: what went wrong so far, of Losses
worktreeVars == <<trunk, merging, rescued, branch, tree, cleanup, reaper, cleanups, slips,
                  made, settled, losses>>

Whats == {"change", "deletion"}
Tree == [at : {"there", "missing", "gone"}, dirty : SUBSET Whats, draft : 0..MaxDrafts,
         locked : {"no", "fresh", "old"}, alive : BOOLEAN]

Asleep == [pc |-> "idle", at |-> 0, kept |-> FALSE, entry |-> "none", reason |-> "none"]
NoReaper == [pc |-> "idle", tip |-> {}, agent |-> "none"]

Init ==
    /\ trunk = {} /\ merging = FALSE
    /\ rescued = [a \in Agents |-> 0]
    /\ branch = [a \in Agents |-> {}]
    /\ tree = [a \in Agents |-> [at |-> "there", dirty |-> {}, draft |-> 0, locked |-> "fresh", alive |-> TRUE]]
    /\ cleanup = Asleep /\ reaper = NoReaper
    /\ cleanups = 0 /\ slips = 0
    /\ made = {} /\ settled = {} /\ losses = {}

Entry == Manifest[cleanup.at]
Running == cleanup.pc # "idle"

(* A step of an agent the cleanup has looked at already. *)
Late(a, what) ==
    /\ Running /\ Entry = a
    /\ cleanup.pc \in {"merge", "remove", "delete"} \cup (IF what = "summary" THEN {"status"} ELSE {})
Notes(a, what) == losses' = losses \cup (IF Late(a, what) THEN {"late"} ELSE {})

-----------------------------------------------------------------------------
(* The agents. *)

Writes(a, what) ==
    /\ tree[a].at = "there" /\ tree[a].alive
    /\ what \notin tree[a].dirty /\ a \in DOMAIN branch /\ what \notin branch[a]
    /\ tree' = [tree EXCEPT ![a].dirty = @ \cup {what}]
    /\ made' = IF what = "change" THEN made \cup {a} ELSE made
    /\ Notes(a, what)
    /\ UNCHANGED <<trunk, merging, rescued, branch, cleanup, reaper, cleanups, slips, settled>>

Commits(a) ==
    /\ tree[a].at = "there" /\ tree[a].alive /\ tree[a].dirty # {} /\ a \in DOMAIN branch
    /\ branch' = [branch EXCEPT ![a] = @ \cup tree[a].dirty]
    /\ tree' = [tree EXCEPT ![a].dirty = {}]
    /\ Notes(a, "change")
    /\ UNCHANGED <<trunk, merging, rescued, cleanup, reaper, cleanups, slips, made, settled>>

Summarises(a) ==
    /\ tree[a].at = "there" /\ tree[a].alive /\ tree[a].draft < MaxDrafts
    /\ tree' = [tree EXCEPT ![a].draft = @ + 1]
    /\ Notes(a, "summary")
    /\ UNCHANGED <<trunk, merging, rescued, branch, cleanup, reaper, cleanups, slips, made, settled>>

Dies(a) ==
    /\ tree[a].alive /\ slips < MaxSlips
    /\ slips' = slips + 1
    /\ tree' = [tree EXCEPT ![a].alive = FALSE]
    /\ UNCHANGED <<trunk, merging, rescued, branch, cleanup, reaper, cleanups, made, settled, losses>>

\* Only the reaper minds the age of a lock, and only of a dead owner's.
Ages(a) ==
    /\ tree[a].locked = "fresh" /\ ~tree[a].alive
    /\ tree' = [tree EXCEPT ![a].locked = "old"]
    /\ UNCHANGED <<trunk, merging, rescued, branch, cleanup, reaper, cleanups, slips, made, settled, losses>>

-----------------------------------------------------------------------------
(* worktree cleanup-wave: one git command or copy after the other; the     *)
(* first entry that is refused ends the run.                               *)

Turns(pc) == cleanup' = [cleanup EXCEPT !.pc = pc]
Blocks(reason) == cleanup' = [Asleep EXCEPT !.entry = Entry, !.reason = reason]
\* Mutant: the last entry is not noticed.
NextEntryPast(reason) ==
    cleanup' = [cleanup EXCEPT !.pc = "verify", !.at = @ + 1, !.kept = FALSE, !.reason = reason]

NextEntry(reason) ==
    cleanup' = IF cleanup.at = Len(Manifest) THEN [Asleep EXCEPT !.reason = reason]
               ELSE [cleanup EXCEPT !.pc = "verify", !.at = @ + 1, !.kept = FALSE, !.reason = reason]
Slips == slips < MaxSlips /\ slips' = slips + 1
Untouched == <<reaper, cleanups, made>>

Cleans ==
    /\ ~Running /\ cleanups < MaxCleanups
    /\ cleanups' = cleanups + 1
    /\ cleanup' = [Asleep EXCEPT !.pc = "verify", !.at = 1, !.reason = "ok"]
    /\ UNCHANGED <<trunk, merging, rescued, branch, tree, reaper, slips, made, settled, losses>>

\* The worktree is on its branch, and the branch is not merged at all.
Verify ==
    /\ cleanup.pc = "verify"
    /\ IF tree[Entry].at # "there" \/ Entry \notin DOMAIN branch THEN Blocks("branch_mismatch")
       ELSE IF \E w \in Whats : <<Entry, w>> \in trunk THEN Blocks("base_mismatch")
       ELSE Turns("deletions")
    /\ UNCHANGED <<Untouched, trunk, merging, rescued, branch, tree, slips, settled, losses>>

CheckDeletions ==
    /\ cleanup.pc = "deletions"
    /\ IF "deletion" \in branch[Entry] THEN Blocks("branch_contains_deletions") ELSE Turns("rescue")
    /\ UNCHANGED <<Untouched, trunk, merging, rescued, branch, tree, slips, settled, losses>>

Rescue ==
    /\ cleanup.pc = "rescue"
    /\ \/ /\ rescued' = IF tree[Entry].at = "there" /\ tree[Entry].draft > 0
                        THEN [rescued EXCEPT ![Entry] = tree[Entry].draft] ELSE rescued
          /\ cleanup' = [cleanup EXCEPT !.pc = "status",
                           !.kept = tree[Entry].at = "there" /\ tree[Entry].draft > 0]
          /\ UNCHANGED slips
       \/ /\ tree[Entry].draft > 0 /\ Slips
          /\ Blocks("summary_rescue_failed") /\ UNCHANGED rescued
    /\ UNCHANGED <<Untouched, trunk, merging, branch, tree, settled, losses>>

\* What was rescued does not count as dirty.
CheckStatus ==
    LET t == tree[Entry] IN
    /\ cleanup.pc = "status"
    /\ IF t.at = "there" /\ t.dirty = {} /\ (t.draft > 0 => cleanup.kept)
       THEN Turns("merge") ELSE Blocks("worktree_dirty")
    /\ UNCHANGED <<Untouched, trunk, merging, rescued, branch, tree, slips, settled, losses>>

\* Mutant: the outcome of the merge is not looked at.
MergeUnchecked ==
    /\ cleanup.pc = "merge"
    /\ \/ /\ ~merging
          /\ trunk' = trunk \cup ({Entry} \X branch[Entry])
          /\ UNCHANGED <<merging, slips>>
       \/ /\ merging \/ branch[Entry] # {}
          /\ IF merging THEN UNCHANGED slips ELSE Slips
          /\ merging' = TRUE
          /\ UNCHANGED trunk
    /\ Turns("remove")
    /\ UNCHANGED <<Untouched, rescued, branch, tree, settled, losses>>

\* A merge that conflicts is left as it is, and no other can begin.
Merge ==
    /\ cleanup.pc = "merge"
    /\ \/ /\ ~merging
          /\ trunk' = trunk \cup ({Entry} \X branch[Entry])
          /\ Turns("remove") /\ UNCHANGED <<merging, slips>>
       \/ /\ merging \/ branch[Entry] # {}
          /\ IF merging THEN UNCHANGED slips ELSE Slips
          /\ merging' = TRUE
          /\ Blocks("merge_failed") /\ UNCHANGED trunk
    /\ UNCHANGED <<Untouched, rescued, branch, tree, settled, losses>>

\* Forced, and unlocked if that is what it takes.
Remove ==
    /\ cleanup.pc = "remove"
    /\ \/ /\ tree[Entry].at # "gone"
          /\ tree' = [tree EXCEPT ![Entry].at = "gone", ![Entry].locked = "no"]
          /\ Turns("delete") /\ UNCHANGED slips
       \/ /\ IF tree[Entry].at = "gone" THEN UNCHANGED slips ELSE Slips
          /\ tree' = [tree EXCEPT ![Entry].locked = "no"]
          /\ Blocks("worktree_remove_failed")
    /\ UNCHANGED <<Untouched, trunk, merging, rescued, branch, settled, losses>>

\* A branch that cannot be deleted is a warning.
DeleteBranch ==
    /\ cleanup.pc = "delete"
    /\ \/ /\ branch' = [a \in DOMAIN branch \ {Entry} |-> branch[a]]
          /\ settled' = settled \cup {Entry} /\ NextEntry(cleanup.reason) /\ UNCHANGED slips
       \/ /\ Slips /\ NextEntry("branch_delete_failed") /\ UNCHANGED <<branch, settled>>
    /\ UNCHANGED <<Untouched, trunk, merging, rescued, tree, losses>>

\* Whoever reads the report puts the entry in order: the workflow's advice.
Resolves ==
    LET a == cleanup.entry IN
    /\ ~Running /\ a \in Agents /\ cleanup' = Asleep
    /\ merging' = FALSE
    /\ IF a \in DOMAIN branch
       THEN /\ branch' = [branch EXCEPT ![a] = (@ \cup tree[a].dirty) \ {"deletion"}]
            /\ tree' = [tree EXCEPT ![a].dirty = {}]
       ELSE UNCHANGED <<branch, tree>>
    /\ UNCHANGED <<trunk, rescued, reaper, cleanups, slips, made, settled, losses>>

-----------------------------------------------------------------------------
(* worktree reap-orphans.  The tip of the default branch is read once; a    *)
(* worktree is judged by its lock, its owner and its branch, then removed.  *)

Reaps ==
    /\ reaper.pc = "idle"
    /\ reaper' = [NoReaper EXCEPT !.pc = "judge", !.tip = trunk]
    /\ UNCHANGED <<trunk, merging, rescued, branch, tree, cleanup, cleanups, slips, made, settled, losses>>

\* A record that is locked, whether or not its directory is still there.
Orphan(a) ==
    /\ tree[a].at # "gone" /\ tree[a].locked = "old" /\ ~tree[a].alive
    /\ a \in DOMAIN branch /\ {a} \X branch[a] \subseteq reaper.tip

Judge ==
    /\ reaper.pc = "judge"
    /\ \E a \in Agents : Orphan(a) /\ reaper' = [reaper EXCEPT !.pc = "reap", !.agent = a]
    /\ UNCHANGED <<trunk, merging, rescued, branch, tree, cleanup, cleanups, slips, made, settled, losses>>

\* Unlocked, then removed by force if git can: what was not committed goes too.
Reap ==
    LET a == reaper.agent
        unsaved == tree[a].at = "there" /\ (tree[a].dirty # {} \/ tree[a].draft # rescued[a])
    IN  /\ reaper.pc = "reap"
        /\ reaper' = [reaper EXCEPT !.pc = "judge", !.agent = "none"]
        /\ \/ /\ tree' = [tree EXCEPT ![a].at = "gone", ![a].locked = "no"]
              /\ losses' = losses \cup (IF unsaved THEN {"reaped"} ELSE {}) /\ UNCHANGED slips
           \/ Slips /\ tree' = [tree EXCEPT ![a].locked = "no"] /\ UNCHANGED losses
        /\ UNCHANGED <<trunk, merging, rescued, branch, cleanup, cleanups, made, settled>>

(* Somebody deletes a directory, and git prunes what is not locked: at the  *)
(* end of the reaper and whenever a command looks after the worktrees.      *)
Vanishes(a) ==
    /\ tree[a].at = "there" /\ ~tree[a].alive /\ slips < MaxSlips
    /\ slips' = slips + 1
    /\ tree' = [tree EXCEPT ![a].at = "missing"]
    /\ losses' = losses \cup (IF tree[a].dirty # {} \/ tree[a].draft # rescued[a] THEN {"vanished"} ELSE {})
    /\ UNCHANGED <<trunk, merging, rescued, branch, cleanup, reaper, cleanups, made, settled>>

Pruned == [a \in Agents |-> IF tree[a].at = "missing" /\ tree[a].locked = "no"
                            THEN [tree[a] EXCEPT !.at = "gone"] ELSE tree[a]]

ReaperEnds ==
    /\ reaper.pc = "judge" /\ \A a \in Agents : ~Orphan(a)
    /\ reaper' = NoReaper /\ tree' = Pruned
    /\ UNCHANGED <<trunk, merging, rescued, branch, cleanup, cleanups, slips, made, settled, losses>>

Prune ==
    /\ Pruned # tree /\ tree' = Pruned
    /\ UNCHANGED <<trunk, merging, rescued, branch, cleanup, reaper, cleanups, slips, made, settled, losses>>

Next ==
    \/ \E a \in Agents :
        \/ \E what \in Whats : Writes(a, what)
        \/ Commits(a) \/ Summarises(a) \/ Dies(a) \/ Ages(a) \/ Vanishes(a)
    \/ Cleans \/ Verify \/ CheckDeletions \/ Rescue \/ CheckStatus \/ Merge \/ Remove \/ DeleteBranch
    \/ Resolves
    \/ Reaps \/ Judge \/ Reap \/ ReaperEnds \/ Prune

Spec == Init /\ [][Next]_worktreeVars

-----------------------------------------------------------------------------
(* Properties. *)

Losses == {"late", "reaped", "vanished"}
Reasons == {"none", "ok", "branch_mismatch", "base_mismatch", "branch_contains_deletions",
            "summary_rescue_failed", "worktree_dirty", "merge_failed", "worktree_remove_failed",
            "branch_delete_failed"}
TypeOK ==
    /\ trunk \subseteq Agents \X Whats /\ merging \in BOOLEAN
    /\ rescued \in [Agents -> 0..MaxDrafts]
    /\ DOMAIN branch \subseteq Agents /\ \A a \in DOMAIN branch : branch[a] \subseteq Whats
    /\ tree \in [Agents -> Tree]
    /\ cleanup.pc \in {"idle", "verify", "deletions", "rescue", "status", "merge", "remove", "delete"}
    /\ cleanup.reason \in Reasons /\ cleanup.at \in 0..Len(Manifest)
    /\ reaper.pc \in {"idle", "judge", "reap"} /\ reaper.tip \subseteq trunk
    /\ cleanups \in 0..MaxCleanups /\ slips \in 0..MaxSlips /\ losses \subseteq Losses

Kept(a) == \/ <<a, "change">> \in trunk
           \/ a \in DOMAIN branch /\ "change" \in branch[a]
           \/ tree[a].at = "there" /\ "change" \in tree[a].dirty

(* Whatever an agent made is on the trunk, on its branch or still in its   *)
(* worktree, and its last SUMMARY is in the main tree or in the worktree,  *)
(* whatever command failed and however often cleanup and reaper ran,       *)
(* unless the agent went on after the cleanup had looked, the reaper took  *)
(* an orphan with work in it, or somebody deleted the directory.           *)
WorkSurvives ==
    losses = {} => \A a \in Agents :
        /\ a \in made => Kept(a)
        /\ tree[a].at = "there" \/ rescued[a] = tree[a].draft

=============================================================================
