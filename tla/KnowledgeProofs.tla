-------------------------- MODULE KnowledgeProofs --------------------------
(***************************************************************************)
(* Proofs about what the tools know of a project, for any commits, files   *)
(* and documents, any processes and any number of crashes: its settings,   *)
(* what a runtime shows, learnings, the graph, the intel files and the     *)
(* codebase map, one after the other.                                      *)
(***************************************************************************)
EXTENDS KnowledgeTools, FiniteSetTheorems, WellFoundedInduction, TLAPS

-----------------------------------------------------------------------------
(***************************************************************************)
(* .planning/config.json: a process that is between reading and writing    *)
(* either has the lock or writes what follows from the file as it is;      *)
(* otherwise the run has an excuse, and the settings asked for are those   *)
(* that are found.                                                         *)
(***************************************************************************)
\* The part's variables, by their names in ProjectConfig.
config == v1        \* file
locked == v2
repos == v3
cmd == v4
last == v7
allowed == v8       \* its excuse

CmdFields == {"at", "place", "key", "value", "text", "raced"}
SettingKeys == {"granularity", "git.branching_strategy", "planning.commit_docs", "model_profile"}
Whole == {f \in PC!Files : f["depth"] \in {None} \cup DOMAIN PC!Granularity}
Writing == {"create", "write", "save", "truncate", "rewrite"}

\* A command knows what it is to write before it comes to its writing.
Prepared(c) ==
    /\ DOMAIN c = CmdFields /\ c.place \in PC!Places
    /\ c.at \in Writing \cup {"save-root"} \/ (c.at = "look" /\ c.key = None) => c.text \in Whole
    /\ c.at \in {"lock", "read", "write"} \/ (c.at \in {"look", "create"} /\ c.key # None) =>
          <<c.key, c.value>> \in PC!Choices

SettingShapes ==
    /\ DOMAIN config = PC!Places /\ \A s \in PC!Places : config[s] \in Whole \cup {Missing, Torn}
    /\ DOMAIN locked = PC!Places /\ repos \in SUBSET PC!Repositories
    /\ DOMAIN cmd = Procs /\ \A p \in Procs : Prepared(cmd[p])
    /\ DOMAIN last = PC!Places \X PC!Keys
    /\ \A s \in PC!Places, k \in PC!Keys : last[<<s, k>>] # None => k \in SettingKeys

Good == allowed \subseteq {"multirepo"}

\* Between reading and writing a config-set has the lock.
SettersLock ==
    Good => \A p \in Procs : cmd[p].at \in {"read", "write"} => locked[cmd[p].place] = p

\* A migration that emptied a config is to write what others have written since.
Doomed(s) == \E q \in Procs : cmd[q].at = "rewrite" /\ cmd[q].place = s /\ cmd[q].raced

\* The settings of a place that a config is to have, as far as they hold.
Matches(stored, excuses, s, f) ==
    \A k \in PC!Keys :
        stored[<<s, k>>] # None /\ (k = "planning.commit_docs" => excuses = {}) => f[k] = stored[<<s, k>>]

\* Unless somebody wrote since, what a command is to write follows from what
\* the files have now.
Derived(c, files, found) ==
    LET f == files[c.place]
        root == files["root"]
    IN  /\ c.at = "create" => f = Missing
        /\ c.at = "write" =>
              /\ f \in Whole \cup {Missing}
              /\ c.text = PC!With(IF f = Missing THEN PC!Empty ELSE f, c.key, c.value)
        /\ c.at = "save-root" => root \in Whole /\ \E r \in {{}, found} : c.text = PC!Detected(root, r)
        /\ c.at = "save" => f \in Whole /\ \E r \in {{}, found} : c.text = PC!WrittenBack(f, r)
        /\ c.at = "truncate" => f \in Whole /\ \E r \in {{}, found} : c.text = PC!Migrated(f, r)
Follows(p) ==
    /\ Derived(cmd[p], config, repos)
    /\ cmd[p].at = "rewrite" =>
          /\ config[cmd[p].place] = Torn
          /\ ~Doomed(cmd[p].place) => Matches(last, allowed, cmd[p].place, cmd[p].text)

WritesFollow == Good => \A p \in Procs : cmd[p].raced \/ Follows(p)

SettingsInv == SettingShapes /\ SettersLock /\ WritesFollow /\ PC!SettingSurvives

-----------------------------------------------------------------------------
(* What rewriting does to a config, key by key. *)

LEMMA ConfigFacts ==
    /\ None \notin Procs /\ \A t \in PC!Texts : None # t
    /\ \A r \in SUBSET PC!Repositories : None # r
    /\ \A f \in Whole : f # Missing /\ f # Torn /\ PC!IsFile(f)
BY KnowledgeConstants DEF PC!ConfigConstants, Whole, PC!IsFile

LEMMA KeysOf ==
    ASSUME NEW f \in Whole
    PROVE  /\ DOMAIN f = PC!Keys /\ \A k \in PC!Keys : f[k] \in {None} \cup PC!Texts \cup SUBSET PC!Repositories
           /\ f["depth"] \in {None, "quick", "comprehensive"}
BY DEF Whole, PC!Files, PC!Granularity, PC!Keys

Rest == {"depth", "granularity", "branching_strategy", "git.branching_strategy", "sub_repos",
         "planning.sub_repos", "multiRepo"}

LEMMA Normalized ==
    ASSUME NEW f \in Whole
    PROVE  LET n == PC!NormalizeLegacyKeys(f) IN
           /\ n \in Whole
           /\ n["depth"] = IF f["granularity"] = None THEN None ELSE f["depth"]
           /\ n["granularity"] = IF f["depth"] # None /\ f["granularity"] = None
                                   THEN PC!Granularity[f["depth"]] ELSE f["granularity"]
           /\ n["branching_strategy"] = None /\ n["sub_repos"] = None
           /\ n["multiRepo"] = IF f["multiRepo"] = "true" THEN None ELSE f["multiRepo"]
           /\ n["git.branching_strategy"] = PC!Kept(f, "branching_strategy")
           /\ n["planning.sub_repos"] = PC!Kept(f, "sub_repos")
           /\ \A k \in PC!Keys \ Rest : n[k] = f[k]
<1> DEFINE n == PC!NormalizeLegacyKeys(f)
           gone == PC!Renames(f)
<1>0. /\ DOMAIN f = PC!Keys /\ \A k \in PC!Keys : f[k] \in {None} \cup PC!Texts \cup SUBSET PC!Repositories
      /\ f["depth"] \in {None, "quick", "comprehensive"}
    BY KeysOf
<1>1. /\ \A k \in gone : k \in {"branching_strategy", "sub_repos", "multiRepo", "depth"}
      /\ "branching_strategy" \in gone <=> f["branching_strategy"] # None
      /\ "sub_repos" \in gone <=> f["sub_repos"] # None
      /\ "multiRepo" \in gone <=> f["multiRepo"] = "true"
      /\ "depth" \in gone <=> f["depth"] # None /\ f["granularity"] = None
    BY DEF PC!Renames, PC!Canonical
<1>2. n = [k \in PC!Keys |->
             CASE k \in gone -> None
               [] k = "granularity" /\ "depth" \in gone -> PC!Granularity[f["depth"]]
               [] k = "git.branching_strategy" -> PC!Kept(f, "branching_strategy")
               [] k = "planning.sub_repos" -> PC!Kept(f, "sub_repos")
               [] OTHER -> f[k]]
    BY DEF PC!NormalizeLegacyKeys
<1> HIDE DEF n, gone
<1>3. /\ n["depth"] = IF f["granularity"] = None THEN None ELSE f["depth"]
      /\ n["granularity"] = IF f["depth"] # None /\ f["granularity"] = None
                              THEN PC!Granularity[f["depth"]] ELSE f["granularity"]
      /\ n["branching_strategy"] = None /\ n["sub_repos"] = None
      /\ n["multiRepo"] = IF f["multiRepo"] = "true" THEN None ELSE f["multiRepo"]
    BY <1>1, <1>2 DEF PC!Keys
<1>4. /\ n["git.branching_strategy"] = PC!Kept(f, "branching_strategy")
      /\ n["planning.sub_repos"] = PC!Kept(f, "sub_repos")
    BY <1>1, <1>2 DEF PC!Keys
<1>5. \A k \in PC!Keys \ Rest : n[k] = f[k]
    BY <1>1, <1>2 DEF Rest
<1>6. /\ PC!Kept(f, "branching_strategy") \in {None} \cup PC!Texts \cup SUBSET PC!Repositories
      /\ PC!Kept(f, "sub_repos") \in {None} \cup PC!Texts \cup SUBSET PC!Repositories
    BY <1>0 DEF PC!Kept, PC!Keys, PC!Canonical
<1>7. f["depth"] # None => PC!Granularity[f["depth"]] \in PC!Texts
    BY <1>0 DEF PC!Granularity, PC!Texts
<1>8. \A k \in PC!Keys : n[k] \in {None} \cup PC!Texts \cup SUBSET PC!Repositories
  <2> SUFFICES ASSUME NEW k \in PC!Keys
               PROVE  n[k] \in {None} \cup PC!Texts \cup SUBSET PC!Repositories
    OBVIOUS
  <2>1. CASE k \in PC!Keys \ Rest
    BY <1>0, <1>5, <2>1
  <2>2. CASE k \in Rest
    <3>1. /\ f["depth"] \in PC!Texts \cup {None} /\ \A k2 \in Rest : k2 \in PC!Keys
          /\ f["granularity"] \in {None} \cup PC!Texts \cup SUBSET PC!Repositories
          /\ f["multiRepo"] \in {None} \cup PC!Texts \cup SUBSET PC!Repositories
      BY <1>0 DEF Rest, PC!Keys, PC!Texts
    <3>2. \/ k \in {"depth", "granularity"} \/ k \in {"branching_strategy", "sub_repos", "multiRepo"}
          \/ k \in {"git.branching_strategy", "planning.sub_repos"}
      BY <2>2 DEF Rest
    <3>3. CASE k \in {"depth", "granularity"}
      BY <1>3, <1>7, <3>1, <3>3
    <3>4. CASE k \in {"branching_strategy", "sub_repos", "multiRepo"}
      BY <1>3, <3>1, <3>4
    <3>5. CASE k \in {"git.branching_strategy", "planning.sub_repos"}
      BY <1>4, <1>6, <3>5
    <3> QED
      BY <3>2, <3>3, <3>4, <3>5
  <2> QED
    BY <2>1, <2>2
<1>9. n \in PC!Files
    BY <1>2, <1>8 DEF PC!Files
<1>10. n \in Whole
    BY <1>0, <1>3, <1>9 DEF Whole, PC!Granularity
<1> QED
    BY <1>3, <1>4, <1>5, <1>10 DEF n

\* Files, as they are loaded and rewritten, found being the repositories found.
Found(f) == f["multiRepo"] = "true" /\ PC!Kept(f, "sub_repos") = None
FollowsFound(f, found) ==
    found # {} /\ (PC!Kept(f, "sub_repos") \notin {None, {}} \/ Found(f))

LEMMA Detects ==
    ASSUME NEW f \in Whole, NEW found \in SUBSET PC!Repositories
    PROVE  LET n == PC!NormalizeLegacyKeys(f)
               d == PC!Detected(f, found)
           IN  /\ d \in Whole
               /\ d["planning.sub_repos"] = IF Found(f) /\ found # {} THEN found ELSE n["planning.sub_repos"]
               /\ d["planning.commit_docs"] =
                     IF Found(f) /\ found # {} THEN "false" ELSE f["planning.commit_docs"]
               /\ \A k \in PC!Keys \ {"planning.sub_repos", "planning.commit_docs"} : d[k] = n[k]
<1> DEFINE n == PC!NormalizeLegacyKeys(f)
           many == Found(f) /\ found # {}
           d == PC!Detected(f, found)
<1>1. n \in Whole /\ n["planning.sub_repos"] = PC!Kept(f, "sub_repos")
      /\ n["planning.commit_docs"] = f["planning.commit_docs"]
    BY Normalized DEF PC!Keys, Rest
<1>2. "multiRepo" \in PC!Renames(f) <=> f["multiRepo"] = "true"
    BY DEF PC!Renames, PC!Canonical
<1>3. d = IF many THEN PC!Found(n, found) ELSE n
    BY <1>1, <1>2 DEF PC!Detected, Found
<1>4. DOMAIN n = PC!Keys /\ n["depth"] \in {None, "quick", "comprehensive"}
      /\ \A k \in PC!Keys : n[k] \in {None} \cup PC!Texts \cup SUBSET PC!Repositories
    BY <1>1, KeysOf
<1> HIDE DEF n
<1>5. CASE ~many
    BY <1>1, <1>3, <1>5 DEF n
<1>6. CASE many
  <2>1. d = [n EXCEPT !["planning.sub_repos"] = found, !["planning.commit_docs"] = "false"]
    BY <1>3, <1>6 DEF PC!Found
  <2>2. /\ DOMAIN d = PC!Keys /\ d = [k \in PC!Keys |-> d[k]]
        /\ d["planning.sub_repos"] = found /\ d["planning.commit_docs"] = "false"
        /\ \A k \in PC!Keys \ {"planning.sub_repos", "planning.commit_docs"} : d[k] = n[k]
    BY <1>4, <2>1 DEF PC!Keys
  <2>3. \A k \in PC!Keys : d[k] \in {None} \cup PC!Texts \cup SUBSET PC!Repositories
    BY <1>4, <2>2 DEF PC!Texts
  <2>4. d["depth"] = n["depth"]
    BY <2>2 DEF PC!Keys
  <2>5. d \in Whole
    BY <1>4, <2>2, <2>3, <2>4 DEF Whole, PC!Files, PC!Granularity
  <2> QED
    BY <1>6, <2>2, <2>5 DEF n
<1> QED
    BY <1>5, <1>6 DEF n

LEMMA WritesBack ==
    ASSUME NEW f \in Whole, NEW found \in SUBSET PC!Repositories
    PROVE  LET n == PC!NormalizeLegacyKeys(f)
               w == PC!WrittenBack(f, found)
           IN  /\ w \in Whole
               /\ w["planning.sub_repos"] = IF FollowsFound(f, found) THEN found ELSE PC!Kept(f, "sub_repos")
               /\ w["planning.commit_docs"] =
                     IF Found(f) /\ found # {} THEN "false" ELSE f["planning.commit_docs"]
               /\ \A k \in PC!Keys \ {"planning.sub_repos", "planning.commit_docs"} : w[k] = n[k]
<1> DEFINE n == PC!NormalizeLegacyKeys(f)
           d == PC!Detected(f, found)
           w == PC!WrittenBack(f, found)
<1>1. /\ d \in Whole
      /\ d["planning.sub_repos"] = IF Found(f) /\ found # {} THEN found ELSE n["planning.sub_repos"]
      /\ d["planning.commit_docs"] = IF Found(f) /\ found # {} THEN "false" ELSE f["planning.commit_docs"]
      /\ \A k \in PC!Keys \ {"planning.sub_repos", "planning.commit_docs"} : d[k] = n[k]
    BY Detects
<1>2. n["planning.sub_repos"] = PC!Kept(f, "sub_repos")
    BY Normalized
<1>3. w = IF d["planning.sub_repos"] \notin {None, {}} /\ found # {}
            THEN [d EXCEPT !["planning.sub_repos"] = found] ELSE d
    BY DEF PC!WrittenBack, PC!Synced, PC!With
<1>4. DOMAIN d = PC!Keys /\ d["depth"] \in {None, "quick", "comprehensive"}
      /\ \A k \in PC!Keys : d[k] \in {None} \cup PC!Texts \cup SUBSET PC!Repositories
    BY <1>1, KeysOf
<1>5. None # found
    BY ConfigFacts
<1>6. FollowsFound(f, found) <=> d["planning.sub_repos"] \notin {None, {}} /\ found # {}
    BY <1>1, <1>2, <1>5 DEF FollowsFound, Found
<1> HIDE DEF n, d, w
<1>7. CASE ~FollowsFound(f, found)
  <2>1. w = d /\ ~(Found(f) /\ found # {})
    BY <1>3, <1>6, <1>7 DEF FollowsFound
  <2> QED
    BY <1>1, <1>2, <1>7, <2>1 DEF n, w
<1>8. CASE FollowsFound(f, found)
  <2>1. w = [d EXCEPT !["planning.sub_repos"] = found]
    BY <1>3, <1>6, <1>8
  <2>2. /\ DOMAIN w = PC!Keys /\ w = [k \in PC!Keys |-> w[k]]
        /\ w["planning.sub_repos"] = found
        /\ \A k \in PC!Keys \ {"planning.sub_repos"} : w[k] = d[k]
    BY <1>4, <2>1 DEF PC!Keys
  <2>3. \A k \in PC!Keys : w[k] \in {None} \cup PC!Texts \cup SUBSET PC!Repositories
    BY <1>4, <2>2
  <2>4. w["depth"] = d["depth"] /\ w["planning.commit_docs"] = d["planning.commit_docs"]
    BY <2>2 DEF PC!Keys
  <2>5. w \in Whole
    BY <1>4, <2>2, <2>3, <2>4 DEF Whole, PC!Files, PC!Granularity
  <2> QED
    BY <1>1, <1>8, <2>2, <2>4, <2>5 DEF n, w
<1> QED
    BY <1>7, <1>8

-----------------------------------------------------------------------------
(* What a config says. *)

LEMMA Extracts ==
    ASSUME NEW f \in Whole, NEW found \in SUBSET PC!Repositories
    PROVE  PC!Extracted(PC!WrittenBack(f, found)) = PC!Says(f, found)
<1> DEFINE w == PC!WrittenBack(f, found)
           n == PC!NormalizeLegacyKeys(f)
<1>1. /\ n["granularity"] = IF f["depth"] # None /\ f["granularity"] = None
                              THEN PC!Granularity[f["depth"]] ELSE f["granularity"]
      /\ n["git.branching_strategy"] = PC!Kept(f, "branching_strategy")
      /\ n["commit_docs"] = f["commit_docs"] /\ n["model_profile"] = f["model_profile"]
    BY Normalized DEF PC!Keys, Rest
<1>2. /\ w["planning.sub_repos"] = IF FollowsFound(f, found) THEN found ELSE PC!Kept(f, "sub_repos")
      /\ w["planning.commit_docs"] = IF Found(f) /\ found # {} THEN "false" ELSE f["planning.commit_docs"]
      /\ w["granularity"] = n["granularity"] /\ w["git.branching_strategy"] = n["git.branching_strategy"]
      /\ w["commit_docs"] = n["commit_docs"] /\ w["model_profile"] = n["model_profile"]
    BY WritesBack DEF PC!Keys
<1>3. None # found /\ None # "false"
    BY ConfigFacts DEF PC!Texts
<1> HIDE DEF w, n
<1>4. PC!Value(w, "git.branching_strategy", "none")
         = PC!Value(f, "git.branching_strategy", PC!Value(f, "branching_strategy", "none"))
    BY <1>1, <1>2 DEF PC!Value, PC!Kept, PC!Canonical
<1> DEFINE listed == PC!Value(f, "planning.sub_repos", PC!Value(f, "sub_repos", None))
           many == f["multiRepo"] = "true" /\ listed = None /\ found # {}
<1>5. listed = PC!Kept(f, "sub_repos")
    BY DEF PC!Value, PC!Kept, PC!Canonical
<1>6. many <=> Found(f) /\ found # {}
    BY <1>5 DEF Found
<1>7. PC!Value(w, "planning.sub_repos", {})
         = IF many \/ (listed \notin {None, {}} /\ found # {}) THEN found
           ELSE IF listed = None THEN {} ELSE listed
    BY <1>2, <1>3, <1>5, <1>6 DEF PC!Value, FollowsFound
<1>8. PC!Value(w, "commit_docs", PC!Value(w, "planning.commit_docs", "true"))
         = PC!Value(f, "commit_docs", IF many THEN "false" ELSE PC!Value(f, "planning.commit_docs", "true"))
    BY <1>1, <1>2, <1>3, <1>6 DEF PC!Value
<1>9. w["granularity"] = IF f["granularity"] = None /\ f["depth"] # None
                           THEN PC!Granularity[f["depth"]] ELSE f["granularity"]
    BY <1>1, <1>2
<1>10. PC!Value(w, "model_profile", "balanced") = PC!Value(f, "model_profile", "balanced")
    BY <1>1, <1>2 DEF PC!Value
<1>11. PC!Extracted(w) = [granularity |-> w["granularity"],
                          strategy |-> PC!Value(w, "git.branching_strategy", "none"),
                          repos |-> PC!Value(w, "planning.sub_repos", {}),
                          commit |-> PC!Value(w, "commit_docs", PC!Value(w, "planning.commit_docs", "true")),
                          profile |-> PC!Value(w, "model_profile", "balanced")]
    BY DEF PC!Extracted
<1>12. PC!Says(f, found) =
         [granularity |-> IF f["granularity"] = None /\ f["depth"] # None
                            THEN PC!Granularity[f["depth"]] ELSE f["granularity"],
          strategy |-> PC!Value(f, "git.branching_strategy", PC!Value(f, "branching_strategy", "none")),
          repos |-> IF many \/ (listed \notin {None, {}} /\ found # {}) THEN found
                    ELSE IF listed = None THEN {} ELSE listed,
          commit |-> PC!Value(f, "commit_docs",
                       IF many THEN "false" ELSE PC!Value(f, "planning.commit_docs", "true")),
          profile |-> PC!Value(f, "model_profile", "balanced")]
    BY DEF PC!Says
<1> HIDE DEF many, listed
<1> QED
    BY <1>4, <1>7, <1>8, <1>9, <1>10, <1>11, <1>12 DEF w

\* A config that has been written back is as it should be.
LEMMA WrittenBackStays ==
    ASSUME NEW f \in Whole, NEW found \in SUBSET PC!Repositories
    PROVE  PC!WrittenBack(PC!WrittenBack(f, found), found) = PC!WrittenBack(f, found)
<1> DEFINE w == PC!WrittenBack(f, found)
           n == PC!NormalizeLegacyKeys(f)
           m == PC!NormalizeLegacyKeys(w)
           v == PC!WrittenBack(w, found)
<1>1. /\ n["depth"] = IF f["granularity"] = None THEN None ELSE f["depth"]
      /\ n["granularity"] = IF f["depth"] # None /\ f["granularity"] = None
                              THEN PC!Granularity[f["depth"]] ELSE f["granularity"]
      /\ n["branching_strategy"] = None /\ n["sub_repos"] = None
      /\ n["multiRepo"] = IF f["multiRepo"] = "true" THEN None ELSE f["multiRepo"]
    BY Normalized
<1>2. /\ w \in Whole
      /\ w["planning.sub_repos"] = IF FollowsFound(f, found) THEN found ELSE PC!Kept(f, "sub_repos")
      /\ w["depth"] = n["depth"] /\ w["granularity"] = n["granularity"]
      /\ w["branching_strategy"] = n["branching_strategy"] /\ w["sub_repos"] = n["sub_repos"]
      /\ w["multiRepo"] = n["multiRepo"]
    BY WritesBack DEF PC!Keys
<1>3. None # found /\ None # "true"
    BY ConfigFacts DEF PC!Texts
<1> HIDE DEF w, n
<1>4. /\ m["depth"] = IF w["granularity"] = None THEN None ELSE w["depth"]
      /\ m["granularity"] = IF w["depth"] # None /\ w["granularity"] = None
                              THEN PC!Granularity[w["depth"]] ELSE w["granularity"]
      /\ m["branching_strategy"] = None /\ m["sub_repos"] = None
      /\ m["multiRepo"] = IF w["multiRepo"] = "true" THEN None ELSE w["multiRepo"]
      /\ m["git.branching_strategy"] = PC!Kept(w, "branching_strategy")
      /\ \A k \in PC!Keys \ Rest : m[k] = w[k]
    BY <1>2, Normalized
<1>5. /\ v \in Whole
      /\ v["planning.sub_repos"] = IF FollowsFound(w, found) THEN found ELSE PC!Kept(w, "sub_repos")
      /\ v["planning.commit_docs"] = IF Found(w) /\ found # {} THEN "false" ELSE w["planning.commit_docs"]
      /\ \A k \in PC!Keys \ {"planning.sub_repos", "planning.commit_docs"} : v[k] = m[k]
    BY <1>2, WritesBack
<1> HIDE DEF m, v
<1>6. w["multiRepo"] # "true" /\ ~Found(w)
    BY <1>1, <1>2, <1>3 DEF Found
<1>7. m["depth"] = w["depth"] /\ m["granularity"] = w["granularity"] /\ m["multiRepo"] = w["multiRepo"]
    BY <1>1, <1>2, <1>4, <1>6
<1>8. m["git.branching_strategy"] = w["git.branching_strategy"]
      /\ PC!Kept(w, "sub_repos") = w["planning.sub_repos"]
    BY <1>1, <1>2, <1>4 DEF PC!Kept, PC!Canonical
<1>9. v["planning.sub_repos"] = w["planning.sub_repos"]
    BY <1>2, <1>3, <1>5, <1>6, <1>8 DEF FollowsFound
<1>10. \A k \in PC!Keys : v[k] = w[k]
  <2>1. m["branching_strategy"] = w["branching_strategy"] /\ m["sub_repos"] = w["sub_repos"]
    BY <1>1, <1>2, <1>4
  <2>2. \A k \in Rest \ {"planning.sub_repos"} : m[k] = w[k]
    BY <1>7, <1>8, <2>1 DEF Rest
  <2>3. v["planning.commit_docs"] = w["planning.commit_docs"]
    BY <1>5, <1>6
  <2> QED
    BY <1>4, <1>5, <1>9, <2>2, <2>3
<1>11. DOMAIN v = PC!Keys /\ DOMAIN w = PC!Keys /\ v = [k \in PC!Keys |-> v[k]] /\ w = [k \in PC!Keys |-> w[k]]
    BY <1>2, <1>5 DEF Whole, PC!Files
<1> QED
    BY <1>10, <1>11 DEF v, w

\* migrate-config differs from loading only in what it detects and in the list
\* that follows the directories.
LEMMA Migrates ==
    ASSUME NEW f \in Whole, NEW found \in SUBSET PC!Repositories
    PROVE  LET g == PC!Migrated(f, found) IN
           /\ g \in Whole
           /\ g = f \/ g = PC!NormalizeLegacyKeys(f)
                 \/ (f["multiRepo"] = "true" /\ found # {} /\ g = PC!Found(PC!NormalizeLegacyKeys(f), found))
<1> DEFINE n == PC!NormalizeLegacyKeys(f)
<1>1. n \in Whole
    BY Normalized
<1>2. "multiRepo" \in PC!Renames(f) <=> f["multiRepo"] = "true"
    BY DEF PC!Renames, PC!Canonical
<1>3. PC!Migrated(f, found) \in {f, n} \/
         (f["multiRepo"] = "true" /\ found # {} /\ PC!Migrated(f, found) = PC!Found(n, found))
    BY <1>2 DEF PC!Migrated, PC!DetectedAnyway
<1>4. PC!Found(n, found) \in Whole
  <2> DEFINE d == PC!Found(n, found)
  <2>1. DOMAIN n = PC!Keys /\ n["depth"] \in {None, "quick", "comprehensive"}
        /\ \A k \in PC!Keys : n[k] \in {None} \cup PC!Texts \cup SUBSET PC!Repositories
    BY <1>1, KeysOf
  <2> HIDE DEF n
  <2>2. /\ DOMAIN d = PC!Keys /\ d = [k \in PC!Keys |-> d[k]]
        /\ d["planning.sub_repos"] = found /\ d["planning.commit_docs"] = "false"
        /\ \A k \in PC!Keys \ {"planning.sub_repos", "planning.commit_docs"} : d[k] = n[k]
    BY <2>1 DEF PC!Keys, PC!Found
  <2>3. \A k \in PC!Keys : d[k] \in {None} \cup PC!Texts \cup SUBSET PC!Repositories
    BY <2>1, <2>2 DEF PC!Texts
  <2>4. d["depth"] = n["depth"]
    BY <2>2 DEF PC!Keys
  <2> QED
    BY <2>1, <2>2, <2>3, <2>4 DEF Whole, PC!Files, PC!Granularity
<1> QED
    BY <1>1, <1>3, <1>4

LEMMA NormalizedIsWritten ==
    ASSUME NEW f \in Whole, NEW found \in SUBSET PC!Repositories, f["multiRepo"] = None
    PROVE  PC!WrittenBack(PC!NormalizeLegacyKeys(f), found) = PC!WrittenBack(f, found)
<1> DEFINE n == PC!NormalizeLegacyKeys(f)
           m == PC!NormalizeLegacyKeys(n)
           v == PC!WrittenBack(n, found)
           w == PC!WrittenBack(f, found)
<1>1. /\ n \in Whole
      /\ n["depth"] = IF f["granularity"] = None THEN None ELSE f["depth"]
      /\ n["granularity"] = IF f["depth"] # None /\ f["granularity"] = None
                              THEN PC!Granularity[f["depth"]] ELSE f["granularity"]
      /\ n["branching_strategy"] = None /\ n["sub_repos"] = None
      /\ n["multiRepo"] = IF f["multiRepo"] = "true" THEN None ELSE f["multiRepo"]
      /\ n["planning.sub_repos"] = PC!Kept(f, "sub_repos")
      /\ \A k \in PC!Keys \ Rest : n[k] = f[k]
    BY Normalized
<1>2. /\ w \in Whole
      /\ w["planning.sub_repos"] = IF FollowsFound(f, found) THEN found ELSE PC!Kept(f, "sub_repos")
      /\ w["planning.commit_docs"] = IF Found(f) /\ found # {} THEN "false" ELSE f["planning.commit_docs"]
      /\ \A k \in PC!Keys \ {"planning.sub_repos", "planning.commit_docs"} : w[k] = n[k]
    BY WritesBack
<1>3. None # "true"
    BY ConfigFacts DEF PC!Texts
<1> HIDE DEF n
<1>4. /\ m["depth"] = IF n["granularity"] = None THEN None ELSE n["depth"]
      /\ m["granularity"] = IF n["depth"] # None /\ n["granularity"] = None
                              THEN PC!Granularity[n["depth"]] ELSE n["granularity"]
      /\ m["branching_strategy"] = None /\ m["sub_repos"] = None
      /\ m["multiRepo"] = IF n["multiRepo"] = "true" THEN None ELSE n["multiRepo"]
      /\ m["git.branching_strategy"] = PC!Kept(n, "branching_strategy")
      /\ \A k \in PC!Keys \ Rest : m[k] = n[k]
    BY <1>1, Normalized
<1>5. /\ v \in Whole
      /\ v["planning.sub_repos"] = IF FollowsFound(n, found) THEN found ELSE PC!Kept(n, "sub_repos")
      /\ v["planning.commit_docs"] = IF Found(n) /\ found # {} THEN "false" ELSE n["planning.commit_docs"]
      /\ \A k \in PC!Keys \ {"planning.sub_repos", "planning.commit_docs"} : v[k] = m[k]
    BY <1>1, WritesBack
<1> HIDE DEF m, v, w
<1>6. f["multiRepo"] # "true" /\ n["multiRepo"] # "true" /\ ~Found(f) /\ ~Found(n)
    BY <1>1, <1>3 DEF Found
<1>7. m["depth"] = n["depth"] /\ m["granularity"] = n["granularity"] /\ m["multiRepo"] = n["multiRepo"]
    BY <1>1, <1>4, <1>6
<1>8. m["git.branching_strategy"] = n["git.branching_strategy"]
      /\ PC!Kept(n, "sub_repos") = PC!Kept(f, "sub_repos")
    BY <1>1, <1>4 DEF PC!Kept, PC!Canonical
<1>9. v["planning.sub_repos"] = w["planning.sub_repos"]
    BY <1>2, <1>5, <1>6, <1>8 DEF FollowsFound
<1>10. v["planning.commit_docs"] = w["planning.commit_docs"]
    BY <1>1, <1>2, <1>5, <1>6 DEF PC!Keys, Rest
<1>11. \A k \in PC!Keys \ {"planning.sub_repos"} : m[k] = n[k]
  <2>1. m["branching_strategy"] = n["branching_strategy"] /\ m["sub_repos"] = n["sub_repos"]
    BY <1>1, <1>4
  <2>2. \A k \in Rest \ {"planning.sub_repos"} : m[k] = n[k]
    BY <1>7, <1>8, <2>1 DEF Rest
  <2> QED
    BY <1>4, <2>2
<1>12. \A k \in PC!Keys : v[k] = w[k]
    BY <1>2, <1>5, <1>9, <1>10, <1>11
<1>13. DOMAIN v = PC!Keys /\ DOMAIN w = PC!Keys /\ v = [k \in PC!Keys |-> v[k]] /\ w = [k \in PC!Keys |-> w[k]]
    BY <1>2, <1>5 DEF Whole, PC!Files
<1> QED
    BY <1>12, <1>13 DEF n, v, w

LEMMA MeaningStays ==
    ASSUME SettingShapes
    PROVE  PC!RewritingKeepsMeaning
<1> SUFFICES ASSUME NEW s \in PC!Places, PC!IsFile(config[s])
             PROVE  LET f == config[s]
                        w == PC!WrittenBack(f, repos)
                    IN  /\ PC!Loaded(f, repos) = PC!Says(f, repos)
                        /\ PC!Extracted(w) = PC!Says(f, repos) /\ PC!Says(w, repos) = PC!Says(f, repos)
                        /\ PC!WrittenBack(w, repos) = w
                        /\ f["multiRepo"] = None => PC!WrittenBack(PC!Migrated(f, repos), repos) = w
    BY DEF PC!RewritingKeepsMeaning, config, repos
<1> DEFINE f == config[s]
           w == PC!WrittenBack(f, repos)
<1>1. f \in Whole /\ repos \in SUBSET PC!Repositories
    BY DEF SettingShapes, PC!IsFile
<1>2. w \in Whole
    BY <1>1, WritesBack
<1>3. PC!Extracted(w) = PC!Says(f, repos) /\ PC!Extracted(PC!WrittenBack(w, repos)) = PC!Says(w, repos)
    BY <1>1, <1>2, Extracts
<1>4. PC!WrittenBack(w, repos) = w
    BY <1>1, WrittenBackStays
<1>5. ASSUME f["multiRepo"] = None PROVE PC!WrittenBack(PC!Migrated(f, repos), repos) = w
  <2>1. None # "true"
    BY ConfigFacts DEF PC!Texts
  <2>2. PC!Migrated(f, repos) \in {f, PC!NormalizeLegacyKeys(f)}
    BY <1>1, <1>5, <2>1, Migrates
  <2> QED
    BY <1>1, <1>5, <2>2, NormalizedIsWritten
<1> QED
    BY <1>3, <1>4, <1>5 DEF PC!Loaded

LEMMA InheritsSettings ==
    ASSUME SettingShapes
    PROVE  PC!WorkstreamInherits
<1> SUFFICES ASSUME PC!IsFile(config["root"]), PC!IsFile(config["ws"]),
                    NEW t \in {"granularity", "strategy", "profile"}
             PROVE  PC!LoadedOver(config["root"], config["ws"], repos)[t]
                       = IF PC!Mentions(config["ws"], t) THEN PC!Says(config["ws"], repos)[t]
                         ELSE PC!Says(config["root"], repos)[t]
    BY DEF PC!WorkstreamInherits, config, repos
<1> DEFINE r == config["root"]
           f == config["ws"]
           n == PC!NormalizeLegacyKeys(r)
           k == PC!NormalizeLegacyKeys(f)
           d == PC!Detected(r, repos)
           w == PC!WrittenBack(f, repos)
           m == PC!Merged(d, w)
           got == PC!LoadedOver(r, f, repos)
<1>1. f \in Whole /\ r \in Whole /\ repos \in SUBSET PC!Repositories
    BY DEF SettingShapes, PC!IsFile, PC!Places
<1>2. /\ n["granularity"] = IF r["depth"] # None /\ r["granularity"] = None
                              THEN PC!Granularity[r["depth"]] ELSE r["granularity"]
      /\ n["git.branching_strategy"] = PC!Kept(r, "branching_strategy")
      /\ n["model_profile"] = r["model_profile"]
    BY <1>1, Normalized DEF PC!Keys, Rest
<1>3. /\ k["granularity"] = IF f["depth"] # None /\ f["granularity"] = None
                              THEN PC!Granularity[f["depth"]] ELSE f["granularity"]
      /\ k["git.branching_strategy"] = PC!Kept(f, "branching_strategy")
      /\ k["model_profile"] = f["model_profile"]
    BY <1>1, Normalized DEF PC!Keys, Rest
<1>4. /\ d["granularity"] = n["granularity"] /\ d["git.branching_strategy"] = n["git.branching_strategy"]
      /\ d["model_profile"] = n["model_profile"]
    BY <1>1, Detects DEF PC!Keys
<1>5. /\ w["granularity"] = k["granularity"] /\ w["git.branching_strategy"] = k["git.branching_strategy"]
      /\ w["model_profile"] = k["model_profile"]
    BY <1>1, WritesBack DEF PC!Keys
<1>6. f["depth"] # None => PC!Granularity[f["depth"]] # None
    BY <1>1, KeysOf, ConfigFacts DEF PC!Granularity, PC!Texts
<1> HIDE DEF n, k, d, w
<1>7. /\ m["granularity"] = IF w["granularity"] # None THEN w["granularity"] ELSE d["granularity"]
      /\ m["git.branching_strategy"] =
            IF w["git.branching_strategy"] # None THEN w["git.branching_strategy"] ELSE d["git.branching_strategy"]
      /\ m["model_profile"] = IF w["model_profile"] # None THEN w["model_profile"] ELSE d["model_profile"]
    BY DEF PC!Merged, PC!Keys
<1>8. got = PC!Extracted(m)
    BY DEF PC!LoadedOver, d, w
<1> HIDE DEF m, got
<1>9. /\ got["granularity"] = m["granularity"]
      /\ got["strategy"] = PC!Value(m, "git.branching_strategy", "none")
      /\ got["profile"] = PC!Value(m, "model_profile", "balanced")
    BY <1>8 DEF PC!Extracted
<1>10. \A x \in {r, f} :
         /\ PC!Says(x, repos)["granularity"] = IF x["granularity"] = None /\ x["depth"] # None
                                                 THEN PC!Granularity[x["depth"]] ELSE x["granularity"]
         /\ PC!Says(x, repos)["strategy"] =
               PC!Value(x, "git.branching_strategy", PC!Value(x, "branching_strategy", "none"))
         /\ PC!Says(x, repos)["profile"] = PC!Value(x, "model_profile", "balanced")
    BY DEF PC!Says
<1>11. CASE t = "granularity"
  <2>1. PC!Mentions(f, t) <=> f["granularity"] # None \/ f["depth"] # None
    BY <1>11 DEF PC!Mentions
  <2> QED
    BY <1>2, <1>3, <1>4, <1>5, <1>6, <1>7, <1>9, <1>10, <1>11, <2>1 DEF got
<1>12. CASE t = "strategy"
  <2>1. PC!Mentions(f, t) <=> f["git.branching_strategy"] # None \/ f["branching_strategy"] # None
    BY <1>12 DEF PC!Mentions
  <2> QED
    BY <1>2, <1>3, <1>4, <1>5, <1>7, <1>9, <1>10, <1>12, <2>1
       DEF got, PC!Value, PC!Kept, PC!Canonical
<1>13. CASE t = "profile"
  <2>1. PC!Mentions(f, t) <=> f["model_profile"] # None
    BY <1>13 DEF PC!Mentions
  <2> QED
    BY <1>2, <1>3, <1>4, <1>5, <1>7, <1>9, <1>10, <1>13, <2>1 DEF got, PC!Value
<1> QED
    BY <1>11, <1>12, <1>13

-----------------------------------------------------------------------------
(* The steps: those that write a config, and the others. *)

LEMMA Wrote ==
    ASSUME SettingsInv, NEW p \in Procs, NEW s \in PC!Places, NEW f \in Whole \cup {Torn}, NEW c,
           NEW locks \in BOOLEAN,
           PC!Holds(p, s), PC!Writes(p, s, f, c, locks), locks => cmd[p].at = "write",
           Prepared(c), c.at \in {"none", "lock", "load", "rewrite"}, UNCHANGED repos,
           allowed \subseteq allowed', cmd[p].raced => "overlap" \in allowed',
           locked' = IF locks THEN [locked EXCEPT ![s] = None] ELSE locked,
           DOMAIN last' = PC!Places \X PC!Keys,
           \A t \in PC!Places, k \in PC!Keys :
              /\ last'[<<t, k>>] # None => k \in SettingKeys
              /\ t # s => last'[<<t, k>>] = last[<<t, k>>],
           Good' /\ c.at = "rewrite" =>
              /\ c.place = s /\ f = Torn /\ cmd[p].at # "rewrite"
              /\ (\A q \in Procs : cmd[q].at = "rewrite" => cmd[q].place # s)
                     => Matches(last', allowed', s, c.text),
           Good' /\ c.at # "rewrite"
                 /\ (\A q \in Procs \ {p} : cmd[q].at = "rewrite" => cmd[q].place # s) =>
              /\ Matches(last', allowed', s, f)
              /\ f \in Whole
    PROVE  SettingsInv'
<1> USE DEF config, locked, repos, cmd, last, allowed
<1>1. /\ DOMAIN config = PC!Places /\ DOMAIN locked = PC!Places /\ DOMAIN cmd = Procs
      /\ \A q \in Procs : Prepared(cmd[q]) /\ DOMAIN cmd[q] = CmdFields
    BY DEF SettingsInv, SettingShapes, Prepared
<1>2. config' = [config EXCEPT ![s] = f]
    BY DEF PC!Writes
<1>3. DOMAIN config' = PC!Places /\ config'[s] = f /\ \A t \in PC!Places \ {s} : config'[t] = config[t]
    BY <1>1, <1>2
<1>4. DOMAIN cmd' = Procs /\ cmd'[p] = c
    BY DEF PC!Writes
<1>5. ASSUME NEW q \in Procs \ {p}
      PROVE  /\ DOMAIN cmd'[q] = CmdFields /\ cmd'[q].at = cmd[q].at /\ cmd'[q].place = cmd[q].place
             /\ cmd'[q].key = cmd[q].key /\ cmd'[q].value = cmd[q].value /\ cmd'[q].text = cmd[q].text
             /\ cmd[q].raced => cmd'[q].raced
             /\ PC!Holds(q, s) /\ ~(locks /\ cmd[q].at = "write") => cmd'[q].raced
  <2>1. cmd'[q] = IF PC!Holds(q, s) /\ ~(locks /\ cmd[q].at = "write")
                    THEN [cmd[q] EXCEPT !.raced = TRUE] ELSE cmd[q]
    BY DEF PC!Writes
  <2>2. DOMAIN cmd[q] = CmdFields
    BY <1>1
  <2> QED
    BY <2>1, <2>2 DEF CmdFields
<1>6. \A q \in Procs : Prepared(cmd'[q])
    BY <1>1, <1>4, <1>5 DEF Prepared
<1>7. SettingShapes'
  <2>1. DOMAIN locked' = PC!Places
    BY <1>1
  <2>2. \A t \in PC!Places : config'[t] \in Whole \cup {Missing, Torn}
    BY <1>3 DEF SettingsInv, SettingShapes
  <2> QED
    BY <1>3, <1>4, <1>6, <2>1, <2>2 DEF SettingsInv, SettingShapes
<1>8. Good' => Good /\ ~cmd[p].raced
    BY DEF Good
<1>9. Good /\ locks => \A q \in Procs \ {p} : cmd[q].at \in {"read", "write"} => cmd[q].place # s
    BY DEF SettingsInv, SettersLock, PC!Holds
<1>10. SettersLock'
    BY <1>1, <1>4, <1>5, <1>8, <1>9 DEF SettingsInv, SettingShapes, SettersLock, Prepared
<1>11. \A t \in PC!Places \ {s} : Doomed(t) => Doomed(t)'
    BY <1>4, <1>5 DEF Doomed, PC!Holds
<1>12. ASSUME Good', NEW q \in Procs, ~cmd'[q].raced PROVE Follows(q)'
  <2>1. CASE q = p
    <3>1. Derived(c, config', repos') 
      BY DEF Derived
    <3>2. ASSUME c.at = "rewrite", ~Doomed(s)' PROVE Matches(last', allowed', s, c.text)
      <4>1. \A u \in Procs : cmd[u].at = "rewrite" => cmd[u].place # s
        <5>1. SUFFICES ASSUME NEW u \in Procs, cmd[u].at = "rewrite", cmd[u].place = s PROVE FALSE
          OBVIOUS
        <5>2. CASE u = p
          BY <1>12, <3>2, <5>1, <5>2
        <5>3. CASE u # p
          BY <1>5, <3>2, <5>1, <5>3 DEF Doomed, PC!Holds
        <5> QED
          BY <5>2, <5>3
      <4> QED
        BY <1>12, <3>2, <4>1
    <3> QED
      BY <1>3, <1>4, <1>12, <2>1, <3>1, <3>2 DEF Follows
  <2>2. CASE q # p
    <3>1. Follows(q) /\ ~PC!Holds(q, s)
      BY <1>5, <1>8, <1>9, <1>12, <2>2 DEF SettingsInv, WritesFollow, PC!Holds
    <3>2. /\ cmd'[q].at = cmd[q].at /\ cmd'[q].place = cmd[q].place /\ cmd'[q].key = cmd[q].key
          /\ cmd'[q].value = cmd[q].value /\ cmd'[q].text = cmd[q].text /\ cmd[q].place \in PC!Places
      BY <1>1, <1>5, <2>2 DEF Prepared
    <3>3. cmd[q].at \in {"create", "write", "save", "truncate", "rewrite"} =>
             cmd[q].place # s /\ config'[cmd[q].place] = config[cmd[q].place]
      BY <1>3, <3>1, <3>2 DEF PC!Holds
    <3>4. cmd[q].at = "save-root" => config'["root"] = config["root"]
      BY <1>3, <3>1 DEF PC!Holds, PC!Places
    <3>5. Derived(cmd'[q], config', repos')
      BY <3>1, <3>2, <3>3, <3>4 DEF Follows, Derived
    <3>6. ASSUME cmd[q].at = "rewrite", NEW t \in PC!Places, t = cmd[q].place, ~Doomed(t)'
          PROVE  Matches(last', allowed', cmd[q].place, cmd[q].text)
      <4>1. Matches(last, allowed, cmd[q].place, cmd[q].text)
        BY <1>11, <3>1, <3>2, <3>3, <3>6 DEF Follows, Doomed
      <4>2. allowed' = {} => allowed = {}
        OBVIOUS
      <4> QED
        BY <3>2, <3>3, <3>6, <4>1, <4>2 DEF Matches
    <3>7. cmd[q].at = "rewrite" => config[cmd[q].place] = Torn
      BY <3>1 DEF Follows
    <3> QED
      BY <3>2, <3>3, <3>5, <3>6, <3>7 DEF Follows, Doomed
  <2> QED
    BY <2>1, <2>2
<1>13. ASSUME Good', NEW t \in PC!Places, NEW k \in PC!Keys, last'[<<t, k>>] # None,
              k = "planning.commit_docs" => allowed' = {},
              ~\E q \in Procs : cmd'[q].at = "rewrite" /\ cmd'[q].place = t
       PROVE  PC!IsFile(config'[t]) /\ config'[t][k] = last'[<<t, k>>]
  <2>1. CASE t = s
    <3>1. c.at # "rewrite" /\ \A q \in Procs \ {p} : cmd[q].at = "rewrite" => cmd[q].place # s
      BY <1>4, <1>5, <1>13, <2>1
    <3>2. Matches(last', allowed', s, f) /\ f \in Whole
      BY <1>13, <3>1
    <3> QED
      BY <1>3, <1>13, <2>1, <3>2, ConfigFacts DEF Matches
  <2>2. CASE t # s
    <3>1. ~\E q \in Procs : cmd[q].at = "rewrite" /\ cmd[q].place = t
      BY <1>5, <1>13, <2>2 DEF PC!Holds
    <3>2. last[<<t, k>>] = last'[<<t, k>>] /\ config'[t] = config[t] /\ (allowed' = {} => allowed = {})
      BY <1>3, <2>2
    <3>3. PC!SettingSurvives /\ Good
      BY <1>8, <1>13 DEF SettingsInv
    <3> QED
      BY <1>13, <3>1, <3>2, <3>3 DEF PC!SettingSurvives, Good
  <2> QED
    BY <2>1, <2>2
<1>14. PC!SettingSurvives'
    BY <1>13 DEF PC!SettingSurvives, Good
<1> QED
    BY <1>7, <1>10, <1>12, <1>14 DEF SettingsInv, WritesFollow

LEMMA Moved ==
    ASSUME SettingsInv, NEW p \in Procs, NEW c,
           cmd' = [cmd EXCEPT ![p] = c], Prepared(c), c.at # "rewrite", UNCHANGED <<config, last, repos>>,
           allowed \subseteq allowed', Good' => cmd[p].at # "rewrite",
           DOMAIN locked' = PC!Places,
           Good' => /\ \A q \in Procs \ {p} : cmd[q].at \in {"read", "write"} => locked'[cmd[q].place] = q
                    /\ c.at \in {"read", "write"} => locked'[c.place] = p,
           Good' => c.raced \/ Derived(c, config, repos)
    PROVE  SettingsInv'
<1> USE DEF config, locked, repos, cmd, last, allowed
<1>1. /\ DOMAIN cmd = Procs /\ \A q \in Procs : Prepared(cmd[q])
    BY DEF SettingsInv, SettingShapes
<1>2. DOMAIN cmd' = Procs /\ cmd'[p] = c /\ \A q \in Procs \ {p} : cmd'[q] = cmd[q]
    BY <1>1
<1>3. SettingShapes'
    BY <1>1, <1>2 DEF SettingsInv, SettingShapes
<1>4. SettersLock'
    BY <1>2 DEF SettersLock
<1>5. Good' => Good
    BY DEF Good
<1>6. Good' => \A t \in PC!Places : Doomed(t) => Doomed(t)'
    BY <1>2 DEF Doomed
<1>7. ASSUME Good', NEW q \in Procs, ~cmd'[q].raced PROVE Follows(q)'
  <2>1. CASE q = p
    BY <1>2, <1>7, <2>1 DEF Follows
  <2>2. CASE q # p
    <3>1. Follows(q) /\ cmd'[q] = cmd[q]
      BY <1>2, <1>5, <1>7, <2>2 DEF SettingsInv, WritesFollow
    <3>2. ASSUME cmd[q].at = "rewrite", NEW t \in PC!Places, t = cmd[q].place, ~Doomed(t)'
          PROVE  Matches(last', allowed', cmd[q].place, cmd[q].text)
      <4>1. ~Doomed(t) /\ (allowed' = {} => allowed = {})
        BY <1>6, <1>7, <3>2
      <4>2. Matches(last, allowed, cmd[q].place, cmd[q].text)
        BY <3>1, <3>2, <4>1 DEF Follows, Doomed
      <4> QED
        BY <4>1, <4>2 DEF Matches
    <3>3. cmd[q].place \in PC!Places
      BY <1>1 DEF Prepared
    <3> QED
      BY <3>1, <3>2, <3>3 DEF Follows, Doomed
  <2> QED
    BY <2>1, <2>2
<1>8. PC!SettingSurvives'
  <2>1. SUFFICES ASSUME Good', NEW t \in PC!Places, NEW k \in PC!Keys, last[<<t, k>>] # None,
                        k = "planning.commit_docs" => allowed' = {},
                        ~\E q \in Procs : cmd'[q].at = "rewrite" /\ cmd'[q].place = t
                 PROVE  PC!IsFile(config[t]) /\ config[t][k] = last[<<t, k>>]
    BY DEF PC!SettingSurvives, Good
  <2>2. ~\E q \in Procs : cmd[q].at = "rewrite" /\ cmd[q].place = t
    BY <1>2, <2>1
  <2>3. PC!SettingSurvives /\ Good /\ (allowed' = {} => allowed = {})
    BY <1>5, <2>1 DEF SettingsInv
  <2> QED
    BY <2>1, <2>2, <2>3 DEF PC!SettingSurvives, Good
<1> QED
    BY <1>3, <1>4, <1>7, <1>8 DEF SettingsInv, WritesFollow

\* A step that leaves the locks alone.
LEMMA MovedOn ==
    ASSUME SettingsInv, NEW p \in Procs, NEW c,
           cmd' = [cmd EXCEPT ![p] = c], Prepared(c), c.at # "rewrite",
           UNCHANGED <<config, last, repos, locked>>,
           allowed \subseteq allowed', Good' => cmd[p].at # "rewrite",
           c.at \in {"read", "write"} => cmd[p].at = "read" /\ c.place = cmd[p].place,
           Good' => c.raced \/ Derived(c, config, repos)
    PROVE  SettingsInv'
<1>1. Good' => Good
    BY DEF Good, allowed
<1>2. DOMAIN locked' = PC!Places
    BY DEF SettingsInv, SettingShapes, locked
<1>3. Good' => /\ \A q \in Procs \ {p} : cmd[q].at \in {"read", "write"} => locked'[cmd[q].place] = q
               /\ c.at \in {"read", "write"} => locked'[c.place] = p
    BY <1>1 DEF SettingsInv, SettersLock, locked, cmd
<1> QED
    BY <1>2, <1>3, Moved

-----------------------------------------------------------------------------
(* Action by action. *)

LEMMA WithIsWhole ==
    ASSUME NEW f \in Whole, NEW k \in SettingKeys, NEW v \in PC!Texts
    PROVE  LET g == PC!With(f, k, v) IN
           g \in Whole /\ g[k] = v /\ \A i \in PC!Keys \ {k} : g[i] = f[i]
<1> DEFINE g == PC!With(f, k, v)
<1>1. DOMAIN f = PC!Keys /\ f["depth"] \in {None, "quick", "comprehensive"}
      /\ \A i \in PC!Keys : f[i] \in {None} \cup PC!Texts \cup SUBSET PC!Repositories
    BY KeysOf
<1>2. k \in PC!Keys /\ k # "depth" /\ "depth" \in PC!Keys
    BY DEF SettingKeys, PC!Keys
<1>3. g = [f EXCEPT ![k] = v]
    BY DEF PC!With
<1>4. DOMAIN g = PC!Keys /\ g = [i \in PC!Keys |-> g[i]] /\ g[k] = v /\ \A i \in PC!Keys \ {k} : g[i] = f[i]
    BY <1>1, <1>2, <1>3
<1>5. \A i \in PC!Keys : g[i] \in {None} \cup PC!Texts \cup SUBSET PC!Repositories
    BY <1>1, <1>4
<1>6. g["depth"] \in {None} \cup DOMAIN PC!Granularity
    BY <1>1, <1>2, <1>4 DEF PC!Granularity
<1> QED
    BY <1>4, <1>5, <1>6 DEF Whole, PC!Files

LEMMA EmptyIsWhole == PC!Empty \in Whole /\ \A k \in PC!Keys : PC!Empty[k] = None
BY DEF PC!Empty, Whole, PC!Files, PC!Keys

LEMMA NewIsWhole == ASSUME NEW g \in {None, "fine"} PROVE PC!NewProject(g) \in Whole
<1> DEFINE f == PC!NewProject(g)
<1>1. f = [PC!Empty EXCEPT !["model_profile"] = "balanced", !["commit_docs"] = "true",
                           !["git.branching_strategy"] = "none", !["granularity"] = g]
    BY DEF PC!NewProject
<1>2. DOMAIN PC!Empty = PC!Keys /\ \A k \in PC!Keys : PC!Empty[k] = None
    BY DEF PC!Empty
<1>3. DOMAIN f = PC!Keys /\ f = [i \in PC!Keys |-> f[i]]
      /\ \A i \in PC!Keys : f[i] \in {None, "balanced", "true", "none", g}
    BY <1>1, <1>2
<1>4. "depth" \in PC!Keys /\ f["depth"] = None
    BY <1>1, <1>2 DEF PC!Keys
<1>5. \A i \in PC!Keys : f[i] \in {None} \cup PC!Texts \cup SUBSET PC!Repositories
    BY <1>3 DEF PC!Texts
<1> QED
    BY <1>3, <1>4, <1>5 DEF Whole, PC!Files

LEMMA ChoiceFacts ==
    ASSUME NEW k, NEW v, <<k, v>> \in PC!Choices PROVE k \in SettingKeys /\ v \in PC!Texts
BY DEF PC!Choices, SettingKeys, PC!Texts

LEMMA Commands ==
    ASSUME SettingsInv, NEW p \in Procs
    PROVE  /\ Prepared(cmd[p]) /\ DOMAIN cmd[p] = CmdFields /\ cmd[p].place \in PC!Places
           /\ Prepared(PC!NoCmd) /\ DOMAIN PC!NoCmd = CmdFields /\ PC!NoCmd.at = "none"
           /\ PC!NoCmd.place = "root" /\ PC!NoCmd.key = None /\ PC!NoCmd.text = None /\ PC!NoCmd.raced = FALSE
BY DEF SettingsInv, SettingShapes, Prepared, PC!NoCmd, CmdFields, PC!Places, Writing

LEMMA BeginSteps ==
    ASSUME SettingsInv, NEW p \in Procs,
           PC!BeginSet(p) \/ PC!BeginSetProfile(p) \/ PC!BeginNewProject(p) \/ PC!BeginLoad(p) \/ PC!BeginMigrate(p)
    PROVE  SettingsInv'
<1>1. ASSUME NEW c, PC!Begin(p, c), Prepared(c), c.at \in {"lock", "look", "load", "load-root", "migrate"}
      PROVE  SettingsInv'
  <2>1. /\ cmd' = [cmd EXCEPT ![p] = c] /\ cmd[p].at = "none"
        /\ UNCHANGED <<config, locked, repos, last, allowed>>
    BY <1>1 DEF PC!Begin, config, locked, repos, cmd, last, allowed
  <2>2. Derived(c, config, repos)
    BY <1>1 DEF Derived
  <2> QED
    BY <1>1, <2>1, <2>2, MovedOn
<1> USE Commands
<1>2. ASSUME NEW s \in PC!Places, NEW x \in PC!Choices,
             PC!Begin(p, [PC!NoCmd EXCEPT !.at = "lock", !.place = s, !.key = x[1], !.value = x[2]])
      PROVE  SettingsInv'
  <2> DEFINE c == [PC!NoCmd EXCEPT !.at = "lock", !.place = s, !.key = x[1], !.value = x[2]]
  <2>1. c.at = "lock" /\ c.place = s /\ c.key = x[1] /\ c.value = x[2] /\ DOMAIN c = CmdFields
    BY DEF CmdFields
  <2>2. x = <<x[1], x[2]>>
    BY DEF PC!Choices
  <2> HIDE DEF c
  <2>3. Prepared(c)
    BY <2>1, <2>2 DEF Prepared, Writing
  <2> QED
    BY <1>1, <1>2, <2>1, <2>3 DEF c
<1>3. ASSUME PC!BeginSetProfile(p) PROVE SettingsInv'
  <2> DEFINE c == [PC!NoCmd EXCEPT !.at = "look", !.key = "model_profile", !.value = "quality"]
  <2>1. c.at = "look" /\ c.place = "root" /\ c.key = "model_profile" /\ c.value = "quality" /\ DOMAIN c = CmdFields
    BY DEF CmdFields
  <2>2. PC!Begin(p, c)
    BY <1>3 DEF PC!BeginSetProfile
  <2>3. <<"model_profile", "quality">> \in PC!Choices
    BY DEF PC!Choices
  <2> HIDE DEF c
  <2>4. c.key # None
    BY <2>1, KnowledgeConstants DEF PC!ConfigConstants, PC!Keys
  <2>5. Prepared(c)
    BY <2>1, <2>3, <2>4 DEF Prepared, Writing, PC!Places
  <2> QED
    BY <1>1, <2>1, <2>2, <2>5
<1>4. ASSUME NEW g \in {None, "fine"}, PC!Begin(p, [PC!NoCmd EXCEPT !.at = "look", !.text = PC!NewProject(g)])
      PROVE  SettingsInv'
  <2> DEFINE c == [PC!NoCmd EXCEPT !.at = "look", !.text = PC!NewProject(g)]
  <2>1. c.at = "look" /\ c.place = "root" /\ c.key = None /\ c.text = PC!NewProject(g) /\ DOMAIN c = CmdFields
    BY DEF CmdFields
  <2> HIDE DEF c
  <2>2. Prepared(c)
    BY <2>1, NewIsWhole DEF Prepared, Writing, PC!Places
  <2> QED
    BY <1>1, <1>4, <2>1, <2>2 DEF c
<1>5. ASSUME NEW s \in PC!Places,
             PC!Begin(p, [PC!NoCmd EXCEPT !.at = IF s = "ws" THEN "load-root" ELSE "load", !.place = s])
      PROVE  SettingsInv'
  <2> DEFINE c == [PC!NoCmd EXCEPT !.at = IF s = "ws" THEN "load-root" ELSE "load", !.place = s]
  <2>1. c.at \in {"load-root", "load"} /\ c.place = s /\ c.key = None /\ DOMAIN c = CmdFields
    BY DEF CmdFields
  <2> HIDE DEF c
  <2>2. Prepared(c)
    BY <2>1 DEF Prepared, Writing
  <2> QED
    BY <1>1, <1>5, <2>1, <2>2 DEF c
<1>6. ASSUME NEW s \in PC!Places, PC!Begin(p, [PC!NoCmd EXCEPT !.at = "migrate", !.place = s])
      PROVE  SettingsInv'
  <2> DEFINE c == [PC!NoCmd EXCEPT !.at = "migrate", !.place = s]
  <2>1. c.at = "migrate" /\ c.place = s /\ c.key = None /\ DOMAIN c = CmdFields
    BY DEF CmdFields
  <2> HIDE DEF c
  <2>2. Prepared(c)
    BY <2>1 DEF Prepared, Writing
  <2> QED
    BY <1>1, <1>6, <2>1, <2>2 DEF c
<1> QED
    BY <1>2, <1>3, <1>4, <1>5, <1>6 DEF PC!BeginSet, PC!BeginNewProject, PC!BeginLoad, PC!BeginMigrate

\* Some steps of a command, each in the terms of the two lemmas.
LEMMA SettingsLookStep == ASSUME SettingsInv, NEW p \in Procs, PC!Look(p) PROVE SettingsInv'
<1> USE DEF config, locked, repos, cmd, last, allowed
<1> DEFINE j == cmd[p]
           creates == [j EXCEPT !.at = "create", !.text = IF j.key = None THEN j.text ELSE PC!NewProject(None)]
           locks == [j EXCEPT !.at = "lock"]
<1>1. /\ j.at = "look" /\ UNCHANGED <<config, locked, repos, last, allowed>>
      /\ cmd' = [cmd EXCEPT ![p] = IF config[j.place] = Missing THEN creates
                                   ELSE IF j.key = None THEN PC!NoCmd ELSE locks]
    BY DEF PC!Look, PC!Step
<1>2. Prepared(j) /\ DOMAIN j = CmdFields /\ j.place \in PC!Places /\ Prepared(PC!NoCmd) /\ PC!NoCmd.at = "none"
    BY Commands
<1>3. CASE config[j.place] = Missing
  <2>1. /\ creates.at = "create" /\ creates.place = j.place /\ creates.key = j.key /\ creates.value = j.value
        /\ creates.text = IF j.key = None THEN j.text ELSE PC!NewProject(None) 
        /\ DOMAIN creates = CmdFields
    BY <1>2 DEF CmdFields
  <2> HIDE DEF creates
  <2>2. Prepared(creates)
    BY <1>1, <1>2, <2>1, NewIsWhole DEF Prepared, Writing
  <2>3. Derived(creates, config, repos)
    BY <1>3, <2>1 DEF Derived
  <2>4. cmd' = [cmd EXCEPT ![p] = creates]
    BY <1>1, <1>3
  <2> QED
    BY <1>1, <2>1, <2>2, <2>3, <2>4, MovedOn
<1>4. CASE config[j.place] # Missing /\ j.key = None
  <2>1. Derived(PC!NoCmd, config, repos)
    BY <1>2 DEF Derived
  <2>2. cmd' = [cmd EXCEPT ![p] = PC!NoCmd]
    BY <1>1, <1>4
  <2> QED
    BY <1>1, <1>2, <2>1, <2>2, MovedOn
<1>5. CASE config[j.place] # Missing /\ j.key # None
  <2>1. /\ locks.at = "lock" /\ locks.place = j.place /\ locks.key = j.key /\ locks.value = j.value
        /\ DOMAIN locks = CmdFields
    BY <1>2 DEF CmdFields
  <2> HIDE DEF locks
  <2>2. Prepared(locks)
    BY <1>1, <1>2, <1>5, <2>1 DEF Prepared, Writing
  <2>3. Derived(locks, config, repos)
    BY <2>1 DEF Derived
  <2>4. cmd' = [cmd EXCEPT ![p] = locks]
    BY <1>1, <1>5
  <2> QED
    BY <1>1, <2>1, <2>2, <2>3, <2>4, MovedOn
<1> QED
    BY <1>3, <1>4, <1>5

LEMMA LockSteps == ASSUME SettingsInv, NEW p \in Procs, PC!Lock(p) \/ PC!TakeOver(p) PROVE SettingsInv'
<1> USE DEF config, locked, repos, cmd, last, allowed
<1> DEFINE j == cmd[p]
           c == [j EXCEPT !.at = "read"]
           s == j.place
<1>1. Prepared(j) /\ DOMAIN j = CmdFields /\ s \in PC!Places /\ DOMAIN locked = PC!Places
    BY Commands DEF SettingsInv, SettingShapes
<1>2. /\ j.at = "lock" /\ UNCHANGED <<config, repos, last>> /\ cmd' = [cmd EXCEPT ![p] = c]
      /\ locked' = [locked EXCEPT ![s] = p] /\ allowed \subseteq allowed'
    BY DEF PC!Lock, PC!TakeOver, PC!Step
<1>3. /\ c.at = "read" /\ c.place = s /\ c.key = j.key /\ c.value = j.value /\ DOMAIN c = CmdFields
    BY <1>1 DEF CmdFields
<1> HIDE DEF c
<1>4. Prepared(c)
    BY <1>1, <1>2, <1>3 DEF Prepared, Writing
<1>5. Derived(c, config, repos)
    BY <1>3 DEF Derived
<1>6. \A q \in Procs : cmd[q].place \in PC!Places
    BY Commands
<1>7. Good' => \A q \in Procs : cmd[q].at \in {"read", "write"} => locked[cmd[q].place] = q /\ cmd[q].place # s
  <2>1. SUFFICES ASSUME Good', NEW q \in Procs, cmd[q].at \in {"read", "write"}
                 PROVE  locked[cmd[q].place] = q /\ cmd[q].place # s
    OBVIOUS
  <2>2. Good
    BY <1>2, <2>1 DEF Good
  <2>3. locked[cmd[q].place] = q
    BY <2>1, <2>2 DEF SettingsInv, SettersLock
  <2>4. CASE PC!Lock(p)
    BY <2>3, <2>4, ConfigFacts DEF PC!Lock, PC!Free
  <2>5. CASE PC!TakeOver(p)
    <3>1. allowed' = allowed \cup (IF cmd[locked[s]].at \in {"read", "write"} /\ cmd[locked[s]].place = s
                                     THEN {"stolen"} ELSE {})
      BY <2>5 DEF PC!TakeOver
    <3> QED
      BY <2>1, <2>3, <3>1 DEF Good
  <2> QED
    BY <2>3, <2>4, <2>5
<1>8. DOMAIN locked' = PC!Places /\ locked'[s] = p /\ \A t \in PC!Places \ {s} : locked'[t] = locked[t]
    BY <1>1, <1>2
<1>9. Good' => /\ \A q \in Procs \ {p} : cmd[q].at \in {"read", "write"} => locked'[cmd[q].place] = q
               /\ c.at \in {"read", "write"} => locked'[c.place] = p
    BY <1>3, <1>6, <1>7, <1>8
<1> QED
    BY <1>2, <1>3, <1>4, <1>5, <1>8, <1>9, Moved

LEMMA ReadToSetStep == ASSUME SettingsInv, NEW p \in Procs, PC!ReadToSet(p) PROVE SettingsInv'
<1> USE DEF config, locked, repos, cmd, last, allowed
<1> DEFINE j == cmd[p]
           s == j.place
           f == config[s]
           text == PC!With(IF f = Missing THEN PC!Empty ELSE f, j.key, j.value)
           c == [j EXCEPT !.at = "write", !.text = text]
<1>1. Prepared(j) /\ DOMAIN j = CmdFields /\ s \in PC!Places /\ DOMAIN locked = PC!Places
      /\ f \in Whole \cup {Missing, Torn} /\ Prepared(PC!NoCmd) /\ PC!NoCmd.at = "none"
    BY Commands DEF SettingsInv, SettingShapes
<1>2. j.at = "read" /\ UNCHANGED <<config, repos, last, allowed>>
    BY DEF PC!ReadToSet, PC!Step
<1>3. CASE f = Torn
  <2>1. cmd' = [cmd EXCEPT ![p] = PC!NoCmd] /\ locked' = [locked EXCEPT ![s] = None]
    BY <1>3 DEF PC!ReadToSet, PC!Step, PC!Unlocked
  <2>2. Derived(PC!NoCmd, config, repos)
    BY <1>1 DEF Derived
  <2>3. Good' => Good
    BY <1>2 DEF Good
  <2>4. Good => \A q \in Procs : cmd[q].at \in {"read", "write"} => locked[cmd[q].place] = q
    BY DEF SettingsInv, SettersLock
  <2>5. \A q \in Procs : cmd[q].place \in PC!Places
    BY Commands
  <2>6. DOMAIN locked' = PC!Places /\ \A t \in PC!Places \ {s} : locked'[t] = locked[t]
    BY <1>1, <2>1
  <2>7. Good' => /\ \A q \in Procs \ {p} : cmd[q].at \in {"read", "write"} => locked'[cmd[q].place] = q
                 /\ PC!NoCmd.at \in {"read", "write"} => locked'[PC!NoCmd.place] = p
    BY <1>1, <1>2, <2>3, <2>4, <2>5, <2>6
  <2> QED
    BY <1>1, <1>2, <2>1, <2>2, <2>6, <2>7, Moved
<1>4. CASE f # Torn
  <2>1. cmd' = [cmd EXCEPT ![p] = c] /\ UNCHANGED locked
    BY <1>4 DEF PC!ReadToSet, PC!Step
  <2>2. /\ c.at = "write" /\ c.place = s /\ c.key = j.key /\ c.value = j.value /\ c.text = text
        /\ DOMAIN c = CmdFields
    BY <1>1 DEF CmdFields
  <2> HIDE DEF c
  <2>3. <<j.key, j.value>> \in PC!Choices /\ j.key \in SettingKeys /\ j.value \in PC!Texts
    BY <1>1, <1>2, ChoiceFacts DEF Prepared
  <2>4. text \in Whole
    BY <1>1, <1>4, <2>3, WithIsWhole, EmptyIsWhole
  <2>5. Prepared(c)
    BY <1>1, <2>2, <2>3, <2>4 DEF Prepared, Writing
  <2>6. Derived(c, config, repos)
    BY <1>1, <1>4, <2>2 DEF Derived
  <2> QED
    BY <1>2, <2>1, <2>2, <2>5, <2>6, MovedOn
<1> QED
    BY <1>3, <1>4

\* A command that reads a config goes on to write it, to another place or to its end.
LEMMA LoadSteps ==
    ASSUME SettingsInv, NEW p \in Procs, PC!LoadRoot(p) \/ PC!Load(p) \/ PC!Migrate(p)
    PROVE  SettingsInv'
<1> USE DEF config, locked, repos, cmd, last, allowed
<1> DEFINE j == cmd[p]
           s == j.place
           f == config[s]
           root == config["root"]
<1>1. Prepared(j) /\ DOMAIN j = CmdFields /\ s \in PC!Places /\ repos \in SUBSET PC!Repositories
      /\ f \in Whole \cup {Missing, Torn} /\ Prepared(PC!NoCmd) /\ PC!NoCmd.at = "none"
      /\ root \in Whole \cup {Missing, Torn} /\ repos \in {{}, repos}
    BY Commands DEF SettingsInv, SettingShapes, PC!Places
<1>2. j.at \in {"load-root", "load", "migrate"} /\ UNCHANGED <<config, locked, repos, last, allowed>>
    BY DEF PC!LoadRoot, PC!Load, PC!Migrate, PC!Step
<1>3. ASSUME NEW c, cmd' = [cmd EXCEPT ![p] = c], Prepared(c), Derived(c, config, repos),
             c.at \notin {"read", "write", "rewrite"}
      PROVE  SettingsInv'
    BY <1>2, <1>3, MovedOn
<1>4. ASSUME cmd' = [cmd EXCEPT ![p] = PC!NoCmd] PROVE SettingsInv'
  <2>1. Derived(PC!NoCmd, config, repos)
    BY <1>1 DEF Derived
  <2> QED
    BY <1>1, <1>3, <1>4, <2>1
<1>5. ASSUME NEW t \in PC!Places, NEW at \in {"load"}, cmd' = [cmd EXCEPT ![p] = [j EXCEPT !.at = at, !.place = t]]
      PROVE  SettingsInv'
  <2> DEFINE c == [j EXCEPT !.at = at, !.place = t]
  <2>1. c.at = "load" /\ c.place = t /\ DOMAIN c = CmdFields
    BY <1>1 DEF CmdFields
  <2> HIDE DEF c
  <2>2. Prepared(c) /\ Derived(c, config, repos)
    BY <2>1 DEF Prepared, Derived, Writing
  <2> QED
    BY <1>3, <1>5, <2>1, <2>2 DEF c
<1>6. ASSUME NEW at \in {"save-root", "save", "truncate"}, NEW g \in Whole,
             cmd' = [cmd EXCEPT ![p] = [j EXCEPT !.at = at, !.text = g]],
             at = "save-root" => root \in Whole /\ g = PC!Detected(root, repos),
             at = "save" => f \in Whole /\ g = PC!WrittenBack(f, repos),
             at = "truncate" => f \in Whole /\ g = PC!Migrated(f, repos)
      PROVE  SettingsInv'
  <2> DEFINE c == [j EXCEPT !.at = at, !.text = g]
  <2>1. c.at = at /\ c.place = s /\ c.text = g /\ DOMAIN c = CmdFields
    BY <1>1 DEF CmdFields
  <2> HIDE DEF c
  <2>2. Prepared(c)
    BY <1>1, <2>1 DEF Prepared, Writing
  <2>3. Derived(c, config, repos)
    BY <1>1, <1>6, <2>1 DEF Derived
  <2> QED
    BY <1>3, <1>6, <2>1, <2>2, <2>3 DEF c
<1>7. CASE PC!LoadRoot(p)
  <2>1. CASE PC!IsFile(root) /\ PC!Renames(root) # {}
    <3>1. root \in Whole /\ PC!Detected(root, repos) \in Whole
      BY <1>1, <2>1, Detects DEF PC!IsFile
    <3>2. cmd' = [cmd EXCEPT ![p] = [j EXCEPT !.at = "save-root", !.text = PC!Detected(root, repos)]]
      BY <1>7, <2>1 DEF PC!LoadRoot, PC!Step
    <3> QED
      BY <1>6, <3>1, <3>2
  <2>2. CASE ~(PC!IsFile(root) /\ PC!Renames(root) # {})
    <3>1. cmd' = [cmd EXCEPT ![p] = [j EXCEPT !.at = "load"]]
      BY <1>7, <2>2 DEF PC!LoadRoot, PC!Step
    <3>2. [j EXCEPT !.at = "load"] = [j EXCEPT !.at = "load", !.place = s]
      BY <1>1 DEF CmdFields
    <3> QED
      BY <1>1, <1>5, <3>1, <3>2
  <2> QED
    BY <2>1, <2>2
<1>8. CASE PC!Load(p)
  <2>1. CASE ~PC!IsFile(f)
    <3>1. cmd' = [cmd EXCEPT ![p] = IF s = "ws" /\ PC!IsFile(root) THEN [j EXCEPT !.place = "root"] ELSE PC!NoCmd]
          /\ j.at = "load"
      BY <1>8, <2>1 DEF PC!Load, PC!Step
    <3>2. [j EXCEPT !.place = "root"] = [j EXCEPT !.at = "load", !.place = "root"] /\ "root" \in PC!Places
      BY <1>1, <3>1 DEF CmdFields, PC!Places
    <3>3. CASE s = "ws" /\ PC!IsFile(root)
      BY <1>5, <3>1, <3>2, <3>3
    <3>4. CASE ~(s = "ws" /\ PC!IsFile(root))
      <4>1. cmd' = [cmd EXCEPT ![p] = PC!NoCmd]
        BY <3>1, <3>4
      <4> QED
        BY <1>4, <4>1
    <3> QED
      BY <3>3, <3>4
  <2>2. CASE PC!IsFile(f) /\ PC!WrittenBack(f, repos) # f
    <3>1. f \in Whole /\ PC!WrittenBack(f, repos) \in Whole
      BY <1>1, <2>2, WritesBack DEF PC!IsFile
    <3>2. cmd' = [cmd EXCEPT ![p] = [j EXCEPT !.at = "save", !.text = PC!WrittenBack(f, repos)]]
      BY <1>8, <2>2 DEF PC!Load, PC!Step
    <3> QED
      BY <1>6, <3>1, <3>2
  <2>3. CASE PC!IsFile(f) /\ PC!WrittenBack(f, repos) = f
    <3>1. cmd' = [cmd EXCEPT ![p] = PC!NoCmd]
      BY <1>8, <2>3 DEF PC!Load, PC!Step
    <3> QED
      BY <1>4, <3>1
  <2> QED
    BY <2>1, <2>2, <2>3
<1>9. CASE PC!Migrate(p)
  <2>1. CASE PC!IsFile(f) /\ PC!Migrated(f, repos) # f
    <3>1. f \in Whole /\ PC!Migrated(f, repos) \in Whole
      BY <1>1, <2>1, Migrates DEF PC!IsFile
    <3>2. cmd' = [cmd EXCEPT ![p] = [j EXCEPT !.at = "truncate", !.text = PC!Migrated(f, repos)]]
      BY <1>9, <2>1 DEF PC!Migrate, PC!Step
    <3> QED
      BY <1>6, <3>1, <3>2
  <2>2. CASE ~(PC!IsFile(f) /\ PC!Migrated(f, repos) # f)
    <3>1. cmd' = [cmd EXCEPT ![p] = PC!NoCmd]
      BY <1>9, <2>2 DEF PC!Migrate, PC!Step
    <3> QED
      BY <1>4, <3>1
  <2> QED
    BY <2>1, <2>2
<1> QED
    BY <1>7, <1>8, <1>9

\* A command that is not about a config ends, and the repositories appear.
LEMMA SettingsCrashStep == ASSUME SettingsInv, NEW p \in Procs, PC!Crash(p) PROVE SettingsInv'
<1> USE DEF config, locked, repos, cmd, last, allowed
<1>1. /\ cmd' = [cmd EXCEPT ![p] = PC!NoCmd] /\ UNCHANGED <<config, locked, repos, last>>
      /\ allowed' = allowed \cup (IF cmd[p].at = "rewrite" THEN {"torn"} ELSE {})
    BY DEF PC!Crash, PC!Step
<1>2. Prepared(PC!NoCmd) /\ PC!NoCmd.at = "none"
    BY Commands
<1>3. Derived(PC!NoCmd, config, repos)
    BY <1>2 DEF Derived
<1>4. allowed \subseteq allowed' /\ (Good' => cmd[p].at # "rewrite")
    BY <1>1 DEF Good
<1> QED
    BY <1>1, <1>2, <1>3, <1>4, MovedOn

LEMMA CloneStep == ASSUME SettingsInv, PC!CloneRepo PROVE SettingsInv'
<1> USE DEF config, locked, repos, cmd, last, allowed
<1>1. repos = {} /\ repos' \in SUBSET PC!Repositories /\ UNCHANGED <<config, locked, cmd, last, allowed>>
    BY DEF PC!CloneRepo, PC!Repositories
<1>2. SettingShapes' /\ SettersLock' /\ PC!SettingSurvives'
    BY <1>1 DEF SettingsInv, SettingShapes, SettersLock, PC!SettingSurvives, Good
<1>3. ASSUME NEW p \in Procs, Follows(p) PROVE Follows(p)'
    BY <1>1, <1>3 DEF Follows, Derived, Doomed
<1> QED
    BY <1>1, <1>2, <1>3 DEF SettingsInv, WritesFollow, Good

\* Rewriting keeps what config-set sets.
LEMMA KeepsSettings ==
    ASSUME NEW f \in Whole, NEW found \in SUBSET PC!Repositories,
           NEW g \in {PC!WrittenBack(f, found), PC!Detected(f, found), PC!Migrated(f, found)},
           NEW k \in SettingKeys, f[k] # None,
           k = "planning.commit_docs" => ~(f["multiRepo"] = "true" /\ found # {})
    PROVE  g[k] = f[k]
<1> DEFINE n == PC!NormalizeLegacyKeys(f)
<1>1. n \in Whole /\ n[k] = f[k]
  <2>1. /\ n["granularity"] = IF f["depth"] # None /\ f["granularity"] = None
                                THEN PC!Granularity[f["depth"]] ELSE f["granularity"]
        /\ n["git.branching_strategy"] = PC!Kept(f, "branching_strategy")
        /\ n["planning.commit_docs"] = f["planning.commit_docs"] /\ n["model_profile"] = f["model_profile"]
        /\ n \in Whole
    BY Normalized DEF PC!Keys, Rest
  <2> HIDE DEF n
  <2> QED
    BY <2>1 DEF SettingKeys, PC!Kept, PC!Canonical
<1>2. k \in PC!Keys \ {"planning.sub_repos"}
    BY DEF SettingKeys, PC!Keys
<1>3. k = "planning.commit_docs" => ~(Found(f) /\ found # {})
    BY DEF Found
<1>4. PC!WrittenBack(f, found)[k] = f[k]
    BY <1>1, <1>2, <1>3, WritesBack
<1>5. PC!Detected(f, found)[k] = f[k]
    BY <1>1, <1>2, <1>3, Detects
<1>6. PC!Migrated(f, found)[k] = f[k]
  <2>1. CASE PC!Migrated(f, found) \in {f, n}
    BY <1>1, <2>1
  <2>2. CASE f["multiRepo"] = "true" /\ found # {} /\ PC!Migrated(f, found) = PC!Found(n, found)
    <3>1. k # "planning.commit_docs" /\ k # "planning.sub_repos"
      BY <1>2, <2>2
    <3>2. PC!Found(n, found)[k] = n[k]
      BY <1>1, <1>2, <3>1, KeysOf DEF PC!Found
    <3> QED
      BY <1>1, <2>2, <3>2
  <2> QED
    BY <2>1, <2>2, Migrates
<1> QED
    BY <1>4, <1>5, <1>6

\* What is stored of a place is in its config, while nobody empties it.
LEMMA Stored ==
    ASSUME SettingsInv, Good, NEW s \in PC!Places, config[s] \in Whole \/ config[s] = Missing,
           \A q \in Procs : cmd[q].at = "rewrite" => cmd[q].place # s
    PROVE  Matches(last, allowed, s, config[s]) /\ (config[s] = Missing =>
              \A k \in PC!Keys : ~(last[<<s, k>>] # None /\ (k = "planning.commit_docs" => allowed = {})))
BY DEF SettingsInv, PC!SettingSurvives, Good, Matches, PC!IsFile, config, cmd, last, allowed

\* Only a migration empties a config, and its command is then not about writing it anew.
LEMMA Rewritten ==
    ASSUME SettingsInv, Good, NEW s \in PC!Places, NEW f \in Whole, config[s] = f, NEW g \in Whole,
           \A q \in Procs : cmd[q].at = "rewrite" => cmd[q].place # s,
           NEW excuses, allowed \subseteq excuses,
           \E r \in {{}, repos} :
              /\ g \in {PC!WrittenBack(f, r), PC!Detected(f, r), PC!Migrated(f, r)}
              /\ excuses = {} => ~(f["multiRepo"] = "true" /\ repos # {})
    PROVE  Matches(last, excuses, s, g)
<1> SUFFICES ASSUME NEW k \in PC!Keys, last[<<s, k>>] # None, k = "planning.commit_docs" => excuses = {}
             PROVE  g[k] = last[<<s, k>>]
    BY DEF Matches
<1>1. PICK r \in {{}, repos} :
              /\ g \in {PC!WrittenBack(f, r), PC!Detected(f, r), PC!Migrated(f, r)}
              /\ excuses = {} => ~(f["multiRepo"] = "true" /\ repos # {})
    OBVIOUS
<1>2. Matches(last, allowed, s, f) /\ (excuses = {} => allowed = {})
    BY Stored
<1>3. f[k] = last[<<s, k>>] /\ k \in SettingKeys
    BY <1>2 DEF Matches, SettingsInv, SettingShapes
<1>4. r \in SUBSET PC!Repositories /\ (k = "planning.commit_docs" => ~(f["multiRepo"] = "true" /\ r # {}))
    BY <1>1 DEF SettingsInv, SettingShapes
<1> QED
    BY <1>1, <1>3, <1>4, KeepsSettings

LEMMA LastKept ==
    ASSUME SettingsInv, UNCHANGED last
    PROVE  /\ DOMAIN last' = PC!Places \X PC!Keys
           /\ \A t \in PC!Places, k \in PC!Keys : last'[<<t, k>>] # None => k \in SettingKeys
BY DEF SettingsInv, SettingShapes

LEMMA CreateStep == ASSUME SettingsInv, NEW p \in Procs, PC!Create(p) PROVE SettingsInv'
<1> USE DEF config, locked, repos, cmd, last, allowed
<1> DEFINE j == cmd[p]
           s == j.place
           c == IF j.key = None THEN PC!NoCmd ELSE [j EXCEPT !.at = "lock", !.raced = FALSE]
<1>1. Prepared(j) /\ DOMAIN j = CmdFields /\ s \in PC!Places /\ Prepared(PC!NoCmd) /\ PC!NoCmd.at = "none"
    BY Commands
<1>2. /\ j.at = "create" /\ PC!Writes(p, s, j.text, c, FALSE) /\ UNCHANGED <<locked, repos, last>>
      /\ allowed' = allowed \cup (IF j.raced THEN {"overlap"} ELSE {})
    BY DEF PC!Create, PC!Overlap
<1>3. j.text \in Whole
    BY <1>1, <1>2 DEF Prepared, Writing
<1>4. Prepared(c) /\ c.at \in {"none", "lock"}
  <2>1. CASE j.key = None
    BY <1>1, <2>1
  <2>2. CASE j.key # None
    <3>1. c.at = "lock" /\ c.place = s /\ c.key = j.key /\ c.value = j.value /\ DOMAIN c = CmdFields
      BY <1>1, <2>2 DEF CmdFields
    <3> HIDE DEF c
    <3> QED
      BY <1>1, <1>2, <2>2, <3>1 DEF Prepared, Writing
  <2> QED
    BY <2>1, <2>2
<1>5. ASSUME Good', \A q \in Procs \ {p} : cmd[q].at = "rewrite" => cmd[q].place # s
      PROVE  Matches(last', allowed', s, j.text)
  <2>1. Good /\ ~j.raced /\ (allowed' = {} => allowed = {})
    BY <1>2, <1>5 DEF Good
  <2>2. config[s] = Missing
    BY <1>2, <2>1 DEF SettingsInv, WritesFollow, Follows, Derived
  <2>3. \A q \in Procs : cmd[q].at = "rewrite" => cmd[q].place # s
    BY <1>2, <1>5
  <2> QED
    BY <1>1, <1>2, <2>1, <2>2, <2>3, Stored DEF Matches
<1>6. PC!Holds(p, s)
    BY <1>2 DEF PC!Holds
<1>7. allowed \subseteq allowed' /\ (cmd[p].raced => "overlap" \in allowed')
    BY <1>2
<1> HIDE DEF c
<1> QED
    BY <1>1, <1>2, <1>3, <1>4, <1>5, <1>6, <1>7, LastKept, Wrote

LEMMA SaveSteps == ASSUME SettingsInv, NEW p \in Procs, PC!SaveRoot(p) \/ PC!Save(p) PROVE SettingsInv'
<1> USE DEF config, locked, repos, cmd, last, allowed
<1> DEFINE j == cmd[p]
           onRoot == j.at = "save-root"
           s == IF onRoot THEN "root" ELSE j.place
           c == IF onRoot THEN [j EXCEPT !.at = "load", !.raced = FALSE] ELSE PC!NoCmd
<1>1. Prepared(j) /\ DOMAIN j = CmdFields /\ s \in PC!Places /\ Prepared(PC!NoCmd) /\ PC!NoCmd.at = "none"
      /\ j.place \in PC!Places
    BY Commands DEF PC!Places
<1>2. /\ j.at \in {"save-root", "save"} /\ PC!Writes(p, s, j.text, c, FALSE) /\ UNCHANGED <<locked, repos, last>>
      /\ allowed' = allowed \cup (IF j.raced THEN {"overlap"} ELSE {}) \cup PC!KeepsLocal(p, s)
    BY DEF PC!SaveRoot, PC!Save, PC!Overlap
<1>3. j.text \in Whole
    BY <1>1, <1>2 DEF Prepared, Writing
<1>4. Prepared(c) /\ c.at \in {"none", "load"}
  <2>1. CASE ~onRoot
    BY <1>1, <2>1
  <2>2. CASE onRoot
    <3>1. c.at = "load" /\ c.place = j.place /\ DOMAIN c = CmdFields
      BY <1>1, <2>2 DEF CmdFields
    <3> HIDE DEF c
    <3> QED
      BY <1>1, <2>2, <3>1 DEF Prepared, Writing
  <2> QED
    BY <2>1, <2>2
<1> HIDE DEF c
<1>5. ASSUME Good', \A q \in Procs \ {p} : cmd[q].at = "rewrite" => cmd[q].place # s
      PROVE  Matches(last', allowed', s, j.text)
  <2>1. Good /\ ~j.raced /\ allowed \subseteq allowed'
    BY <1>2, <1>5 DEF Good
  <2>2. /\ config[s] \in Whole
        /\ \E r \in {{}, repos} : j.text \in {PC!WrittenBack(config[s], r), PC!Detected(config[s], r)}
    BY <1>2, <2>1 DEF SettingsInv, WritesFollow, Follows, Derived
  <2>3. \A q \in Procs : cmd[q].at = "rewrite" => cmd[q].place # s
    BY <1>2, <1>5
  <2>4. allowed' = {} => ~(config[s]["multiRepo"] = "true" /\ repos # {})
    BY <1>2, <2>2, ConfigFacts DEF PC!KeepsLocal
  <2>5. Matches(last, allowed', s, j.text)
    BY <1>1, <1>3, <2>1, <2>2, <2>3, <2>4, Rewritten
  <2> QED
    BY <1>2, <2>5
<1>6. PC!Holds(p, s)
    BY <1>2 DEF PC!Holds
<1>7. allowed \subseteq allowed' /\ (cmd[p].raced => "overlap" \in allowed')
    BY <1>2
<1> HIDE DEF s
<1> QED
    BY <1>1, <1>2, <1>3, <1>4, <1>5, <1>6, <1>7, LastKept, Wrote

LEMMA TruncateStep == ASSUME SettingsInv, NEW p \in Procs, PC!Truncate(p) PROVE SettingsInv'
<1> USE DEF config, locked, repos, cmd, last, allowed
<1> DEFINE j == cmd[p]
           s == j.place
           c == [j EXCEPT !.at = "rewrite", !.raced = FALSE]
<1>1. Prepared(j) /\ DOMAIN j = CmdFields /\ s \in PC!Places
    BY Commands
<1>2. /\ j.at = "truncate" /\ PC!Writes(p, s, Torn, c, FALSE) /\ UNCHANGED <<locked, repos, last>>
      /\ allowed' = allowed \cup (IF j.raced THEN {"overlap"} ELSE {}) \cup PC!KeepsLocal(p, s)
    BY DEF PC!Truncate, PC!Overlap
<1>3. j.text \in Whole
    BY <1>1, <1>2 DEF Prepared, Writing
<1>4. c.at = "rewrite" /\ c.place = s /\ c.text = j.text /\ DOMAIN c = CmdFields
    BY <1>1 DEF CmdFields
<1> HIDE DEF c
<1>5. Prepared(c)
    BY <1>1, <1>3, <1>4 DEF Prepared, Writing
<1>6. ASSUME Good', \A q \in Procs : cmd[q].at = "rewrite" => cmd[q].place # s
      PROVE  Matches(last', allowed', s, c.text)
  <2>1. Good /\ ~j.raced /\ allowed \subseteq allowed'
    BY <1>2, <1>6 DEF Good
  <2>2. config[s] \in Whole /\ \E r \in {{}, repos} : j.text = PC!Migrated(config[s], r)
    BY <1>2, <2>1 DEF SettingsInv, WritesFollow, Follows, Derived
  <2>3. allowed' = {} => ~(config[s]["multiRepo"] = "true" /\ repos # {})
    BY <1>2, <2>2, ConfigFacts DEF PC!KeepsLocal
  <2>4. Matches(last, allowed', s, j.text)
    BY <1>1, <1>3, <1>6, <2>1, <2>2, <2>3, Rewritten
  <2> QED
    BY <1>2, <1>4, <2>4
<1>7. PC!Holds(p, s)
    BY <1>2 DEF PC!Holds
<1>8. allowed \subseteq allowed' /\ (cmd[p].raced => "overlap" \in allowed')
    BY <1>2
<1> QED
    BY <1>1, <1>2, <1>4, <1>5, <1>6, <1>7, <1>8, LastKept, Wrote

LEMMA RewriteStep == ASSUME SettingsInv, NEW p \in Procs, PC!Rewrite(p) PROVE SettingsInv'
<1> USE DEF config, locked, repos, cmd, last, allowed
<1> DEFINE j == cmd[p]
           s == j.place
<1>1. Prepared(j) /\ DOMAIN j = CmdFields /\ s \in PC!Places /\ Prepared(PC!NoCmd) /\ PC!NoCmd.at = "none"
    BY Commands
<1>2. /\ j.at = "rewrite" /\ PC!Writes(p, s, j.text, PC!NoCmd, FALSE) /\ UNCHANGED <<locked, repos, last>>
      /\ allowed' = allowed \cup (IF j.raced THEN {"overlap"} ELSE {})
    BY DEF PC!Rewrite, PC!Overlap
<1>3. j.text \in Whole
    BY <1>1, <1>2 DEF Prepared, Writing
<1>4. ASSUME Good', \A q \in Procs \ {p} : cmd[q].at = "rewrite" => cmd[q].place # s
      PROVE  Matches(last', allowed', s, j.text)
  <2>1. Good /\ ~j.raced /\ (allowed' = {} => allowed = {})
    BY <1>2, <1>4 DEF Good
  <2>2. ~Doomed(s)
    BY <1>4, <2>1 DEF Doomed
  <2>3. Matches(last, allowed, s, j.text)
    BY <1>2, <2>1, <2>2 DEF SettingsInv, WritesFollow, Follows
  <2> QED
    BY <1>2, <2>1, <2>3 DEF Matches
<1>5. PC!Holds(p, s)
    BY <1>2 DEF PC!Holds
<1>6. allowed \subseteq allowed' /\ (cmd[p].raced => "overlap" \in allowed')
    BY <1>2
<1> QED
    BY <1>1, <1>2, <1>3, <1>4, <1>5, <1>6, LastKept, Wrote

LEMMA WriteSetStep == ASSUME SettingsInv, NEW p \in Procs, PC!WriteSet(p) PROVE SettingsInv'
<1> USE DEF config, locked, repos, cmd, last, allowed
<1> DEFINE j == cmd[p]
           s == j.place
           f == config[s]
<1>1. Prepared(j) /\ DOMAIN j = CmdFields /\ s \in PC!Places /\ Prepared(PC!NoCmd) /\ PC!NoCmd.at = "none"
      /\ f \in Whole \cup {Missing, Torn} /\ DOMAIN last = PC!Places \X PC!Keys
    BY Commands DEF SettingsInv, SettingShapes
<1>2. /\ j.at = "write" /\ PC!Writes(p, s, j.text, PC!NoCmd, TRUE) /\ UNCHANGED repos
      /\ locked' = [locked EXCEPT ![s] = None] /\ last' = [last EXCEPT ![<<s, j.key>>] = j.value]
      /\ allowed' = allowed \cup (IF j.raced THEN {"overlap"} ELSE {})
    BY DEF PC!WriteSet, PC!Overlap, PC!Unlocked
<1>3. j.text \in Whole /\ j.key \in SettingKeys /\ j.value \in PC!Texts /\ j.key \in PC!Keys
    BY <1>1, <1>2, ChoiceFacts DEF Prepared, Writing, SettingKeys, PC!Keys
<1>4. /\ DOMAIN last' = PC!Places \X PC!Keys /\ last'[<<s, j.key>>] = j.value
      /\ \A t \in PC!Places, k \in PC!Keys :
            t # s \/ k # j.key => last'[<<t, k>>] = last[<<t, k>>]
    BY <1>1, <1>2, <1>3
<1>5. \A t \in PC!Places, k \in PC!Keys : last'[<<t, k>>] # None => k \in SettingKeys
    BY <1>3, <1>4 DEF SettingsInv, SettingShapes
<1>6. ASSUME Good', \A q \in Procs \ {p} : cmd[q].at = "rewrite" => cmd[q].place # s
      PROVE  Matches(last', allowed', s, j.text)
  <2>1. Good /\ ~j.raced /\ (allowed' = {} => allowed = {})
    BY <1>2, <1>6 DEF Good
  <2> DEFINE g == IF f = Missing THEN PC!Empty ELSE f
  <2>2. f \in Whole \cup {Missing} /\ j.text = PC!With(g, j.key, j.value)
    BY <1>2, <2>1 DEF SettingsInv, WritesFollow, Follows, Derived
  <2>3. g \in Whole
    BY <2>2, EmptyIsWhole
  <2>4. j.text[j.key] = j.value /\ \A k \in PC!Keys \ {j.key} : j.text[k] = g[k]
    BY <1>3, <2>2, <2>3, WithIsWhole
  <2>5. \A q \in Procs : cmd[q].at = "rewrite" => cmd[q].place # s
    BY <1>2, <1>6
  <2>6. Matches(last, allowed, s, f) /\ (f = Missing =>
           \A k \in PC!Keys : ~(last[<<s, k>>] # None /\ (k = "planning.commit_docs" => allowed = {})))
    BY <1>1, <2>1, <2>2, <2>5, Stored
  <2>7. SUFFICES ASSUME NEW k \in PC!Keys, last'[<<s, k>>] # None, k = "planning.commit_docs" => allowed' = {}
                 PROVE  j.text[k] = last'[<<s, k>>]
    BY DEF Matches
  <2>8. CASE k = j.key
    BY <1>4, <2>4, <2>8
  <2>9. CASE k # j.key
    <3>1. last'[<<s, k>>] = last[<<s, k>>] /\ j.text[k] = g[k]
      BY <1>1, <1>4, <2>4, <2>9
    <3>2. f # Missing
      BY <2>1, <2>6, <2>7, <3>1
    <3> QED
      BY <2>1, <2>6, <2>7, <3>1, <3>2 DEF Matches
  <2> QED
    BY <2>8, <2>9
<1>7. PC!Holds(p, s)
    BY <1>2 DEF PC!Holds
<1>8. allowed \subseteq allowed' /\ (cmd[p].raced => "overlap" \in allowed')
    BY <1>2
<1>9. \A t \in PC!Places, k \in PC!Keys :
         (last'[<<t, k>>] # None => k \in SettingKeys) /\ (t # s => last'[<<t, k>>] = last[<<t, k>>])
    BY <1>4, <1>5
<1>10. locked' = IF TRUE THEN [locked EXCEPT ![s] = None] ELSE locked
    BY <1>2
<1>11. TRUE => cmd[p].at = "write"
    BY <1>2
<1>12. Good' /\ PC!NoCmd.at # "rewrite" /\ (\A q \in Procs \ {p} : cmd[q].at = "rewrite" => cmd[q].place # s)
         => Matches(last', allowed', s, j.text) /\ j.text \in Whole
    BY <1>3, <1>6
<1>13. DOMAIN last' = PC!Places \X PC!Keys /\ PC!NoCmd.at # "rewrite" /\ UNCHANGED repos
       /\ j.text \in Whole \cup {Torn} /\ PC!Writes(p, s, j.text, PC!NoCmd, TRUE)
    BY <1>1, <1>2, <1>3, <1>4
<1> HIDE DEF s, f, j
<1> QED
    BY <1>1, <1>7, <1>8, <1>9, <1>10, <1>11, <1>12, <1>13, Wrote

-----------------------------------------------------------------------------
(* The theorem. *)

LEMMA OldFiles == PC!Older \in Whole /\ PC!Multi \in Whole /\ PC!Listed \in Whole
<1>1. \A f, k, v : f \in PC!Files /\ k \in PC!Keys /\ v \in PC!Texts \cup SUBSET PC!Repositories
         => PC!With(f, k, v) \in PC!Files
    BY DEF PC!Files, PC!With
<1>2. PC!Empty \in PC!Files /\ \A k \in PC!Keys : PC!Empty[k] = None
    BY DEF PC!Empty, PC!Files
<1>3. \A f, k, v : f \in PC!Files /\ k \in PC!Keys \ {"depth"} => PC!With(f, k, v)["depth"] = f["depth"]
    BY DEF PC!Files, PC!With, PC!Keys
<1>4. \A f, v : f \in PC!Files => PC!With(f, "depth", v)["depth"] = v
    BY DEF PC!Files, PC!With, PC!Keys
<1>5. "depth" \in PC!Keys
    BY DEF PC!Keys
<1>6. PC!Older \in Whole
  <2> DEFINE a == PC!With(PC!Empty, "depth", "quick")
             b == PC!With(a, "branching_strategy", "milestone")
  <2>1. a \in PC!Files /\ a["depth"] = "quick"
    BY <1>1, <1>2, <1>4 DEF PC!Keys, PC!Texts
  <2>2. b \in PC!Files /\ b["depth"] = "quick"
    <3> HIDE DEF a
    <3> QED
      BY <1>1, <1>3, <2>1 DEF PC!Keys, PC!Texts
  <2>3. PC!Older = PC!With(b, "commit_docs", "true")
    BY DEF PC!Older, PC!With
  <2> HIDE DEF a, b
  <2>4. PC!Older \in PC!Files /\ PC!Older["depth"] = "quick"
    BY <1>1, <1>3, <2>2, <2>3 DEF PC!Keys, PC!Texts
  <2> QED
    BY <2>4 DEF Whole, PC!Granularity
<1>7. PC!Multi \in Whole
  <2> DEFINE a == PC!With(PC!Empty, "multiRepo", "true")
             b == PC!With(a, "depth", "comprehensive")
  <2>1. a \in PC!Files
    BY <1>1, <1>2 DEF PC!Keys, PC!Texts
  <2>2. b \in PC!Files /\ b["depth"] = "comprehensive"
    <3> HIDE DEF a
    <3> QED
      BY <1>1, <1>4, <2>1 DEF PC!Keys, PC!Texts
  <2>3. PC!Multi = PC!With(b, "granularity", "coarse")
    BY DEF PC!Multi
  <2> HIDE DEF a, b
  <2>4. PC!Multi \in PC!Files /\ PC!Multi["depth"] = "comprehensive"
    BY <1>1, <1>3, <2>2, <2>3 DEF PC!Keys, PC!Texts
  <2> QED
    BY <2>4 DEF Whole, PC!Granularity
<1>8. PC!Listed \in Whole
  <2> DEFINE a == PC!With(PC!Empty, "sub_repos", {"api"})
             b == PC!With(a, "branching_strategy", "phase")
  <2>1. a \in PC!Files /\ a["depth"] = None
    BY <1>1, <1>2, <1>3 DEF PC!Keys, PC!Repositories
  <2>2. b \in PC!Files /\ b["depth"] = None
    <3> HIDE DEF a
    <3> QED
      BY <1>1, <1>3, <2>1 DEF PC!Keys, PC!Texts
  <2>3. PC!Listed = PC!With(b, "git.branching_strategy", "none")
    BY DEF PC!Listed
  <2> HIDE DEF a, b
  <2>4. PC!Listed \in PC!Files /\ PC!Listed["depth"] = None
    BY <1>1, <1>3, <2>2, <2>3 DEF PC!Keys, PC!Texts
  <2> QED
    BY <2>4 DEF Whole
<1> QED
    BY <1>6, <1>7, <1>8

LEMMA SettingsInit == PC!Init => SettingsInv
<1> SUFFICES ASSUME PC!Init PROVE SettingsInv
    OBVIOUS
<1> USE DEF config, locked, repos, cmd, last, allowed
<1>1. /\ DOMAIN config = PC!Places /\ \A s \in PC!Places : config[s] \in {Missing, PC!Older, PC!Multi, PC!Listed}
    BY DEF PC!Init, PC!Places
<1>2. /\ locked = [s \in PC!Places |-> None] /\ repos = {} /\ cmd = [p \in Procs |-> PC!NoCmd]
      /\ last = [x \in PC!Places \X PC!Keys |-> None]
    BY DEF PC!Init
<1>3. Prepared(PC!NoCmd) /\ PC!NoCmd.at = "none"
    BY DEF Prepared, PC!NoCmd, CmdFields, PC!Places, Writing
<1>4. \A s \in PC!Places : config[s] \in Whole \cup {Missing, Torn}
    BY <1>1, OldFiles
<1>5. SettingShapes
    BY <1>1, <1>2, <1>3, <1>4 DEF SettingShapes
<1>6. \A p \in Procs : cmd[p].at = "none"
    BY <1>2, <1>3
<1>7. SettersLock /\ WritesFollow
    BY <1>6 DEF SettersLock, WritesFollow, Follows, Derived
<1>8. PC!SettingSurvives
    BY <1>2 DEF PC!SettingSurvives
<1> QED
    BY <1>5, <1>7, <1>8 DEF SettingsInv

LEMMA SettingsStep == SettingsInv /\ [PC!Next]_(PC!vars) => SettingsInv'
<1> SUFFICES ASSUME SettingsInv, [PC!Next]_(PC!vars) PROVE SettingsInv'
    OBVIOUS
<1>1. ASSUME NEW p \in Procs,
             \/ PC!BeginSet(p) \/ PC!BeginSetProfile(p) \/ PC!BeginNewProject(p) \/ PC!BeginLoad(p)
             \/ PC!BeginMigrate(p) \/ PC!Look(p) \/ PC!Create(p) \/ PC!Lock(p) \/ PC!TakeOver(p)
             \/ PC!ReadToSet(p) \/ PC!WriteSet(p) \/ PC!LoadRoot(p) \/ PC!SaveRoot(p) \/ PC!Load(p)
             \/ PC!Save(p) \/ PC!Migrate(p) \/ PC!Truncate(p) \/ PC!Rewrite(p) \/ PC!Crash(p)
      PROVE  SettingsInv'
    BY <1>1, BeginSteps, SettingsLookStep, CreateStep, LockSteps, ReadToSetStep, WriteSetStep, LoadSteps, SaveSteps,
       TruncateStep, RewriteStep, SettingsCrashStep
<1>2. CASE UNCHANGED PC!vars
  <2>1. UNCHANGED <<config, locked, repos, cmd, last, allowed>>
    BY <1>2 DEF PC!vars, config, locked, repos, cmd, last, allowed
  <2> QED
    BY <2>1 DEF SettingsInv, SettingShapes, SettersLock, WritesFollow, Follows, Derived, Doomed, Good,
       PC!SettingSurvives, config, locked, repos, cmd, last, allowed
<1> QED
    BY <1>1, <1>2, CloneStep DEF PC!Next

LEMMA SettingsAnswers ==
    SettingsInv => PC!SettingSurvives /\ PC!RewritingKeepsMeaning /\ PC!WorkstreamInherits
BY MeaningStays, InheritsSettings DEF SettingsInv

-----------------------------------------------------------------------------
(***************************************************************************)
(* What a runtime shows: while a run deals with one directory after the    *)
(* other, those it is done with show what it resolved.                     *)
(***************************************************************************)
\* The part's variables, by their names in Surface.
layout == v1
source == v2
marker == v3
surface == v4
shown == v5
runJob == v6        \* job
allSettled == v7    \* settled

-----------------------------------------------------------------------------
(* The closure. *)

\* Three rounds are enough, as there are three skills.
LEMMA ClosureIs ==
    ASSUME NEW base, NEW src
    PROVE  SU!Closure(base, src) = SU!Direct(SU!Direct(SU!Direct(base, src), src), src)
<1> DEFINE D(b) == SU!Direct(b, src)
           Round(after, n) == IF n = 0 THEN base ELSE D(after[n - 1])
           f == [n \in 0..3 |-> IF n = 0 THEN base ELSE IF n = 1 THEN D(base)
                                ELSE IF n = 2 THEN D(D(base)) ELSE D(D(D(base)))]
           R(after) == after = [n \in 0..3 |-> Round(after, n)]
<1>1. Cardinality(SU!Stems) = 3 /\ IsFiniteSet(SU!Stems)
      <2>1. Cardinality({"plan"}) = 1 /\ IsFiniteSet({"plan"}) BY FS_Singleton
      <2>2. Cardinality({"plan"} \cup {"ship"}) = 2 /\ IsFiniteSet({"plan"} \cup {"ship"})
            BY <2>1, FS_AddElement
      <2>3. Cardinality(({"plan"} \cup {"ship"}) \cup {"docs"}) = 3
            /\ IsFiniteSet(({"plan"} \cup {"ship"}) \cup {"docs"})
            BY <2>2, FS_AddElement
      <2>4. SU!Stems = ({"plan"} \cup {"ship"}) \cup {"docs"} BY DEF SU!Stems
      <2> QED BY <2>3, <2>4
<1> HIDE DEF D
<1>2. R(f)
      <2>1. \A n \in 0..3 : f[n] = Round(f, n) OBVIOUS
      <2> QED BY <2>1
<1>3. SU!Closure(base, src) = (CHOOSE after : R(after))[3]
      <2> DEFINE E(c) == (CHOOSE after : after = [n \in 0..c |-> Round(after, n)])[c]
      <2>1. SU!Closure(base, src) = E(Cardinality(SU!Stems)) BY Zenon DEF SU!Closure, SU!Cardinality, Cardinality, D
      <2>2. E(3) = (CHOOSE after : R(after))[3] OBVIOUS
      <2> HIDE DEF E
      <2> QED BY <1>1, <2>1, <2>2
<1> DEFINE g == CHOOSE after : R(after)
<1>4. R(g) BY <1>2
<1> HIDE DEF g
<1>5. g[0] = base BY <1>4
<1>6. g[1] = D(base) BY <1>4, <1>5
<1>7. g[2] = D(D(base)) BY <1>4, <1>6
<1>8. g[3] = D(D(D(base))) BY <1>4, <1>7
<1> QED BY <1>3, <1>8 DEF g, D
\* What it holds is required by what it holds, and nothing else is in it.
LEMMA ClosureFacts ==
    ASSUME NEW src \in Products, NEW base, base \subseteq SU!Stems
    PROVE  /\ base \subseteq SU!Closure(base, src)
           /\ SU!Closure(base, src) \subseteq SU!Stems
           /\ \A s \in SU!Closure(base, src) : src.requires[s] \subseteq SU!Closure(base, src)
           /\ \A all \in SUBSET SU!Stems :
                  base \subseteq all /\ SU!Direct(all, src) = all => SU!Closure(base, src) \subseteq all
<1> DEFINE D(b) == SU!Direct(b, src)
<1>1. src.requires \in [SU!Stems -> SUBSET SU!Stems]
      BY KnowledgeConstants DEF KnowledgeConstants, SU!SurfaceConstants
<1>2. \A b, c : b \subseteq c => D(b) \subseteq D(c) BY DEF SU!Direct
<1>3. \A b \in SUBSET SU!Stems : b \subseteq D(b) /\ D(b) \subseteq SU!Stems BY <1>1 DEF SU!Direct
<1>4. \A b : \A s \in b : src.requires[s] \subseteq D(b) BY DEF SU!Direct
<1>5. SU!Closure(base, src) = D(D(D(base))) BY ClosureIs
<1> HIDE DEF D
<1>6. D(base) \in SUBSET SU!Stems /\ D(D(base)) \in SUBSET SU!Stems /\ D(D(D(base))) \in SUBSET SU!Stems
      BY <1>3
<1>7. /\ base \subseteq D(base) /\ D(base) \subseteq D(D(base))
      /\ D(D(base)) \subseteq D(D(D(base)))
      BY <1>3, <1>6
<1>8. D(D(D(D(base)))) = D(D(D(base)))
      <2>1. CASE D(base) = base BY <2>1
      <2>2. CASE D(D(base)) = D(base) BY <2>2
      <2>3. CASE base = {} /\ D(base) # base
            <3>1. SU!Direct({}, src) = {} BY DEF SU!Direct
            <3> QED BY <3>1, <2>3 DEF D
      <2>4. CASE base # {} /\ D(base) # base /\ D(D(base)) # D(base)
            <3>1. PICK x : x \in base BY <2>4
            <3>2. PICK y : y \in D(base) /\ y \notin base BY <2>4, <1>7
            <3>3. PICK z : z \in D(D(base)) /\ z \notin D(base) BY <2>4, <1>7
            <3>4. x # y /\ y # z /\ x # z BY <3>1, <3>2, <3>3, <1>7
            <3>5. x \in D(D(base)) /\ y \in D(D(base)) /\ z \in D(D(base)) BY <3>1, <3>2, <3>3, <1>7
            <3>6. D(D(base)) = SU!Stems
                  <4>1. x \in SU!Stems /\ y \in SU!Stems /\ z \in SU!Stems BY <3>5, <1>6
                  <4>2. \A s \in SU!Stems : s \in {x, y, z} BY <4>1, <3>4 DEF SU!Stems
                  <4> QED BY <4>2, <3>5, <1>6
            <3>7. D(SU!Stems) = SU!Stems BY <1>3
            <3> QED BY <3>6, <3>7
      <2> QED BY <2>1, <2>2, <2>3, <2>4
<1>9. \A all \in SUBSET SU!Stems : base \subseteq all /\ D(all) = all => D(D(D(base))) \subseteq all
      <2> SUFFICES ASSUME NEW all \in SUBSET SU!Stems, base \subseteq all, D(all) = all
                   PROVE  D(D(D(base))) \subseteq all
          OBVIOUS
      <2>1. D(base) \subseteq all BY <1>2
      <2>2. D(D(base)) \subseteq all BY <1>2, <2>1
      <2> QED BY <1>2, <2>2
<1>10. \A all \in SUBSET SU!Stems :
           base \subseteq all /\ SU!Direct(all, src) = all => D(D(D(base))) \subseteq all
       BY <1>9 DEF D
<1> QED BY <1>4, <1>5, <1>6, <1>7, <1>8, <1>10

\* What a profile brings is complete.
LEMMA ProfileIsClosed ==
    ASSUME NEW src \in Products, NEW modes
    PROVE  \A s \in SU!ProfileSkills(modes, src) \cap src.stems :
               src.requires[s] \subseteq SU!ProfileSkills(modes, src)
<1>1. \A s \in src.stems : src.requires[s] \subseteq src.stems
      BY KnowledgeConstants DEF KnowledgeConstants, SU!SurfaceConstants
<1>2. CASE SU!IsFull(modes) BY <1>1, <1>2 DEF SU!ProfileSkills
<1>3. CASE ~SU!IsFull(modes)
      <2>1. \A m \in SU!Known(modes) : SU!Profiles[m] \subseteq SU!Stems
            BY DEF SU!Known, SU!Profiles, SU!Stems
      <2>2. SU!ProfileSkills(modes, src) = UNION {SU!Closure(SU!Profiles[m], src) : m \in SU!Known(modes)}
            BY <1>3 DEF SU!ProfileSkills
      <2> SUFFICES ASSUME NEW s \in SU!ProfileSkills(modes, src)
                   PROVE  src.requires[s] \subseteq SU!ProfileSkills(modes, src)
          OBVIOUS
      <2>3. PICK m \in SU!Known(modes) : s \in SU!Closure(SU!Profiles[m], src) BY <2>2
      <2>4. src.requires[s] \subseteq SU!Closure(SU!Profiles[m], src) BY <2>1, <2>3, ClosureFacts
      <2> QED BY <2>2, <2>4
<1> QED BY <1>2, <1>3
\* What a surface resolves to lacks of what it requires only what is disabled
\* or removed.
LEMMA ResolvedIsClosed ==
    ASSUME NEW src \in Products, NEW f, NEW m, SU!IsSurface(f) => f.adds \subseteq SU!Stems
    PROVE  /\ SU!Direct(SU!Resolved(f, m, src) \cap src.stems, src) \ SU!Resolved(f, m, src)
                  \subseteq (IF SU!IsSurface(f) THEN SU!Off(f) \cup f.removes ELSE {})
           /\ SU!IsSurface(f) => SU!Resolved(f, m, src) \cap f.removes = {}
<1> DEFINE skills == SU!Resolved(f, m, src)
           profile == SU!ProfileSkills(SU!Base(f, m), src)
           refused == IF SU!IsSurface(f) THEN SU!Off(f) \cup f.removes ELSE {}
           added == SU!Closure(f.adds, src)
<1>1. \A s \in profile \cap src.stems : src.requires[s] \subseteq profile BY ProfileIsClosed
<1>2. SU!IsSurface(f) => \A s \in added : src.requires[s] \subseteq added BY ClosureFacts
<1>3. ~SU!IsSurface(f) => skills = profile BY DEF SU!Resolved
<1>4. SU!IsSurface(f) => skills = ((profile \ SU!Off(f)) \cup added) \ f.removes BY DEF SU!Resolved
<1>5. SU!Direct(skills \cap src.stems, src)
          = (skills \cap src.stems) \cup UNION {src.requires[s] : s \in skills \cap src.stems}
      BY DEF SU!Direct
<1> HIDE DEF skills, profile, added
<1>6. \A s \in skills \cap src.stems : src.requires[s] \subseteq skills \cup refused
      <2> SUFFICES ASSUME NEW s \in skills \cap src.stems
                   PROVE  src.requires[s] \subseteq skills \cup refused
          OBVIOUS
      <2>1. CASE ~SU!IsSurface(f) BY <2>1, <1>1, <1>3
      <2>2. CASE SU!IsSurface(f) /\ s \in added BY <2>2, <1>2, <1>4
      <2>3. CASE SU!IsSurface(f) /\ s \in profile BY <2>3, <1>1, <1>4
      <2> QED BY <2>1, <2>2, <2>3, <1>4
<1>7. SU!Direct(skills \cap src.stems, src) \ skills \subseteq refused BY <1>5, <1>6
<1>8. SU!IsSurface(f) => skills \cap f.removes = {} BY <1>4
<1> QED BY <1>7, <1>8 DEF skills

-----------------------------------------------------------------------------
(* The inductive invariant. *)

USE DEF layout, source, marker, surface, shown, runJob, allSettled

SurfaceShapes ==
    /\ layout \in DOMAIN SU!Kinds /\ source \in Products
    /\ DOMAIN shown = DOMAIN SU!Own
    /\ DOMAIN runJob = {"at", "kinds", "kind", "skills", "staged", "whole"}
    /\ runJob.whole \in BOOLEAN
    /\ SU!IsSurface(surface) =>
           /\ DOMAIN surface = {"base", "disabled", "adds", "removes"}
           /\ surface.adds \subseteq SU!Stems

\* A run has what the surface resolves to, and has copied what it stages
\* before it prunes.
Running ==
    runJob.at # "none" =>
        /\ ~allSettled /\ runJob.at \in {"copy", "prune"} /\ runJob.kinds \subseteq SU!Kinds[layout]
        /\ runJob.skills = SU!Resolved(surface, marker, source)
        /\ runJob.at = "prune" =>
               /\ runJob.kind \in SU!Kinds[layout] \ runJob.kinds
               /\ runJob.staged = SU!Staged(runJob.kind, layout, runJob.skills, source)
               /\ runJob.staged \subseteq shown[runJob.kind]

\* What the product has in a directory, and what it should have.
Has(k, l, entries, src) == {e \in entries : SU!Ours(k, l, e, src)}
Should(k, l, f, m, src) == SU!Staged(k, l, SU!Resolved(f, m, src), src)
DoneWith ==
    runJob.at # "none" /\ runJob.whole =>
        \A k \in SU!Kinds[layout] \ runJob.kinds :
            runJob.at = "copy" \/ k # runJob.kind =>
                Has(k, layout, shown[k], source) = Should(k, layout, surface, marker, source)

SurfaceInv ==
    /\ part = "surface"
    /\ SurfaceShapes /\ Running /\ DoneWith /\ SU!ShownIsResolved /\ SU!OwnEntriesStay

\* Each directory of a layout is one of the user's as well.
LEMMA KindFacts == \A l \in DOMAIN SU!Kinds : SU!Kinds[l] \subseteq DOMAIN SU!Own
BY DEF SU!Kinds, SU!Own

\* What is staged is the product's.
LEMMA StagedIsOurs ==
    ASSUME NEW k \in DOMAIN SU!Own, NEW l, NEW skills, NEW src
    PROVE  \A e \in SU!Staged(k, l, skills, src) : SU!Ours(k, l, e, src)
<1>1. k \in {"skills", "commands", "agents"} BY DEF SU!Own
<1>2. \A p, n : SU!Entry(p, n).pre = p /\ SU!Entry(p, n).name = n BY DEF SU!Entry
<1>3. CASE k = "skills" BY <1>2, <1>3 DEF SU!Staged, SU!Ours
<1>4. CASE k = "agents" BY <1>2, <1>4 DEF SU!Staged, SU!Ours, SU!Prefixed
<1>5. CASE k = "commands" BY <1>5 DEF SU!Ours
<1> QED BY <1>1, <1>3, <1>4, <1>5

\* The entries of OwnEntriesStay are never the product's.
LEMMA OwnIsNotOurs ==
    ASSUME NEW l \in DOMAIN SU!Kinds, NEW src \in Products
    PROVE  /\ \A e \in SU!Own["skills"] : (l # "hermes" \/ e.name # "plan") => ~SU!Ours("skills", l, e, src)
           /\ \A e \in SU!Own["agents"] : ~e.pre => ~SU!Ours("agents", l, e, src)
<1>1. src.stems \subseteq SU!Stems BY KnowledgeConstants DEF KnowledgeConstants, SU!SurfaceConstants
<1>2. \A p, n : SU!Entry(p, n).pre = p /\ SU!Entry(p, n).name = n BY DEF SU!Entry
<1>3. \A e \in SU!Own["skills"] : (l # "hermes" \/ e.name # "plan") => ~SU!Ours("skills", l, e, src)
      <2>1. SU!Own["skills"] = {SU!Entry(FALSE, "plan"), SU!Entry(FALSE, "mine"), SU!Entry(TRUE, "mine")}
            BY DEF SU!Own
      <2>2. "mine" \notin src.stems BY <1>1 DEF SU!Stems
      <2> SUFFICES ASSUME NEW e \in SU!Own["skills"], l # "hermes" \/ e.name # "plan",
                          SU!Ours("skills", l, e, src)
                   PROVE  FALSE
          OBVIOUS
      <2>3. e.pre = SU!Prefixed("skills", l) /\ e.name \in src.stems BY DEF SU!Ours
      <2>4. e.name = "plan" /\ e.pre = FALSE
            <3>1. SU!Entry(FALSE, "mine").name = "mine" /\ SU!Entry(TRUE, "mine").name = "mine"
                  /\ SU!Entry(FALSE, "plan").name = "plan" /\ SU!Entry(FALSE, "plan").pre = FALSE
                  BY DEF SU!Entry
            <3>2. e = SU!Entry(FALSE, "plan") \/ e = SU!Entry(FALSE, "mine") \/ e = SU!Entry(TRUE, "mine")
                  BY <2>1
            <3> QED BY <3>1, <3>2, <2>2, <2>3
      <2>5. SU!Prefixed("skills", l) = TRUE BY <2>4 DEF SU!Prefixed
      <2> QED BY <2>3, <2>4, <2>5
<1>4. \A e \in SU!Own["agents"] : ~e.pre => ~SU!Ours("agents", l, e, src)
      BY DEF SU!Ours
<1> QED BY <1>3, <1>4

\* Staging and pruning leave the user's own where they are.
LEMMA OwnStays ==
    ASSUME SurfaceShapes, SU!OwnEntriesStay, UNCHANGED layout, DOMAIN shown' = DOMAIN shown,
           \A k \in DOMAIN shown : \A e \in shown[k] \ shown'[k] : SU!Ours(k, layout, e, source)
    PROVE  SU!OwnEntriesStay'
<1>1. "skills" \in DOMAIN shown /\ "agents" \in DOMAIN shown BY DEF SurfaceShapes, SU!Own
<1>2. layout \in DOMAIN SU!Kinds /\ source \in Products BY DEF SurfaceShapes
<1>3. \A e \in SU!Own["skills"] : layout # "hermes" \/ e.name # "plan" => e \in shown'["skills"]
      BY <1>1, <1>2, OwnIsNotOurs DEF SU!OwnEntriesStay
<1>4. \A e \in SU!Own["agents"] : ~e.pre => e \in shown'["agents"]
      BY <1>1, <1>2, OwnIsNotOurs DEF SU!OwnEntriesStay
<1> QED BY <1>3, <1>4 DEF SU!OwnEntriesStay
-----------------------------------------------------------------------------
(* The steps. *)

NoJobFacts == DOMAIN SU!NoJob = {"at", "kinds", "kind", "skills", "staged", "whole"} /\ SU!NoJob.at = "none"
              /\ SU!NoJob.whole \in BOOLEAN

LEMMA NoJobIs == NoJobFacts
BY DEF NoJobFacts, SU!NoJob

UsableSurface(f) ==
    SU!IsSurface(f) =>
        DOMAIN f = {"base", "disabled", "adds", "removes"} /\ f.adds \subseteq SU!Stems

\* A run begins with what it resolves.
LEMMA ApplySteps ==
    ASSUME SurfaceInv, part' = part, runJob.at = "none", NEW f, UsableSurface(f), SU!Applies(f),
           UNCHANGED <<layout, source, marker, shown>>
    PROVE  SurfaceInv'
<1> USE DEF UsableSurface
<1> DEFINE c == [SU!NoJob EXCEPT !.at = "copy", !.kinds = SU!Kinds[layout],
                                 !.skills = SU!Resolved(f, marker, source)]
<1>1. runJob' = c /\ surface' = f /\ allSettled' = FALSE BY DEF SU!Applies
<1>2. /\ DOMAIN c = {"at", "kinds", "kind", "skills", "staged", "whole"} /\ c.at = "copy"
      /\ c.kinds = SU!Kinds[layout] /\ c.skills = SU!Resolved(f, marker, source) /\ c.whole \in BOOLEAN
      BY DEF SU!NoJob
<1> HIDE DEF c
<1>3. SurfaceShapes' BY <1>1, <1>2 DEF SurfaceInv, SurfaceShapes
<1>4. Running' BY <1>1, <1>2 DEF Running
<1>5. DoneWith' BY <1>1, <1>2 DEF DoneWith
<1>6. SU!ShownIsResolved' BY <1>1 DEF SU!ShownIsResolved
<1>7. SU!OwnEntriesStay' BY DEF SurfaceInv, SU!OwnEntriesStay
<1> QED BY <1>3, <1>4, <1>5, <1>6, <1>7 DEF SurfaceInv

\* What the commands write is a surface.
LEMMA SurfaceSteps ==
    ASSUME SurfaceInv, part' = part,
           SU!SetProfile \/ SU!Disable \/ SU!Enable \/ SU!AddOrRemove \/ SU!Reset \/ SU!Reapply
    PROVE  SurfaceInv'
<1> DEFINE RunFields == {"base", "disabled", "adds", "removes"}
<1>1. SU!IsSurface(surface) => DOMAIN surface = RunFields /\ surface.adds \subseteq SU!Stems
      BY DEF SurfaceInv, SurfaceShapes
<1>2. DOMAIN SU!Seed = RunFields /\ SU!Seed.adds \subseteq SU!Stems BY <1>1 DEF SU!Seed
<1>3. \A f : SU!Applies(f) /\ UsableSurface(f) /\ runJob.at = "none"
                 /\ UNCHANGED <<layout, source, marker, shown>> => SurfaceInv'
      BY ApplySteps
<1> DEFINE seed == SU!Seed
<1>4. DOMAIN seed = RunFields /\ seed.adds \subseteq SU!Stems BY <1>2
<1> HIDE DEF seed
<1>5. CASE SU!SetProfile
      <2>1. PICK modes : /\ SU!Change /\ SU!UnchangedByUser /\ SU!Applies([seed EXCEPT !.base = modes])
            BY <1>5 DEF SU!SetProfile, seed
      <2> DEFINE f == [seed EXCEPT !.base = modes]
      <2>2. UsableSurface(f) BY <1>4 DEF UsableSurface
      <2> HIDE DEF f
      <2> QED BY <2>1, <2>2, <1>3 DEF f, SU!Change, SU!UnchangedByUser
<1>6. CASE SU!Disable
      <2>1. PICK c : SU!Change /\ SU!UnchangedByUser /\ SU!Applies([seed EXCEPT !.disabled = @ \cup {c}])
            BY <1>6 DEF SU!Disable, seed
      <2> DEFINE f == [seed EXCEPT !.disabled = @ \cup {c}]
      <2>2. UsableSurface(f) BY <1>4 DEF UsableSurface
      <2> HIDE DEF f
      <2> QED BY <2>1, <2>2, <1>3 DEF f, SU!Change, SU!UnchangedByUser
<1>7. CASE SU!Enable
      <2>1. PICK c : /\ SU!Change /\ SU!UnchangedByUser /\ SU!IsSurface(surface)
                     /\ SU!Applies([surface EXCEPT !.disabled = @ \ {c}])
            BY <1>7 DEF SU!Enable
      <2> DEFINE f == [surface EXCEPT !.disabled = @ \ {c}]
      <2>2. UsableSurface(f) BY <1>1, <2>1 DEF UsableSurface
      <2> HIDE DEF f
      <2> QED BY <2>1, <2>2, <1>3 DEF f, SU!Change, SU!UnchangedByUser
<1>8. CASE SU!AddOrRemove
      <2>1. PICK s \in SU!Stems, add \in BOOLEAN :
                /\ SU!Change /\ SU!UnchangedByUser
                /\ SU!Applies(IF add THEN [seed EXCEPT !.adds = @ \cup {s}]
                              ELSE [seed EXCEPT !.removes = @ \cup {s}])
            BY <1>8 DEF SU!AddOrRemove, seed
      <2> DEFINE f == [seed EXCEPT !.adds = @ \cup {s}]
                 g == [seed EXCEPT !.removes = @ \cup {s}]
      <2>2. UsableSurface(f) BY <1>4 DEF UsableSurface
      <2>3. UsableSurface(g) BY <1>4 DEF UsableSurface
      <2>4. SU!Applies(f) \/ SU!Applies(g) BY <2>1
      <2> HIDE DEF f, g
      <2> QED BY <2>1, <2>2, <2>3, <2>4, <1>3 DEF SU!Change, SU!UnchangedByUser
<1>9. CASE SU!Reset
      <2>1. UsableSurface(None) BY DEF UsableSurface, SU!IsSurface
      <2> QED BY <2>1, <1>3, <1>9 DEF SU!Reset, SU!Change, SU!UnchangedByUser
<1>10. CASE SU!Reapply
      <2>1. UsableSurface(surface) BY <1>1 DEF UsableSurface
      <2> QED BY <2>1, <1>3, <1>10 DEF SU!Reapply, SU!Change, SU!UnchangedByUser
<1> QED BY <1>5, <1>6, <1>7, <1>8, <1>9, <1>10

\* install adds to the directories, and unsettles.
LEMMA InstallStep == ASSUME SurfaceInv, part' = part, SU!Install PROVE SurfaceInv'
<1>1. /\ source' \in Products /\ allSettled' = FALSE /\ layout' = layout /\ surface' = surface
      /\ runJob' = runJob /\ runJob.at = "none"
      BY DEF SU!Install, SU!Change
<1>2. DOMAIN shown' = DOMAIN shown /\ \A k \in DOMAIN shown : shown[k] \subseteq shown'[k]
      <2>1. PICK src \in Products, asked \in {None, {"core"}, {"full"}} :
                shown' = [k \in DOMAIN shown |->
                            IF k \in SU!Kinds[layout]
                            THEN shown[k] \cup (IF SU!IsFull(SU!Effective(asked))
                                                THEN SU!StagedInFull(k, layout, src)
                                                ELSE SU!Staged(k, layout, SU!ProfileSkills(SU!Effective(asked), src), src))
                            ELSE shown[k]]
            BY DEF SU!Install
      <2> QED BY <2>1
<1>3. SurfaceShapes' BY <1>1, <1>2 DEF SurfaceInv, SurfaceShapes
<1>4. SU!OwnEntriesStay'
      BY <1>1, <1>2, OwnStays DEF SurfaceInv
<1> QED BY <1>1, <1>3, <1>4 DEF SurfaceInv, Running, DoneWith, SU!ShownIsResolved
\* What was copied stays until the pruning of its directory.
LEMMA CopyStep == ASSUME SurfaceInv, part' = part, SU!Copy PROVE SurfaceInv'
<1>1. PICK k \in runJob.kinds :
          /\ shown' = [shown EXCEPT ![k] = @ \cup SU!Staged(k, layout, runJob.skills, source)]
          /\ runJob' = [runJob EXCEPT !.at = "prune", !.kind = k,
                                !.staged = SU!Staged(k, layout, runJob.skills, source),
                                !.kinds = @ \ {k}]
      BY DEF SU!Copy
<1> DEFINE staged == SU!Staged(k, layout, runJob.skills, source)
           c == [runJob EXCEPT !.at = "prune", !.kind = k, !.staged = staged, !.kinds = @ \ {k}]
<1>2. runJob.at = "copy" /\ UNCHANGED <<layout, source, marker, surface, allSettled>> BY DEF SU!Copy
<1>3. SurfaceShapes /\ Running /\ DoneWith /\ SU!OwnEntriesStay BY DEF SurfaceInv
<1>4. k \in SU!Kinds[layout] /\ k \in DOMAIN shown /\ SU!Kinds[layout] \subseteq DOMAIN shown
      BY <1>2, <1>3, KindFacts DEF Running, SurfaceShapes
<1>5. /\ DOMAIN c = DOMAIN runJob /\ c.at = "prune" /\ c.kind = k /\ c.staged = staged
      /\ c.kinds = runJob.kinds \ {k} /\ c.skills = runJob.skills /\ c.whole = runJob.whole
      BY <1>3 DEF SurfaceShapes
<1>6. runJob' = c BY <1>1
<1>7. shown' = [shown EXCEPT ![k] = @ \cup staged] BY <1>1
<1> HIDE DEF c, staged
<1>8. DOMAIN shown' = DOMAIN shown /\ shown'[k] = shown[k] \cup staged
      /\ \A l \in DOMAIN shown : l # k => shown'[l] = shown[l]
      BY <1>7, <1>4
<1>9. SurfaceShapes' BY <1>2, <1>3, <1>5, <1>6, <1>8 DEF SurfaceShapes
<1>10. Running' BY <1>2, <1>3, <1>4, <1>5, <1>6, <1>8 DEF Running, staged
<1>11. DoneWith'
       <2> SUFFICES ASSUME runJob.whole, NEW l \in SU!Kinds[layout] \ c.kinds, l # k
                    PROVE  Has(l, layout, shown'[l], source) = Should(l, layout, surface, marker, source)
           BY <1>2, <1>5, <1>6 DEF DoneWith
       <2>1. l \in SU!Kinds[layout] \ runJob.kinds /\ shown'[l] = shown[l] BY <1>4, <1>5, <1>8
       <2> QED BY <2>1, <1>2, <1>3 DEF DoneWith
<1>12. SU!OwnEntriesStay'
       <2>1. \A l \in DOMAIN shown : shown[l] \subseteq shown'[l] BY <1>8
       <2> QED BY <2>1, <1>2, <1>3, <1>8, OwnStays
<1>13. SU!ShownIsResolved' BY <1>2, <1>3 DEF Running, SU!ShownIsResolved
<1> QED BY <1>9, <1>10, <1>11, <1>12, <1>13 DEF SurfaceInv

\* A run that is killed leaves what it has copied or not yet pruned.
LEMMA KilledSteps ==
    ASSUME SurfaceInv, part' = part, SU!KilledInCopy \/ SU!KilledInPrune
    PROVE  SurfaceInv'
<1>1. /\ runJob' = SU!NoJob /\ runJob.at # "none"
      /\ UNCHANGED <<layout, source, marker, surface, allSettled>>
      BY DEF SU!KilledInCopy, SU!KilledInPrune
<1>2. SurfaceShapes /\ Running /\ SU!OwnEntriesStay BY DEF SurfaceInv
<1>3. /\ DOMAIN shown' = DOMAIN shown
      /\ \A k \in DOMAIN shown : \A e \in shown[k] \ shown'[k] : SU!Ours(k, layout, e, source)
      <2>1. CASE SU!KilledInCopy
            <3>1. PICK k \in runJob.kinds : \E copied : shown' = [shown EXCEPT ![k] = @ \cup copied]
                  BY <2>1 DEF SU!KilledInCopy
            <3> QED BY <3>1
      <2>2. CASE SU!KilledInPrune
            <3>1. PICK gone \in SUBSET SU!Prunable(runJob.kind, runJob.staged) :
                      shown' = [shown EXCEPT ![runJob.kind] = @ \ gone]
                  BY <2>2 DEF SU!KilledInPrune
            <3>2. \A e \in gone : SU!Ours(runJob.kind, layout, e, source) BY <3>1 DEF SU!Prunable
            <3> QED BY <3>1, <3>2
      <2> QED BY <2>1, <2>2
<1>4. SurfaceShapes' BY <1>1, <1>2, <1>3, NoJobIs DEF SurfaceShapes, NoJobFacts
<1>5. SU!OwnEntriesStay' BY <1>1, <1>2, <1>3, OwnStays
<1>6. Running' /\ DoneWith' BY <1>1, NoJobIs DEF Running, DoneWith, NoJobFacts
<1>7. SU!ShownIsResolved' BY <1>1, <1>2 DEF Running, SU!ShownIsResolved
<1> QED BY <1>4, <1>5, <1>6, <1>7 DEF SurfaceInv

\* Pruning leaves of the product's entries those that were staged.
LEMMA PruneSteps ==
    ASSUME SurfaceInv, part' = part, SU!Prune \/ SU!PruneMisses
    PROVE  SurfaceInv'
<1> DEFINE k == runJob.kind
           prunable == SU!Prunable(runJob.kind, runJob.staged)
<1>1. PICK whole \in {runJob.whole, FALSE}, left \in SUBSET prunable :
          /\ runJob.at = "prune" /\ SU!Finish(whole)
          /\ shown' = [shown EXCEPT ![k] = (@ \ prunable) \cup left]
          /\ whole => runJob.whole /\ left = {}
      <2>1. CASE SU!Prune
            <3>1. shown' = [shown EXCEPT ![k] = (@ \ prunable) \cup {}]
                  BY <2>1 DEF SU!Prune
            <3>2. runJob.whole \in {runJob.whole, FALSE} /\ {} \in SUBSET prunable OBVIOUS
            <3>3. runJob.at = "prune" /\ SU!Finish(runJob.whole) BY <2>1 DEF SU!Prune
            <3> HIDE DEF prunable, k
            <3> WITNESS runJob.whole \in {runJob.whole, FALSE}, {} \in SUBSET prunable
            <3> QED BY <3>1, <3>3 DEF k
      <2>2. CASE SU!PruneMisses
            <3>1. PICK e \in prunable : shown' = [shown EXCEPT ![k] = (@ \ prunable) \cup {e}]
                  BY <2>2 DEF SU!PruneMisses
            <3>2. FALSE \in {runJob.whole, FALSE} /\ {e} \in SUBSET prunable OBVIOUS
            <3>3. runJob.at = "prune" /\ SU!Finish(FALSE) BY <2>2 DEF SU!PruneMisses
            <3> HIDE DEF prunable, k
            <3> WITNESS FALSE \in {runJob.whole, FALSE}, {e} \in SUBSET prunable
            <3> QED BY <3>1, <3>3 DEF k
      <2> QED BY <2>1, <2>2
<1>2. UNCHANGED <<layout, source, marker, surface>> BY <1>1 DEF SU!Finish
<1>3. SurfaceShapes /\ Running /\ DoneWith /\ SU!OwnEntriesStay BY DEF SurfaceInv
<1>4. /\ k \in SU!Kinds[layout] \ runJob.kinds /\ runJob.kinds \subseteq SU!Kinds[layout]
      /\ k \in DOMAIN shown /\ SU!Kinds[layout] \subseteq DOMAIN shown
      /\ runJob.staged = Should(k, layout, surface, marker, source) /\ runJob.staged \subseteq shown[k]
      BY <1>1, <1>3, KindFacts DEF Running, SurfaceShapes, Should
<1>5. /\ DOMAIN shown' = DOMAIN shown /\ shown'[k] = (shown[k] \ prunable) \cup left
      /\ \A l \in DOMAIN shown : l # k => shown'[l] = shown[l]
      BY <1>1, <1>4
<1>6. prunable = {e \in shown[k] \ runJob.staged : SU!Ours(k, layout, e, source)} BY DEF SU!Prunable
<1>7. left = {} => Has(k, layout, shown'[k], source) = Should(k, layout, surface, marker, source)
      <2>1. \A e \in runJob.staged : SU!Ours(k, layout, e, source)
            BY <1>4, <1>3, StagedIsOurs DEF Should, SurfaceShapes
      <2> QED BY <2>1, <1>4, <1>5, <1>6 DEF Has
<1>8. \A l \in SU!Kinds[layout] : l \notin runJob.kinds /\ runJob.whole /\ left = {} =>
          Has(l, layout, shown'[l], source) = Should(l, layout, surface, marker, source)
      BY <1>1, <1>3, <1>4, <1>5, <1>7 DEF DoneWith
<1>9. SU!OwnEntriesStay'
      <2>1. \A l \in DOMAIN shown : \A e \in shown[l] \ shown'[l] : SU!Ours(l, layout, e, source)
            BY <1>5, <1>6
      <2> QED BY <2>1, <1>2, <1>3, <1>5, OwnStays
<1> HIDE DEF k, prunable
<1>10. CASE runJob.kinds = {}
       <2>1. runJob' = SU!NoJob /\ allSettled' = (runJob.kinds = {} /\ whole) BY <1>10, <1>1 DEF SU!Finish
       <2>2. SurfaceShapes' BY <2>1, <1>2, <1>3, <1>5, NoJobIs DEF SurfaceShapes, NoJobFacts
       <2>3. Running' /\ DoneWith' BY <2>1, NoJobIs DEF Running, DoneWith, NoJobFacts
       <2>4. SU!ShownIsResolved'
             <3>1. whole => \A l \in SU!Kinds[layout] :
                       Has(l, layout, shown'[l], source) = Should(l, layout, surface, marker, source)
                   BY <1>1, <1>8, <1>10
             <3>2. allSettled' => whole BY <2>1
             <3> QED BY <3>1, <3>2, <1>2 DEF SU!ShownIsResolved, Has, Should
       <2> QED BY <2>2, <2>3, <2>4, <1>9 DEF SurfaceInv
<1>11. CASE runJob.kinds # {}
       <2> DEFINE c == [runJob EXCEPT !.at = "copy", !.whole = whole]
       <2>1. runJob' = c /\ (allSettled' <=> FALSE) BY <1>11, <1>1 DEF SU!Finish
       <2>2. /\ DOMAIN c = DOMAIN runJob /\ c.at = "copy" /\ c.whole = whole
             /\ c.kinds = runJob.kinds /\ c.skills = runJob.skills
             BY <1>3 DEF SurfaceShapes
       <2> HIDE DEF c
       <2>3. SurfaceShapes' BY <2>1, <2>2, <1>2, <1>3, <1>5 DEF SurfaceShapes
       <2>4. Running' BY <2>1, <2>2, <1>1, <1>2, <1>3, <1>4 DEF Running
       <2>5. DoneWith' BY <2>1, <2>2, <1>1, <1>2, <1>8 DEF DoneWith
       <2>6. SU!ShownIsResolved' BY <2>1 DEF SU!ShownIsResolved
       <2> QED BY <2>3, <2>4, <2>5, <2>6, <1>9 DEF SurfaceInv
<1> QED BY <1>10, <1>11

-----------------------------------------------------------------------------
(* The specification. *)

LEMMA SurfaceInit == part = "surface" /\ SU!Init => SurfaceInv
<1> SUFFICES ASSUME part = "surface", SU!Init PROVE SurfaceInv
    OBVIOUS
<1>1. /\ layout \in DOMAIN SU!Kinds /\ source \in Products /\ shown = SU!Own /\ runJob = SU!NoJob
      /\ allSettled = FALSE /\ ~SU!IsSurface(surface)
      BY DEF SU!Init, SU!IsSurface
<1>2. SurfaceShapes BY <1>1, NoJobIs DEF SurfaceShapes, NoJobFacts
<1>3. SU!OwnEntriesStay BY <1>1 DEF SU!OwnEntriesStay
<1> QED BY <1>1, <1>2, <1>3, NoJobIs
    DEF SurfaceInv, Running, DoneWith, SU!ShownIsResolved, NoJobFacts

LEMMA SurfaceStep == SurfaceInv /\ part' = part /\ [SU!Next]_(SU!vars) => SurfaceInv'
<1> SUFFICES ASSUME SurfaceInv, part' = part, [SU!Next]_(SU!vars) PROVE SurfaceInv'
    OBVIOUS
<1>1. CASE SU!Next
      BY <1>1, SurfaceSteps, InstallStep, CopyStep, KilledSteps, PruneSteps DEF SU!Next
<1>2. CASE UNCHANGED SU!vars
      BY <1>2 DEF SU!vars, SurfaceInv, SurfaceShapes, Running, DoneWith, SU!ShownIsResolved,
                  SU!OwnEntriesStay
<1> QED BY <1>1, <1>2

LEMMA SurfaceAnswers == SurfaceInv => SU!ShownIsResolved /\ SU!OwnEntriesStay /\ SU!SurfaceIsClosed
<1> SUFFICES ASSUME SurfaceInv
             PROVE  SU!ShownIsResolved /\ SU!OwnEntriesStay /\ SU!SurfaceIsClosed
    OBVIOUS
<1>1. source \in Products /\ (SU!IsSurface(surface) => surface.adds \subseteq SU!Stems)
      BY DEF SurfaceInv, SurfaceShapes
<1>2. \A base \in SUBSET SU!Stems, all \in SUBSET SU!Stems :
          base \subseteq all /\ SU!Direct(all, source) = all => SU!Closure(base, source) \subseteq all
      BY <1>1, ClosureFacts
<1>3. SU!SurfaceIsClosed BY <1>1, <1>2, ResolvedIsClosed DEF SU!SurfaceIsClosed
<1> QED BY <1>3 DEF SurfaceInv

-----------------------------------------------------------------------------
(* Learnings.  The part's variables, by their names there. *)

store == v1
process == v2
promised == v3
idsIssued == v4      \* issued
calls == v5
crashes == v6
overlaps == v7

RecordFields == {"id", "hash", "old", "by"}
ProcessFields == {"at", "todo", "index", "ids", "id", "met"}

LearningShapes ==
    /\ \A r \in store : DOMAIN r = RecordFields
    /\ DOMAIN process = Procs /\ \A p \in Procs : DOMAIN process[p] = ProcessFields

\* A process that looked knows of every learning, or another wrote it since.
Looked(c, stored) ==
    /\ c.at = "write" /\ Head(c.todo) \in stored => Head(c.todo) \in c.met
    /\ c.at = "copy" => stored \subseteq c.index \cup c.met

\* What a process stored itself it does not store again.
StoredBy(p) == {r.hash : r \in {s \in store : s.by = p}}
KnowsOwn(c, own) ==
    /\ c.at = "write" => Head(c.todo) \notin own
    /\ c.at = "copy" => own \subseteq c.index

LearningsInv ==
    /\ part = "learnings"
    /\ LearningShapes /\ LE!StoredOnce /\ LE!ReportedIsStored
    /\ \A p \in Procs : Looked(process[p], LE!Stored) /\ KnowsOwn(process[p], StoredBy(p))

USE DEF store, process, promised, idsIssued, calls, crashes, overlaps

LEMMA IdleFacts == DOMAIN LE!Idle = ProcessFields /\ LE!Idle.at = "none"
BY DEF LE!Idle, ProcessFields

\* A step that leaves the store.
LEMMA LooksOn ==
    ASSUME LearningsInv, part' = part, NEW p \in Procs, NEW c,
           process' = [process EXCEPT ![p] = c], UNCHANGED store,
           DOMAIN c = ProcessFields, Looked(c, LE!Stored), KnowsOwn(c, StoredBy(p)),
           overlaps \subseteq overlaps', LE!ReportedIsStored'
    PROVE  LearningsInv'
<1>1. /\ LearningShapes /\ LE!StoredOnce
      /\ \A q \in Procs : Looked(process[q], LE!Stored) /\ KnowsOwn(process[q], StoredBy(q))
      BY DEF LearningsInv
<1>2. LE!Stored' = LE!Stored /\ \A q \in Procs : StoredBy(q)' = StoredBy(q) BY DEF LE!Stored, StoredBy
<1>3. LearningShapes' BY <1>1 DEF LearningShapes
<1>4. LE!StoredOnce' BY <1>1 DEF LE!StoredOnce
<1>5. \A q \in Procs : process'[q] = IF q = p THEN c ELSE process[q] BY <1>1 DEF LearningShapes
<1>6. \A q \in Procs : Looked(process'[q], LE!Stored') /\ KnowsOwn(process'[q], StoredBy(q)')
      <2> TAKE q \in Procs
      <2>1. CASE q = p BY <2>1, <1>2, <1>5
      <2>2. CASE q # p BY <2>2, <1>1, <1>2, <1>5
      <2> QED BY <2>1, <2>2
<1>7. (\A q \in Procs : Looked(process[q], LE!Stored) /\ KnowsOwn(process[q], StoredBy(q)))' BY <1>6
<1> QED BY <1>3, <1>4, <1>7 DEF LearningsInv

\* A process writes a learning: the others hear of it.
LEMMA WritesFile ==
    ASSUME LearningsInv, part' = part, NEW p \in Procs, NEW h, NEW c, LE!WritesFile(p, h, c),
           DOMAIN c = ProcessFields, Looked(c, LE!Stored \cup {h}), KnowsOwn(c, StoredBy(p) \cup {h}),
           h \in LE!Stored => h \in process[p].met, h \notin StoredBy(p)
    PROVE  LearningsInv'
<1> DEFINE r == [id |-> idsIssued + 1, hash |-> h, old |-> FALSE, by |-> p]
<1>1. /\ LearningShapes /\ LE!StoredOnce /\ LE!ReportedIsStored
      /\ \A q \in Procs : Looked(process[q], LE!Stored) /\ KnowsOwn(process[q], StoredBy(q))
      BY DEF LearningsInv
<1>2. /\ store' = store \cup {r} /\ promised' = promised \cup {h}
      /\ overlaps' = overlaps \cup (IF h \in process[p].met THEN {<<"written", h>>} ELSE {})
      BY DEF LE!WritesFile, LE!Record, LE!Promise
<1>3. r.hash = h /\ r.by = p /\ DOMAIN r = RecordFields BY DEF RecordFields
<1> HIDE DEF r
<1>4. /\ LE!Stored' = LE!Stored \cup {h} /\ StoredBy(p)' = StoredBy(p) \cup {h}
      /\ \A q \in Procs \ {p} : StoredBy(q)' = StoredBy(q)
      <2>1. LE!Stored' = LE!Stored \cup {h} BY <1>2, <1>3 DEF LE!Stored
      <2>2. ASSUME NEW q \in Procs
            PROVE  StoredBy(q)' = IF q = p THEN StoredBy(p) \cup {h} ELSE StoredBy(q)
            BY <1>2, <1>3 DEF StoredBy
      <2> QED BY <2>1, <2>2
<1>5. process' = [q \in Procs |-> IF q = p THEN c
                                  ELSE IF process[q].at = "none" THEN process[q]
                                  ELSE [process[q] EXCEPT !.met = @ \cup {h}]]
      BY DEF LE!WritesFile, LE!Saw
<1>6. LearningShapes' BY <1>1, <1>2, <1>3, <1>5 DEF LearningShapes
<1>7. LE!StoredOnce'
      <2> SUFFICES ASSUME NEW a \in store', NEW b \in store', a.hash = b.hash, a # b
                   PROVE  a.by # b.by /\ <<"written", a.hash>> \in overlaps'
          BY DEF LE!StoredOnce
      <2>1. CASE a \in store /\ b \in store BY <2>1, <1>1, <1>2 DEF LE!StoredOnce
      <2>2. ASSUME NEW s \in store, s.hash = h PROVE s.by # p /\ <<"written", h>> \in overlaps'
            <3>1. h \in LE!Stored BY <2>2 DEF LE!Stored
            <3>2. s.by # p BY <2>2 DEF StoredBy
            <3> QED BY <3>1, <3>2, <1>2
      <2>3. CASE a = r /\ b \in store BY <2>2, <2>3, <1>3
      <2>4. CASE b = r /\ a \in store BY <2>2, <2>4, <1>3
      <2> QED BY <2>1, <2>3, <2>4, <1>2
<1>8. LE!ReportedIsStored' BY <1>1, <1>2, <1>4 DEF LE!ReportedIsStored
<1>9. \A q \in Procs : Looked(process'[q], LE!Stored') /\ KnowsOwn(process'[q], StoredBy(q)')
      <2> TAKE q \in Procs
      <2>1. CASE q = p BY <2>1, <1>4, <1>5
      <2>2. CASE q # p /\ process[q].at = "none" BY <2>2, <1>4, <1>5 DEF Looked, KnowsOwn
      <2>3. CASE q # p /\ process[q].at # "none"
            <3> DEFINE d == [process[q] EXCEPT !.met = @ \cup {h}]
            <3>1. /\ process'[q] = d /\ d.at = process[q].at /\ d.todo = process[q].todo
                  /\ d.index = process[q].index /\ d.met = process[q].met \cup {h}
                  BY <2>3, <1>1, <1>5 DEF LearningShapes, ProcessFields
            <3>2. Looked(process[q], LE!Stored) /\ KnowsOwn(process[q], StoredBy(q)) BY <1>1
            <3>3. StoredBy(q)' = StoredBy(q) BY <2>3, <1>4
            <3> HIDE DEF d
            <3> QED BY <3>1, <3>2, <3>3, <1>4 DEF Looked, KnowsOwn
      <2> QED BY <2>1, <2>2, <2>3
<1>10. (\A q \in Procs : Looked(process[q], LE!Stored) /\ KnowsOwn(process[q], StoredBy(q)))' BY <1>9
<1> QED BY <1>6, <1>7, <1>8, <1>10 DEF LearningsInv

\* The commands begin, and prune reads: nothing is stored or reported.
LEMMA QuietSteps ==
    ASSUME LearningsInv, part' = part, NEW p \in Procs,
           LE!BeginWrite(p) \/ LE!BeginCopy(p) \/ LE!BeginPrune(p) \/ LE!PruneReads(p) \/ LE!Crash(p)
    PROVE  LearningsInv'
<1>1. PICK c : /\ process' = [process EXCEPT ![p] = c] /\ DOMAIN c = ProcessFields
               /\ c.at \notin {"write", "copy"}
      <2>1. CASE LE!BeginWrite(p)
            <3>1. PICK h : process' = [process EXCEPT ![p] = [LE!Idle EXCEPT !.at = "scan", !.todo = <<h>>]]
                  BY <2>1 DEF LE!BeginWrite, LE!Begin
            <3> DEFINE c == [LE!Idle EXCEPT !.at = "scan", !.todo = <<h>>]
            <3>2. DOMAIN c = ProcessFields /\ c.at = "scan" BY IdleFacts DEF ProcessFields
            <3> HIDE DEF c
            <3> QED BY <3>1, <3>2 DEF c
      <2>2. CASE LE!BeginCopy(p)
            <3>1. PICK d : process' = [process EXCEPT ![p] = [LE!Idle EXCEPT !.at = "index", !.todo = d]]
                  BY <2>2 DEF LE!BeginCopy, LE!Begin
            <3> DEFINE c == [LE!Idle EXCEPT !.at = "index", !.todo = d]
            <3>2. DOMAIN c = ProcessFields /\ c.at = "index" BY IdleFacts DEF ProcessFields
            <3> HIDE DEF c
            <3> QED BY <3>1, <3>2 DEF c
      <2>3. CASE LE!BeginPrune(p)
            <3>1. process' = [process EXCEPT ![p] = [LE!Idle EXCEPT !.at = "prune", !.ids = {r.id : r \in store}]]
                  BY <2>3 DEF LE!BeginPrune, LE!Begin
            <3> DEFINE c == [LE!Idle EXCEPT !.at = "prune", !.ids = {r.id : r \in store}]
            <3>2. DOMAIN c = ProcessFields /\ c.at = "prune" BY IdleFacts DEF ProcessFields
            <3> HIDE DEF c
            <3> QED BY <3>1, <3>2 DEF c
      <2>4. CASE LE!PruneReads(p)
            <3>1. DOMAIN process[p] = ProcessFields BY DEF LearningsInv, LearningShapes
            <3>2. CASE process[p].ids = {} BY <2>4, <3>2, IdleFacts DEF LE!PruneReads, LE!Goes
            <3>3. CASE process[p].ids # {}
                  <4>1. PICK i : LE!Goes(p, [process[p] EXCEPT !.ids = @ \ {i}, !.id = i,
                                   !.at = IF \E r \in store : r.id = i /\ r.old THEN "unlink" ELSE "prune"])
                        BY <2>4, <3>3 DEF LE!PruneReads
                  <4> DEFINE c == [process[p] EXCEPT !.ids = @ \ {i}, !.id = i,
                                   !.at = IF \E r \in store : r.id = i /\ r.old THEN "unlink" ELSE "prune"]
                  <4>2. DOMAIN c = ProcessFields /\ c.at \in {"unlink", "prune"}
                        BY <3>1 DEF ProcessFields
                  <4>3. process' = [process EXCEPT ![p] = c] BY <4>1 DEF LE!Goes
                  <4> HIDE DEF c
                  <4> QED BY <4>2, <4>3
            <3> QED BY <3>2, <3>3
      <2>5. CASE LE!Crash(p) BY <2>5, IdleFacts DEF LE!Crash, LE!Goes
      <2> QED BY <2>1, <2>2, <2>3, <2>4, <2>5
<1>2. UNCHANGED <<store, promised, overlaps>>
      BY DEF LE!BeginWrite, LE!BeginCopy, LE!BeginPrune, LE!Begin, LE!PruneReads, LE!Crash
<1>3. LE!ReportedIsStored' BY <1>2 DEF LearningsInv, LE!ReportedIsStored, LE!Stored
<1>4. Looked(c, LE!Stored) /\ KnowsOwn(c, StoredBy(p)) BY <1>1 DEF Looked, KnowsOwn
<1> QED BY <1>1, <1>2, <1>3, <1>4, LooksOn

LEMMA OwnIsStored == ASSUME NEW p PROVE StoredBy(p) \subseteq LE!Stored
BY DEF StoredBy, LE!Stored

\* What is found need not be written; otherwise the look is remembered.
LEMMA LookSteps ==
    ASSUME LearningsInv, part' = part, NEW p \in Procs, LE!Scan(p) \/ LE!Index(p)
    PROVE  LearningsInv'
<1>1. DOMAIN process[p] = ProcessFields BY DEF LearningsInv, LearningShapes
<1>2. CASE LE!Scan(p) /\ Head(process[p].todo) \in LE!Stored
      <2>1. /\ process' = [process EXCEPT ![p] = LE!Idle]
            /\ promised' = promised \cup {Head(process[p].todo)} /\ UNCHANGED <<store, overlaps>>
            BY <1>2 DEF LE!Scan, LE!Goes, LE!Promise
      <2>2. LE!ReportedIsStored' BY <1>2, <2>1 DEF LearningsInv, LE!ReportedIsStored, LE!Stored
      <2>3. Looked(LE!Idle, LE!Stored) /\ KnowsOwn(LE!Idle, StoredBy(p)) BY IdleFacts DEF Looked, KnowsOwn
      <2> QED BY <2>1, <2>2, <2>3, IdleFacts, LooksOn
<1>3. CASE LE!Scan(p) /\ Head(process[p].todo) \notin LE!Stored
      <2> DEFINE c == [process[p] EXCEPT !.at = "write", !.met = {}]
      <2>1. process' = [process EXCEPT ![p] = c] /\ UNCHANGED <<store, promised, overlaps>>
            BY <1>3 DEF LE!Scan, LE!Goes
      <2>2. DOMAIN c = ProcessFields /\ c.at = "write" /\ c.todo = process[p].todo
            BY <1>1 DEF ProcessFields
      <2> HIDE DEF c
      <2>3. LE!ReportedIsStored' BY <2>1 DEF LearningsInv, LE!ReportedIsStored, LE!Stored
      <2>4. Looked(c, LE!Stored) /\ KnowsOwn(c, StoredBy(p))
            BY <2>2, <1>3, OwnIsStored DEF Looked, KnowsOwn
      <2> QED BY <2>1, <2>2, <2>3, <2>4, LooksOn
<1>4. CASE LE!Index(p)
      <2> DEFINE c == [process[p] EXCEPT !.at = "copy", !.index = LE!Stored, !.met = {}]
      <2>1. process' = [process EXCEPT ![p] = c] /\ UNCHANGED <<store, promised, overlaps>>
            BY <1>4 DEF LE!Index, LE!Goes
      <2>2. DOMAIN c = ProcessFields /\ c.at = "copy" /\ c.index = LE!Stored
            BY <1>1 DEF ProcessFields
      <2> HIDE DEF c
      <2>3. LE!ReportedIsStored' BY <2>1 DEF LearningsInv, LE!ReportedIsStored, LE!Stored
      <2>4. Looked(c, LE!Stored) /\ KnowsOwn(c, StoredBy(p))
            BY <2>2, OwnIsStored DEF Looked, KnowsOwn
      <2> QED BY <2>1, <2>2, <2>3, <2>4, LooksOn
<1> QED BY <1>2, <1>3, <1>4

\* A copy keeps its index up to date with what it writes itself.
LEMMA WriteSteps ==
    ASSUME LearningsInv, part' = part, NEW p \in Procs, LE!WriteOne(p) \/ LE!CopySection(p)
    PROVE  LearningsInv'
<1> DEFINE h == Head(process[p].todo)
           after == LE!AfterSection(process[p], h)
<1>1. /\ DOMAIN process[p] = ProcessFields /\ Looked(process[p], LE!Stored)
      /\ KnowsOwn(process[p], StoredBy(p)) /\ LE!ReportedIsStored
      BY DEF LearningsInv, LearningShapes
<1>2. /\ Looked(LE!Idle, LE!Stored) /\ Looked(LE!Idle, LE!Stored \cup {h})
      /\ KnowsOwn(LE!Idle, StoredBy(p) \cup {h})
      BY IdleFacts DEF Looked, KnowsOwn
<1>3. CASE LE!WriteOne(p)
      <2>1. LE!WritesFile(p, h, LE!Idle) /\ process[p].at = "write" BY <1>3 DEF LE!WriteOne
      <2>2. (h \in LE!Stored => h \in process[p].met) /\ h \notin StoredBy(p)
            BY <2>1, <1>1 DEF Looked, KnowsOwn
      <2> HIDE DEF h
      <2> QED BY <2>1, <2>2, <1>2, IdleFacts, WritesFile
<1>4. CASE LE!CopySection(p)
      <2>1. process[p].at = "copy" BY <1>4 DEF LE!CopySection
      <2>2. /\ DOMAIN after = ProcessFields
            /\ after.at = "none" \/ (after.at = "copy" /\ after.index = process[p].index \cup {h}
                                       /\ after.met = process[p].met)
            <3>1. CASE Len(process[p].todo) = 1 BY <3>1, IdleFacts DEF LE!AfterSection
            <3>2. CASE Len(process[p].todo) # 1
                  <4> DEFINE c == [process[p] EXCEPT !.todo = Tail(@), !.index = LE!Indexed(process[p], h)]
                  <4>1. after = c BY <3>2 DEF LE!AfterSection
                  <4>2. /\ DOMAIN c = ProcessFields /\ c.at = process[p].at /\ c.met = process[p].met
                        /\ c.index = process[p].index \cup {h}
                        BY <1>1 DEF ProcessFields, LE!Indexed
                  <4> HIDE DEF c, after
                  <4> QED BY <4>1, <4>2, <2>1
            <3> QED BY <3>1, <3>2
      <2> HIDE DEF after
      <2>3. /\ Looked(after, LE!Stored \cup {h}) /\ Looked(after, LE!Stored)
            /\ KnowsOwn(after, StoredBy(p) \cup {h}) /\ KnowsOwn(after, StoredBy(p))
            BY <2>1, <2>2, <1>1 DEF Looked, KnowsOwn
      <2>4. CASE h \in process[p].index
            <3>1. /\ process' = [process EXCEPT ![p] = after] /\ promised' = promised \cup {h}
                  /\ overlaps' = overlaps \cup (IF h \in LE!Stored THEN {} ELSE {<<"removed", h>>})
                  /\ UNCHANGED store
                  BY <1>4, <2>4 DEF LE!CopySection, LE!Goes, LE!Promise, after
            <3>2. LE!ReportedIsStored' BY <3>1, <1>1 DEF LE!ReportedIsStored, LE!Stored
            <3> QED BY <3>1, <3>2, <2>2, <2>3, LooksOn
      <2>5. CASE h \notin process[p].index
            <3>1. LE!WritesFile(p, h, after) BY <1>4, <2>5 DEF LE!CopySection, after
            <3>2. (h \in LE!Stored => h \in process[p].met) /\ h \notin StoredBy(p)
                  BY <2>1, <2>5, <1>1 DEF Looked, KnowsOwn
            <3> HIDE DEF h
            <3> QED BY <3>1, <3>2, <2>2, <2>3, WritesFile
      <2> QED BY <2>4, <2>5
<1> QED BY <1>3, <1>4

\* A removal takes its promise back.
LEMMA Removal ==
    ASSUME LearningsInv, part' = part, NEW i, LE!Removes(i), UNCHANGED overlaps,
           DOMAIN process' = Procs,
           \A p \in Procs : /\ DOMAIN process'[p] = ProcessFields /\ Looked(process'[p], LE!Stored)
                            /\ KnowsOwn(process'[p], StoredBy(p))
    PROVE  LearningsInv'
<1>1. LearningShapes /\ LE!StoredOnce /\ LE!ReportedIsStored BY DEF LearningsInv
<1>2. store' = {r \in store : r.id # i}
      /\ promised' = promised \ {r.hash : r \in {s \in store : s.id = i}}
      BY DEF LE!Removes
<1>3. LE!Stored' \subseteq LE!Stored /\ \A q \in Procs : StoredBy(q)' \subseteq StoredBy(q)
      BY <1>2 DEF LE!Stored, StoredBy
<1>4. \A q \in Procs : Looked(process'[q], LE!Stored') /\ KnowsOwn(process'[q], StoredBy(q)')
      BY <1>3 DEF Looked, KnowsOwn
<1>5. (\A q \in Procs : Looked(process[q], LE!Stored) /\ KnowsOwn(process[q], StoredBy(q)))' BY <1>4
<1>6. LE!ReportedIsStored'
      <2> SUFFICES ASSUME NEW h \in promised', <<"removed", h>> \notin overlaps PROVE h \in LE!Stored'
          BY DEF LE!ReportedIsStored
      <2>1. PICK r \in store : r.hash = h BY <1>1, <1>2 DEF LE!ReportedIsStored, LE!Stored
      <2>2. r.id # i BY <1>2, <2>1
      <2> QED BY <2>1, <2>2, <1>2 DEF LE!Stored
<1>7. LearningShapes' BY <1>1, <1>2 DEF LearningShapes
<1>8. LE!StoredOnce' BY <1>1, <1>2 DEF LE!StoredOnce
<1> QED BY <1>5, <1>6, <1>7, <1>8 DEF LearningsInv

LEMMA RemovalSteps ==
    ASSUME LearningsInv, part' = part, LE!Delete \/ \E p \in Procs : LE!PruneUnlinks(p)
    PROVE  LearningsInv'
<1>1. /\ DOMAIN process = Procs
      /\ \A p \in Procs : /\ DOMAIN process[p] = ProcessFields /\ Looked(process[p], LE!Stored)
                          /\ KnowsOwn(process[p], StoredBy(p))
      BY DEF LearningsInv, LearningShapes
<1>2. CASE LE!Delete
      <2>1. PICK r \in store : LE!Removes(r.id) BY <1>2 DEF LE!Delete
      <2>2. UNCHANGED <<process, overlaps>> BY <1>2 DEF LE!Delete
      <2> QED BY <2>1, <2>2, <1>1, Removal
<1>3. CASE \E p \in Procs : LE!PruneUnlinks(p)
      <2>1. PICK p \in Procs : LE!PruneUnlinks(p) BY <1>3
      <2>2. CASE \E r \in store : r.id = process[p].id
            <3> DEFINE c == [process[p] EXCEPT !.at = "prune"]
            <3>1. process' = [process EXCEPT ![p] = c] /\ LE!Removes(process[p].id) /\ UNCHANGED overlaps
                  BY <2>1, <2>2 DEF LE!PruneUnlinks, LE!Goes
            <3>2. DOMAIN c = ProcessFields /\ c.at = "prune" BY <1>1 DEF ProcessFields
            <3> HIDE DEF c
            <3>3. DOMAIN process' = Procs /\ \A q \in Procs : process'[q] = IF q = p THEN c ELSE process[q]
                  BY <3>1, <1>1
            <3>4. \A q \in Procs : /\ DOMAIN process'[q] = ProcessFields /\ Looked(process'[q], LE!Stored)
                                   /\ KnowsOwn(process'[q], StoredBy(q))
                  BY <3>2, <3>3, <1>1 DEF Looked, KnowsOwn
            <3> QED BY <3>1, <3>3, <3>4, Removal
      <2>3. CASE ~\E r \in store : r.id = process[p].id
            <3>1. process' = [process EXCEPT ![p] = LE!Idle] /\ UNCHANGED <<store, promised, overlaps>>
                  BY <2>1, <2>3 DEF LE!PruneUnlinks, LE!Goes
            <3>2. LE!ReportedIsStored' BY <3>1 DEF LearningsInv, LE!ReportedIsStored, LE!Stored
            <3>3. Looked(LE!Idle, LE!Stored) /\ KnowsOwn(LE!Idle, StoredBy(p))
                  BY IdleFacts DEF Looked, KnowsOwn
            <3> QED BY <3>1, <3>2, <3>3, IdleFacts, LooksOn
      <2> QED BY <2>2, <2>3
<1> QED BY <1>2, <1>3

\* Growing old changes no learning.
LEMMA AgeStep == ASSUME LearningsInv, part' = part, LE!Age PROVE LearningsInv'
<1> DEFINE Old(r) == [r EXCEPT !.old = TRUE]
<1>1. store' = {Old(r) : r \in store} /\ UNCHANGED <<process, promised, overlaps>> BY DEF LE!Age
<1>2. LearningShapes /\ LE!StoredOnce /\ LE!ReportedIsStored BY DEF LearningsInv
<1>3. \A r \in store : /\ Old(r).hash = r.hash /\ Old(r).by = r.by
                       /\ DOMAIN Old(r) = RecordFields
      BY <1>2 DEF LearningShapes, RecordFields
<1> HIDE DEF Old
<1>4. LE!Stored' = LE!Stored BY <1>1, <1>3 DEF LE!Stored
<1>9. \A q \in Procs : StoredBy(q)' = StoredBy(q) BY <1>1, <1>3 DEF StoredBy
<1>5. LearningShapes' BY <1>1, <1>2, <1>3 DEF LearningShapes
<1>6. LE!StoredOnce' BY <1>1, <1>2, <1>3 DEF LE!StoredOnce
<1>7. LE!ReportedIsStored' BY <1>1, <1>2, <1>4 DEF LE!ReportedIsStored
<1>8. (\A q \in Procs : Looked(process[q], LE!Stored) /\ KnowsOwn(process[q], StoredBy(q)))'
      BY <1>1, <1>4, <1>9 DEF LearningsInv
<1> QED BY <1>5, <1>6, <1>7, <1>8 DEF LearningsInv

LEMMA LearningsInit == part = "learnings" /\ LE!Init => LearningsInv
<1> SUFFICES ASSUME part = "learnings", LE!Init PROVE LearningsInv
    OBVIOUS
<1>1. /\ process = [p \in Procs |-> LE!Idle] /\ promised = {}
      /\ \E h : store \in {{}, {[id |-> 0, hash |-> h, old |-> TRUE, by |-> None]}}
      BY DEF LE!Init
<1>2. \A r \in store : DOMAIN r = RecordFields BY <1>1 DEF RecordFields
<1>3. \A r, s \in store : r = s BY <1>1
<1> QED BY <1>1, <1>2, <1>3, IdleFacts
    DEF LearningsInv, LearningShapes, LE!StoredOnce, LE!ReportedIsStored, Looked, KnowsOwn

LEMMA LearningsStep == LearningsInv /\ part' = part /\ [LE!Next]_(LE!vars) => LearningsInv'
<1> SUFFICES ASSUME LearningsInv, part' = part, [LE!Next]_(LE!vars) PROVE LearningsInv'
    OBVIOUS
<1>1. CASE LE!Next
      BY <1>1, QuietSteps, LookSteps, WriteSteps, RemovalSteps, AgeStep DEF LE!Next
<1>2. CASE UNCHANGED LE!vars
      BY <1>2 DEF LE!vars, LearningsInv, LearningShapes, LE!StoredOnce, LE!ReportedIsStored, Looked, LE!Stored,
                     KnowsOwn, StoredBy
<1> QED BY <1>1, <1>2

-----------------------------------------------------------------------------
(* The knowledge graph: what a query finds. *)

\* A set of numbers that is not empty has a least one.
LEMMA Least == ASSUME NEW S \in SUBSET Nat, S # {} PROVE \E c \in S : \A d \in S : c <= d
<1> DEFINE Less == {pair \in Nat \X Nat : pair[1] < pair[2]}
<1>1. IsWellFoundedOn(OpToRel(<, Nat), Nat) BY NatLessThanWellFounded
<1>2. OpToRel(<, Nat) = Less BY DEF OpToRel
<1>3. PICK c \in S : \A d \in S : <<d, c>> \notin Less
      <2> HIDE DEF Less
      <2> QED BY <1>1, <1>2, WFMin
<1>4. \A x, y \in Nat : x < y => <<x, y>> \in Less OBVIOUS
<1>5. \A d \in S : ~(d < c) BY <1>3, <1>4
<1> QED BY <1>3, <1>5

Tier(g, i) == g.edges[i].tier
\* A graph that graphify made.
GraphLike(g) ==
    /\ IsFiniteSet(g.nodes) /\ DOMAIN g.edges \subseteq Nat /\ IsFiniteSet(DOMAIN g.edges)
    /\ \A i \in DOMAIN g.edges : Tier(g, i) \in {"AMBIGUOUS", "INFERRED", "EXTRACTED", "none"}

\* Taking the first edge of each key early changes nothing.
LEMMA FirstOfFirst ==
    ASSUME NEW g, NEW A \in SUBSET Nat, NEW B \in SUBSET Nat
    PROVE  KG!FirstOfKey(g, KG!FirstOfKey(g, A) \cup B) = KG!FirstOfKey(g, A \cup B)
<1> DEFINE K(i) == KG!Key(g.edges[i])
           First(I) == {i \in I : \A j \in I : K(j) = K(i) => i <= j}
<1>1. \A I : KG!FirstOfKey(g, I) = First(I) BY DEF KG!FirstOfKey
<1> HIDE DEF K
<1>2. \A j \in A : \E i \in First(A) : K(i) = K(j) /\ i <= j
      <2> SUFFICES ASSUME NEW j \in A PROVE \E i \in First(A) : K(i) = K(j) /\ i <= j
          OBVIOUS
      <2> DEFINE Same == {i \in A : K(i) = K(j)}
      <2>1. Same \in SUBSET Nat /\ Same # {} OBVIOUS
      <2>2. PICK c \in Same : \A d \in Same : c <= d
            <3> HIDE DEF Same
            <3> QED BY <2>1, Least
      <2>3. c \in First(A) BY <2>2
      <2> QED BY <2>2, <2>3
<1>3. First(A) \subseteq A OBVIOUS
<1>4. \A i \in First(A \cup B) : i \in First(First(A) \cup B) OBVIOUS
<1>5. \A i \in First(First(A) \cup B) : i \in First(A \cup B)
      <2> SUFFICES ASSUME NEW i \in First(First(A) \cup B), NEW j \in A, K(j) = K(i) PROVE i <= j
          BY <1>3
      <2>1. PICK k \in First(A) : K(k) = K(j) /\ k <= j BY <1>2
      <2>2. i <= k BY <2>1
      <2>3. i \in Nat /\ j \in Nat /\ k \in Nat BY <1>3
      <2> QED BY <2>1, <2>2, <2>3
<1>6. First(First(A) \cup B) = First(A \cup B) BY <1>4, <1>5
<1> HIDE DEF First
<1> QED BY <1>1, <1>6

\* The edges at some nodes, and what they end at.
LEMMA EdgeFacts ==
    ASSUME NEW g
    PROVE  /\ \A I, x : x \in KG!Ends(g, I) <=> \E i \in I : x \in {g.edges[i].source, g.edges[i].target}
           /\ \A ids, i : i \in KG!At(g, ids) <=>
                  i \in DOMAIN g.edges /\ (g.edges[i].source \in ids \/ g.edges[i].target \in ids)
           /\ \A a, b : KG!Joined(g, a, b) <=>
                  \E i \in DOMAIN g.edges : {g.edges[i].source, g.edges[i].target} = {a, b}
<1>1. \A I, x : x \in KG!Ends(g, I) <=> \E i \in I : x \in {g.edges[i].source, g.edges[i].target}
      BY DEF KG!Ends
<1>2. \A ids, i : i \in KG!At(g, ids) <=>
          i \in DOMAIN g.edges /\ (g.edges[i].source \in ids \/ g.edges[i].target \in ids)
      BY DEF KG!At
<1>3. \A a, b : KG!Joined(g, a, b) <=>
          \E i \in DOMAIN g.edges : {g.edges[i].source, g.edges[i].target} = {a, b}
      BY DEF KG!Joined, KG!ToSet
<1> QED BY <1>1, <1>2, <1>3

LEMMA NearbyIs ==
    ASSUME NEW g, NEW ids, ids \subseteq KG!Ids(g) \cup KG!Ends(g, DOMAIN g.edges)
    PROVE  /\ KG!Nearby(g, ids) = ids \cup KG!Ends(g, KG!At(g, ids))
           /\ KG!Nearby(g, ids) \subseteq KG!Ids(g) \cup KG!Ends(g, DOMAIN g.edges)
<1> DEFINE S(i) == g.edges[i].source
           T(i) == g.edges[i].target
           D == DOMAIN g.edges
<1>1. \A I, x : x \in KG!Ends(g, I) <=> \E i \in I : x = S(i) \/ x = T(i) BY EdgeFacts
<1>2. \A i : i \in KG!At(g, ids) <=> i \in D /\ (S(i) \in ids \/ T(i) \in ids) BY EdgeFacts
<1>3. \A a, b : KG!Joined(g, a, b) <=> \E i \in D : (S(i) = a /\ T(i) = b) \/ (S(i) = b /\ T(i) = a)
      <2>1. \A a, b : KG!Joined(g, a, b) <=> \E i \in D : {S(i), T(i)} = {a, b} BY EdgeFacts
      <2>2. \A p, q, a, b : {p, q} = {a, b} <=> (p = a /\ q = b) \/ (p = b /\ q = a) OBVIOUS
      <2> HIDE DEF S, T, D
      <2> QED BY <2>1, <2>2
<1>4. KG!Nearby(g, ids) = {b \in KG!Ids(g) \cup KG!Ends(g, D) : b \in ids \/ \E a \in ids : KG!Joined(g, a, b)}
      BY DEF KG!Nearby
<1> HIDE DEF S, T, D
<1>5. \A b \in KG!Ends(g, KG!At(g, ids)) : b \in KG!Nearby(g, ids)
      <2> SUFFICES ASSUME NEW b \in KG!Ends(g, KG!At(g, ids)) PROVE b \in KG!Nearby(g, ids)
          OBVIOUS
      <2>1. PICK i \in KG!At(g, ids) : b = S(i) \/ b = T(i) BY <1>1
      <2>2. i \in D /\ (S(i) \in ids \/ T(i) \in ids) BY <2>1, <1>2
      <2>3. b \in KG!Ends(g, D) BY <2>1, <2>2, <1>1
      <2>4. b \in ids \/ \E a \in ids : KG!Joined(g, a, b) BY <2>1, <2>2, <1>3
      <2> QED BY <2>3, <2>4, <1>4
<1>6. \A b \in KG!Nearby(g, ids) : b \in ids \cup KG!Ends(g, KG!At(g, ids)) BY <1>1, <1>2, <1>3, <1>4
<1>7. \A b \in ids : b \in KG!Nearby(g, ids) BY <1>4 DEF D
<1>8. \A b \in KG!Nearby(g, ids) : b \in KG!Ids(g) \cup KG!Ends(g, D) BY <1>4
<1> QED BY <1>5, <1>6, <1>7, <1>8 DEF D

\* Two hops from the seeds find what is within two edges of them.
LEMMA WalkFinds ==
    ASSUME NEW g, GraphLike(g), NEW term
    PROVE  LET start == KG!Seeds(g, term)
               one == KG!Nearby(g, start)
               found == KG!SeedAndExpand(g, term)
           IN  /\ found = [nodes |-> KG!Nearby(g, one) \cap KG!Ids(g),
                           edges |-> KG!FirstOfKey(g, KG!At(g, one)), seeds |-> start, trimmed |-> None]
               /\ start \subseteq KG!Nearby(g, one) \cap KG!Ids(g)
               /\ KG!Ends(g, KG!At(g, one)) \cap KG!Ids(g) \subseteq KG!Nearby(g, one) \cap KG!Ids(g)
<1> DEFINE start == KG!Seeds(g, term)
           one == KG!Nearby(g, start)
           all == KG!Ids(g) \cup KG!Ends(g, DOMAIN g.edges)
           w0 == [seen |-> start, frontier |-> start, edges |-> {}]
           w1 == KG!Hop(g, w0)
           w2 == KG!Hop(g, w1)
           First(I) == KG!FirstOfKey(g, I)
           At(I) == KG!At(g, I)
           Ends(I) == KG!Ends(g, I)
<1>1. start \subseteq KG!Ids(g) BY DEF KG!Seeds, KG!Ids
<1>2. one = start \cup Ends(At(start)) /\ one \subseteq all BY <1>1, NearbyIs
<1>3. KG!Nearby(g, one) = one \cup Ends(At(one))
      <2> HIDE DEF one
      <2> QED BY <1>2, NearbyIs
<1>4. /\ w1.seen = start \cup Ends(At(start)) /\ w1.frontier = w1.seen \ start
      /\ w1.edges = First({} \cup At(start))
      BY DEF KG!Hop
<1>5. /\ w2.seen = w1.seen \cup Ends(At(w1.frontier))
      /\ w2.edges = First(w1.edges \cup At(w1.frontier))
      BY DEF KG!Hop
<1>6. KG!SeedAndExpand(g, term) =
          [nodes |-> w2.seen \cap KG!Ids(g), edges |-> w2.edges, seeds |-> start, trimmed |-> None]
      BY DEF KG!SeedAndExpand
<1>7. \A I, J : At(I \cup J) = At(I) \cup At(J) /\ At(I) \subseteq DOMAIN g.edges BY DEF KG!At
<1>8. \A I, J : Ends(I \cup J) = Ends(I) \cup Ends(J) BY EdgeFacts
<1>9. \A A \in SUBSET Nat, B \in SUBSET Nat : First(First(A) \cup B) = First(A \cup B) BY FirstOfFirst
<1> HIDE DEF w0, w1, w2, First, At, Ends, start, one
<1>10. w1.frontier = one \ start /\ w1.seen = one BY <1>2, <1>4
<1>11. At(one) = At(start) \cup At(one \ start)
       <2>1. one = start \cup (one \ start) BY <1>2
       <2> QED BY <2>1, <1>7
<1>12. At(start) \in SUBSET Nat /\ At(one \ start) \in SUBSET Nat BY <1>7 DEF GraphLike
<1>13. w2.edges = First(At(one))
       <2>1. w2.edges = First(First(At(start)) \cup At(one \ start))
             <3>1. {} \cup At(start) = At(start) OBVIOUS
             <3> QED BY <3>1, <1>4, <1>5, <1>10
       <2> QED BY SMTT(40), <2>1, <1>9, <1>11, <1>12
<1>14. w2.seen = one \cup Ends(At(one))
       <2>1. Ends(At(one)) = Ends(At(start)) \cup Ends(At(one \ start)) BY <1>8, <1>11
       <2> QED BY <2>1, <1>2, <1>5, <1>10
<1>15. KG!SeedAndExpand(g, term) =
           [nodes |-> KG!Nearby(g, one) \cap KG!Ids(g), edges |-> First(At(one)), seeds |-> start,
            trimmed |-> None]
       BY <1>3, <1>6, <1>13, <1>14
<1>16. start \subseteq KG!Nearby(g, one) \cap KG!Ids(g) BY <1>1, <1>2, <1>3
<1>17. Ends(At(one)) \cap KG!Ids(g) \subseteq KG!Nearby(g, one) \cap KG!Ids(g) BY <1>3
<1> QED BY <1>15, <1>16, <1>17 DEF start, one, First, At, Ends

LEMMA RankIs ==
    ASSUME NEW g, GraphLike(g)
    PROVE  \A i \in DOMAIN g.edges :
               /\ KG!Rank(g.edges[i]) \in 1..4
               /\ Tier(g, i) = "AMBIGUOUS" <=> KG!Rank(g.edges[i]) = 1
               /\ Tier(g, i) = "INFERRED" <=> KG!Rank(g.edges[i]) = 2
               /\ Tier(g, i) = "EXTRACTED" <=> KG!Rank(g.edges[i]) = 3
<1> TAKE i \in DOMAIN g.edges
<1> DEFINE e == g.edges[i]
<1>1. e.tier \in {"AMBIGUOUS", "INFERRED", "EXTRACTED", "none"} BY DEF GraphLike, Tier
<1>2. KG!Tiers[1] = "AMBIGUOUS" /\ KG!Tiers[2] = "INFERRED" /\ KG!Tiers[3] = "EXTRACTED" BY DEF KG!Tiers
<1>3. KG!Rank(e) = IF e.tier = "none" THEN 4 ELSE CHOOSE n \in 1..3 : KG!Tiers[n] = e.tier
      BY DEF KG!Rank
<1> HIDE DEF e
<1>4. CASE e.tier = "none" BY <1>3, <1>4 DEF e, Tier
<1>5. CASE e.tier # "none"
      <2> DEFINE n == CHOOSE n \in 1..3 : KG!Tiers[n] = e.tier
      <2>1. \E m \in 1..3 : KG!Tiers[m] = e.tier BY <1>1, <1>2, <1>5
      <2>2. n \in 1..3 /\ KG!Tiers[n] = e.tier BY <2>1
      <2>3. KG!Rank(e) = n BY <1>3, <1>5
      <2> HIDE DEF n
      <2>4. n = 1 \/ n = 2 \/ n = 3 BY <2>2
      <2> QED BY <2>2, <2>3, <2>4, <1>2 DEF e, Tier
<1> QED BY <1>4, <1>5

LEMMA SizeIsNat ==
    ASSUME NEW nodes, NEW edges, IsFiniteSet(nodes), IsFiniteSet(edges)
    PROVE  KG!Size(nodes, edges) \in Nat
<1>1. \A S : KG!Cardinality(S) = Cardinality(S) BY DEF KG!Cardinality, Cardinality
<1>2. Cardinality(nodes) \in Nat /\ Cardinality(edges) \in Nat BY FS_CardinalityType
<1> QED BY <1>1, <1>2 DEF KG!Size

\* Of the edges dropped, the most certain.
Worst(g, dropped) == {i \in dropped : \A j \in dropped : KG!Rank(g.edges[i]) >= KG!Rank(g.edges[j])}

\* A budget takes the least certain tiers, and no more of them than it must.
LEMMA CutsFit ==
    ASSUME NEW g, GraphLike(g), NEW nodes, IsFiniteSet(nodes), NEW edges \in SUBSET DOMAIN g.edges,
           NEW budget \in Nat
    PROVE  LET kept == KG!Fitting(g, nodes, edges, budget) IN
           /\ kept \subseteq edges
           /\ \A i \in kept, j \in edges \ kept : KG!Rank(g.edges[i]) > KG!Rank(g.edges[j])
           /\ edges \ kept # {} => KG!Size(nodes, kept \cup Worst(g, edges \ kept)) > budget
<1> DEFINE kept == KG!Fitting(g, nodes, edges, budget)
           worst == Worst(g, edges \ kept)
           R(i) == KG!Rank(g.edges[i])
           Over(I) == KG!Size(nodes, I) > budget
           Above(I, n) == {i \in I : R(i) # n}
           k1 == IF Over(edges) THEN Above(edges, 1) ELSE edges
           k2 == IF Over(k1) THEN Above(k1, 2) ELSE k1
           k3 == IF Over(k2) THEN Above(k2, 3) ELSE k2
<1>1. \A i \in DOMAIN g.edges :
          /\ R(i) \in 1..4 /\ (Tier(g, i) = "AMBIGUOUS" <=> R(i) = 1)
          /\ (Tier(g, i) = "INFERRED" <=> R(i) = 2) /\ (Tier(g, i) = "EXTRACTED" <=> R(i) = 3)
      BY RankIs
<1>2. \A I \in SUBSET DOMAIN g.edges : KG!Size(nodes, I) \in Nat
      BY SizeIsNat, FS_Subset DEF GraphLike
<1>3. \A I \in SUBSET DOMAIN g.edges : (KG!Size(nodes, I) <= budget) <=> ~Over(I) BY <1>2
<1>4. \A I \in SUBSET DOMAIN g.edges :
          /\ KG!Cut(g, nodes, I, budget, "AMBIGUOUS") = IF Over(I) THEN Above(I, 1) ELSE I
          /\ KG!Cut(g, nodes, I, budget, "INFERRED") = IF Over(I) THEN Above(I, 2) ELSE I
          /\ KG!Cut(g, nodes, I, budget, "EXTRACTED") = IF Over(I) THEN Above(I, 3) ELSE I
      <2> SUFFICES ASSUME NEW I \in SUBSET DOMAIN g.edges
                   PROVE  /\ KG!Cut(g, nodes, I, budget, "AMBIGUOUS") = IF Over(I) THEN Above(I, 1) ELSE I
                          /\ KG!Cut(g, nodes, I, budget, "INFERRED") = IF Over(I) THEN Above(I, 2) ELSE I
                          /\ KG!Cut(g, nodes, I, budget, "EXTRACTED") = IF Over(I) THEN Above(I, 3) ELSE I
          OBVIOUS
      <2>1. \A t : KG!Cut(g, nodes, I, budget, t) = IF Over(I) THEN {i \in I : Tier(g, i) # t} ELSE I
            BY <1>3 DEF KG!Cut, Tier
      <2> HIDE DEF R, Over
      <2>2. Above(I, 1) = {i \in I : Tier(g, i) # "AMBIGUOUS"} BY <1>1
      <2>3. Above(I, 2) = {i \in I : Tier(g, i) # "INFERRED"} BY <1>1
      <2>4. Above(I, 3) = {i \in I : Tier(g, i) # "EXTRACTED"} BY <1>1
      <2> HIDE DEF Above
      <2> QED BY <2>1, <2>2, <2>3, <2>4
<1> HIDE DEF R, Over
<1>5. k1 \in SUBSET edges /\ k2 \in SUBSET k1 /\ k3 \in SUBSET k2 OBVIOUS
<1>6. kept = k3
      <2>1. KG!Fitting(g, nodes, edges, budget) =
                KG!Cut(g, nodes, KG!Cut(g, nodes, KG!Cut(g, nodes, edges, budget, "AMBIGUOUS"), budget,
                                        "INFERRED"), budget, "EXTRACTED")
            BY DEF KG!Fitting, KG!Tiers
      <2>2. KG!Cut(g, nodes, edges, budget, "AMBIGUOUS") = k1 BY <1>4
      <2>3. k1 \in SUBSET DOMAIN g.edges /\ k2 \in SUBSET DOMAIN g.edges BY <1>5
      <2> HIDE DEF k1
      <2>4. KG!Cut(g, nodes, k1, budget, "INFERRED") = k2 BY <1>4, <2>3
      <2> HIDE DEF k2
      <2>5. KG!Cut(g, nodes, k2, budget, "EXTRACTED") = k3 BY <1>4, <2>3
      <2> QED BY <2>1, <2>2, <2>4, <2>5
<1>7. \A i \in edges : R(i) \in 1..4 BY <1>1
<1>8. \A i : i \in worst <=> i \in edges \ k3 /\ \A j \in edges \ k3 : R(i) >= R(j) BY <1>6 DEF R, Worst
<1> HIDE DEF kept, worst
<1>9. k3 \subseteq edges /\ \A i \in k3, j \in edges \ k3 : R(i) > R(j)
      <2>1. CASE ~Over(edges)
            <3>1. k1 = edges BY <2>1
            <3>2. k2 = edges BY <2>1, <3>1
            <3> QED BY <2>1, <3>1, <3>2
      <2>2. CASE Over(edges) /\ ~Over(k1)
            <3>1. k1 = Above(edges, 1) BY <2>2
            <3>2. k2 = k1 BY <2>2
            <3>3. k3 = k1 BY <2>2, <3>2
            <3> QED BY <3>1, <3>3, <1>7
      <2>3. CASE Over(edges) /\ Over(k1) /\ ~Over(k2)
            <3>1. k3 = k2 /\ k2 = Above(k1, 2) /\ k1 = Above(edges, 1) BY <2>3
            <3> QED BY <3>1, <1>7
      <2>4. CASE Over(edges) /\ Over(k1) /\ Over(k2)
            <3>1. k3 = Above(k2, 3) /\ k2 = Above(k1, 2) /\ k1 = Above(edges, 1) BY <2>4
            <3> QED BY <3>1, <1>7
      <2> QED BY <2>1, <2>2, <2>3, <2>4
<1> DEFINE From(n) == {i \in edges : R(i) >= n}
<1>11. \A n \in {1, 2, 3} : k3 = From(n + 1) /\ (\E i \in edges \ k3 : R(i) = n) => k3 \cup worst = From(n)
       <2> SUFFICES ASSUME NEW n \in {1, 2, 3}, k3 = From(n + 1), NEW i \in edges \ k3, R(i) = n
                    PROVE  k3 \cup worst = From(n)
           OBVIOUS
       <2>1. \A j \in edges : j \in k3 <=> R(j) >= n + 1 OBVIOUS
       <2> HIDE DEF k3
       <2>2. \A j \in edges \ k3 : R(j) <= n BY <2>1, <1>7
       <2>3. \A j \in worst : j \in edges /\ R(j) >= R(i) BY <1>8
       <2>4. \A j \in edges \ k3 : R(j) = n => j \in worst BY <1>7, <1>8, <2>2
       <2>5. \A j \in k3 \cup worst : j \in From(n)
             <3>1. k3 \subseteq edges BY <1>9
             <3> QED BY <3>1, <2>1, <2>3, <1>7
       <2>6. \A j \in From(n) : j \in k3 \cup worst BY <2>1, <2>2, <2>4, <1>7
       <2> HIDE DEF From
       <2> QED BY <2>5, <2>6
<1>12. From(1) = edges BY <1>7
<1>10. edges \ k3 # {} => Over(k3 \cup worst)
       <2>1. CASE \E i \in edges \ k3 : R(i) = 3
             <3>1. Over(edges) /\ Over(k1) /\ Over(k2) BY <2>1
             <3>2. k3 = Above(k2, 3) /\ k2 = Above(k1, 2) /\ k1 = Above(edges, 1) BY <3>1
             <3>4. k3 = From(3 + 1) BY <3>2, <1>7
             <3>5. k2 = From(3) BY <3>2, <1>7
             <3>3. k3 \cup worst = k2
                   <4> HIDE DEF k2, k3, From
                   <4> QED BY <2>1, <3>4, <3>5, <1>11
             <3> QED BY <3>1, <3>3
       <2>2. CASE (\A i \in edges \ k3 : R(i) # 3) /\ \E i \in edges \ k3 : R(i) = 2
             <3>1. Over(edges) /\ Over(k1) BY <2>2
             <3>2. k2 = Above(k1, 2) /\ k1 = Above(edges, 1) BY <3>1
             <3>3. k3 = k2
                   <4>1. CASE ~Over(k2) BY <4>1
                   <4>2. CASE Over(k2)
                         <5>1. \A i \in k2 : R(i) # 3
                               <6>1. k3 = Above(k2, 3) BY <4>2
                               <6> QED BY <6>1, <2>2, <1>5
                         <5> QED BY <5>1, <4>2
                   <4> QED BY <4>1, <4>2
             <3>5. k3 = From(2 + 1) BY <3>2, <3>3, <1>7
             <3>6. k1 = From(2) BY <3>2, <1>7
             <3>4. k3 \cup worst = k1
                   <4> HIDE DEF k1, k2, k3, From
                   <4> QED BY <2>2, <3>5, <3>6, <1>11
             <3> QED BY <3>1, <3>4
       <2>3. CASE (\A i \in edges \ k3 : R(i) \notin {2, 3}) /\ \E i \in edges \ k3 : R(i) = 1
             <3>1. Over(edges) /\ k1 = Above(edges, 1) BY <2>3
             <3>2. k2 = k1
                   <4>1. CASE ~Over(k1) BY <4>1
                   <4>2. CASE Over(k1)
                         <5>1. k2 = Above(k1, 2) BY <4>2
                         <5>2. \A i \in k1 : R(i) # 2 BY <5>1, <2>3, <1>5
                         <5> QED BY <5>1, <5>2
                   <4> QED BY <4>1, <4>2
             <3>3. k3 = k2
                   <4>1. CASE ~Over(k2) BY <4>1
                   <4>2. CASE Over(k2)
                         <5>1. k3 = Above(k2, 3) BY <4>2
                         <5>2. \A i \in k2 : R(i) # 3 BY <5>1, <2>3, <1>5
                         <5> QED BY <5>1, <5>2
                   <4> QED BY <4>1, <4>2
             <3>5. k3 = From(1 + 1) BY <3>1, <3>2, <3>3, <1>7
             <3>4. k3 \cup worst = edges
                   <4> HIDE DEF k1, k2, k3, From
                   <4> QED BY <2>3, <3>5, <1>11, <1>12
             <3> QED BY <3>1, <3>4
       <2>4. CASE edges \ k3 = {} BY <2>4
       <2>5. \A i \in edges \ k3 : R(i) # 4
             <3>1. \A i \in edges : R(i) = 4 => i \in k1 OBVIOUS
             <3>2. \A i \in k1 : R(i) = 4 => i \in k2 OBVIOUS
             <3>3. \A i \in k2 : R(i) = 4 => i \in k3 OBVIOUS
             <3> QED BY <3>1, <3>2, <3>3
       <2>6. \A i \in edges \ k3 : R(i) = 1 \/ R(i) = 2 \/ R(i) = 3 BY <2>5, <1>7
       <2> QED BY <2>1, <2>2, <2>3, <2>4, <2>6
<1> HIDE DEF k3
<1> QED BY <1>6, <1>9, <1>10 DEF R, Over, kept, worst

\* What a query is to answer (QueryAnswers).
Answers(g, term, budget, f) ==
    LET start == KG!Seeds(g, term)
        all == KG!At(g, KG!Nearby(g, start))
        near == KG!Nearby(g, KG!Nearby(g, start)) \cap KG!Ids(g)
        dropped == KG!FirstOfKey(g, all) \ f.edges
        worst == {i \in dropped : \A j \in dropped : KG!Rank(g.edges[i]) >= KG!Rank(g.edges[j])} IN
    /\ f.edges \subseteq all /\ start \subseteq f.nodes /\ f.nodes \subseteq near
    /\ \A i \in f.edges, j \in dropped : KG!Rank(g.edges[i]) > KG!Rank(g.edges[j])
    /\ budget = 0 => dropped = {} /\ f.nodes = near
    /\ dropped # {} => KG!Size(near, f.edges \cup worst) > budget
    /\ (dropped # {}) = (f.trimmed # None)
    /\ KG!Ends(g, f.edges) \cap KG!Ids(g) \subseteq f.nodes

\* A query answers what it is to, with a budget and without.
LEMMA FoundAnswers ==
    ASSUME NEW g, GraphLike(g), NEW term, NEW budget \in Nat, None \notin Nat \X Nat
    PROVE  Answers(g, term, budget, KG!Found(g, term, budget))
<1> DEFINE start == KG!Seeds(g, term)
           one == KG!Nearby(g, start)
           all == KG!At(g, one)
           near == KG!Nearby(g, one) \cap KG!Ids(g)
           first == KG!FirstOfKey(g, all)
           found == KG!SeedAndExpand(g, term)
           f == KG!Found(g, term, budget)
           dropped == first \ f.edges
           worst == {i \in dropped : \A j \in dropped : KG!Rank(g.edges[i]) >= KG!Rank(g.edges[j])}
           Goal == /\ f.edges \subseteq all /\ start \subseteq f.nodes /\ f.nodes \subseteq near
                   /\ \A i \in f.edges, j \in dropped : KG!Rank(g.edges[i]) > KG!Rank(g.edges[j])
                   /\ budget = 0 => dropped = {} /\ f.nodes = near
                   /\ dropped # {} => KG!Size(near, f.edges \cup worst) > budget
                   /\ (dropped # {}) = (f.trimmed # None)
                   /\ KG!Ends(g, f.edges) \cap KG!Ids(g) \subseteq f.nodes
<1>1. /\ found = [nodes |-> near, edges |-> first, seeds |-> start, trimmed |-> None]
      /\ start \subseteq near /\ KG!Ends(g, all) \cap KG!Ids(g) \subseteq near
      BY WalkFinds
<1>2. first \subseteq all /\ all \subseteq DOMAIN g.edges BY DEF KG!FirstOfKey, KG!At
<1>3. \A I, J : I \subseteq J => KG!Ends(g, I) \subseteq KG!Ends(g, J) BY DEF KG!Ends
<1>4. f = IF budget = 0 THEN found ELSE KG!ApplyBudget(g, found, budget) BY DEF KG!Found
<1>5. IsFiniteSet(near)
      <2>1. KG!Ids(g) = {n.id : n \in g.nodes} BY DEF KG!Ids
      <2>2. IsFiniteSet({n.id : n \in g.nodes})
            <3> DEFINE ids == [n \in g.nodes |-> n.id]
            <3>1. ids \in [g.nodes -> KG!Ids(g)] BY <2>1
            <3>2. {ids[n] : n \in g.nodes} = {n.id : n \in g.nodes} OBVIOUS
            <3>3. ids \in Surjection(g.nodes, KG!Ids(g)) BY <2>1, <3>1 DEF Surjection
            <3> HIDE DEF ids
            <3>4. IsFiniteSet(g.nodes) BY DEF GraphLike
            <3> QED BY <2>1, <3>3, <3>4, FS_Surjection
      <2>3. near \subseteq KG!Ids(g) OBVIOUS
      <2> HIDE DEF near
      <2> QED BY <2>1, <2>2, <2>3, FS_Subset
<1> HIDE DEF start, one, all, near, first, found, f
<1>6. CASE budget = 0
      <2>1. f.nodes = near /\ f.edges = first /\ f.trimmed = None BY <1>1, <1>4, <1>6
      <2>2. dropped = {} BY <2>1
      <2>3. KG!Ends(g, f.edges) \cap KG!Ids(g) \subseteq f.nodes BY <2>1, <1>1, <1>2, <1>3
      <2> HIDE DEF dropped
      <2>4. Goal BY <2>1, <2>2, <2>3, <1>1, <1>2
      <2> QED BY <2>4 DEF Answers, dropped, f, first, near, all, one, start
<1>7. CASE budget # 0
      <2> DEFINE kept == KG!Fitting(g, near, first, budget)
                 nodes == near \cap (KG!Ends(g, kept) \cup start)
                 omitted == KG!Cardinality(first \ kept)
                 left == KG!Cardinality(near \ nodes)
                 c == [found EXCEPT !.nodes = nodes, !.edges = kept,
                                    !.trimmed = IF omitted = 0 THEN None ELSE <<omitted, left>>]
      <2>1. found.nodes = near /\ found.edges = first /\ found.seeds = start
            /\ DOMAIN found = {"nodes", "edges", "seeds", "trimmed"}
            BY <1>1
      <2>2. f = c BY <2>1, <1>4, <1>7 DEF KG!ApplyBudget
      <2>3. c.nodes = nodes /\ c.edges = kept
            /\ c.trimmed = IF omitted = 0 THEN None ELSE <<omitted, left>>
            BY <2>1
      <2> HIDE DEF kept, omitted, left, c
      <2>4. first \in SUBSET DOMAIN g.edges BY <1>2
      <2>5. f.edges = kept BY <2>2, <2>3
      <2>6. /\ kept \subseteq first
            /\ \A i \in kept, j \in dropped : KG!Rank(g.edges[i]) > KG!Rank(g.edges[j])
            /\ dropped # {} => KG!Size(near, kept \cup worst) > budget
            <3>1. kept = KG!Fitting(g, near, first, budget) BY DEF kept
            <3>2. worst = Worst(g, dropped) BY DEF Worst
            <3>3. dropped = first \ kept BY <2>5
            <3> HIDE DEF worst, dropped
            <3>4. /\ kept \subseteq first
                  /\ \A i \in kept, j \in first \ kept : KG!Rank(g.edges[i]) > KG!Rank(g.edges[j])
                  /\ first \ kept # {} => KG!Size(near, kept \cup Worst(g, first \ kept)) > budget
                  BY <3>1, <2>4, <1>5, CutsFit
            <3> QED BY <3>2, <3>3, <3>4
      <2>7. IsFiniteSet(near \ nodes) /\ IsFiniteSet(first \ kept)
            BY <1>5, <2>4, FS_Subset DEF GraphLike
      <2>8. omitted \in Nat /\ left \in Nat /\ (omitted = 0 <=> first \ kept = {})
            <3>1. \A S : KG!Cardinality(S) = Cardinality(S) BY DEF KG!Cardinality, Cardinality
            <3> HIDE DEF nodes
            <3> QED BY <3>1, <2>7, FS_CardinalityType, FS_EmptySet DEF omitted, left
      <2>9. (dropped # {}) = (f.trimmed # None)
            <3>1. <<omitted, left>> \in Nat \X Nat BY <2>8
            <3>2. <<omitted, left>> # None BY <3>1
            <3> QED BY <3>2, <2>2, <2>3, <2>5, <2>8
      <2>10. start \subseteq nodes /\ nodes \subseteq near BY <1>1
      <2>11. KG!Ends(g, kept) \cap KG!Ids(g) \subseteq nodes BY <2>6, <1>1, <1>2, <1>3
      <2>12. f.nodes = nodes BY <2>2, <2>3
      <2> HIDE DEF nodes, dropped, worst
      <2>13. Goal BY <2>5, <2>6, <2>9, <2>10, <2>11, <2>12, <1>2, <1>7
      <2> QED BY <2>13 DEF Answers, worst, dropped, f, first, near, all, one, start
<1> QED BY <1>6, <1>7

-----------------------------------------------------------------------------
(* The build.  The part's variables, by their names in KnowledgeGraph, but *)
(* for those other parts have as well.                                     *)

repo == v1
out == v2
graph == v3
graphSnapshot == v4     \* snapshot
auto == v5
chain == v6
graphSaid == v7         \* said
graphBuilds == v8       \* builds
graphStrays == v10      \* strays

USE DEF repo, out, graph, graphSnapshot, auto, chain, graphSaid, graphBuilds, graphStrays

LEMMA GraphFacts ==
    /\ DOMAIN GraphCommits = 1..Len(GraphCommits) /\ Len(GraphCommits) \in Nat /\ Len(GraphCommits) >= 1
    /\ \A i \in DOMAIN GraphCommits : GraphLike(GraphCommits[i])
    /\ Budgets \subseteq Nat /\ None # "fresh" /\ None \notin Nat \X Nat
<1>1. \A S : KG!IsFiniteSet(S) = IsFiniteSet(S) BY DEF KG!IsFiniteSet, IsFiniteSet
<1>2. KG!GraphConstants BY KnowledgeConstants DEF KnowledgeConstants
<1>3. KG!ToSet(KG!Tiers) = {"AMBIGUOUS", "INFERRED", "EXTRACTED"} BY DEF KG!Tiers, KG!ToSet
<1>4. GraphCommits \in Seq(KG!ToSet(GraphCommits)) /\ GraphCommits # <<>> BY <1>2 DEF KG!GraphConstants
<1>5. ASSUME NEW i \in DOMAIN GraphCommits
      PROVE  GraphLike(GraphCommits[i])
      <2> DEFINE c == GraphCommits[i]
      <2>1. /\ IsFiniteSet(c.nodes) /\ c.edges \in Seq(KG!ToSet(c.edges))
            /\ \A e \in KG!ToSet(c.edges) : e.tier \in KG!ToSet(KG!Tiers) \cup {"none"}
            BY <1>1, <1>2 DEF KG!GraphConstants
      <2> HIDE DEF c
      <2>2. DOMAIN c.edges = 1..Len(c.edges) /\ Len(c.edges) \in Nat BY <2>1
      <2>3. IsFiniteSet(DOMAIN c.edges) BY <2>2, FS_Interval
      <2>4. \A j \in DOMAIN c.edges : c.edges[j] \in KG!ToSet(c.edges) BY DEF KG!ToSet
      <2>5. GraphLike(c) BY <2>1, <2>2, <2>3, <2>4, <1>3 DEF GraphLike, Tier
      <2> QED BY <2>5 DEF c
<1> QED BY <1>2, <1>4, <1>5 DEF KG!GraphConstants

\* A graph as graphify left it: of one commit, with that commit's name or none.
Built(g) ==
    /\ DOMAIN g = {"nodes", "edges", "stamp", "of", "old", "nr"} /\ g.nr \in Nat
    /\ g.of \in DOMAIN GraphCommits /\ g.stamp \in {None, g.of}
    /\ g.nodes = GraphCommits[g.of].nodes /\ g.edges = GraphCommits[g.of].edges

GraphShapes ==
    /\ repo.head \in DOMAIN GraphCommits /\ DOMAIN repo = {"head", "git", "stamps"}
    /\ DOMAIN chain = Procs
    /\ graph \in {None, Torn} \/ Built(graph)
    /\ \A p \in Procs :
        /\ chain[p].at \in {"copy", "report"} => Built(out)
        /\ chain[p].at = "snapshot" => graph = Torn \/ Built(graph)
        /\ chain[p].at = "write" => Built(chain[p].read)

\* No graph is of a later commit than the one checked out.
InTime ==
    /\ \A p \in Procs : chain[p].at \in {"copy", "report"} => out.of <= repo.head
    /\ graph \notin {None, Torn} => graph.of <= repo.head

\* What graphify left last is the last graph it made, and what was read from
\* graph.json, for the snapshot or as the snapshot, is no later than what is
\* there now.
Earlier(n) ==
    /\ graph \notin {None, Torn} => graph.nr <= n
    /\ graphSnapshot # None => graphSnapshot.nr \in Nat /\ graphSnapshot.nr <= n
    /\ \A p \in Procs : chain[p].at = "write" => chain[p].read.nr <= n
InOrder ==
    /\ graphBuilds \in Nat /\ Earlier(graphBuilds)
    /\ \A p \in Procs : chain[p].at \in {"copy", "report"} => out.nr = graphBuilds
    /\ graph \notin {None, Torn} => Earlier(graph.nr)

GraphInv ==
    /\ part = "graph" /\ GraphShapes /\ ("rewound" \notin graphStrays => InTime)
    /\ InOrder /\ KG!QueryAnswers /\ KG!FreshIsCurrent

LEMMA BuiltIsLike == ASSUME NEW g, Built(g) PROVE GraphLike(g)
BY GraphFacts DEF Built, GraphLike, Tier

\* What a status says of a graph is so when it says it.
LEMMA StatusIs ==
    ASSUME NEW g, Built(g), repo.head \in Nat, KG!CommitStale(g) = "fresh", g.of <= repo.head
    PROVE  g.of = repo.head
<1>1. KG!CommitsBehind(g) # None /\ ~(KG!CommitsBehind(g) > 0) BY GraphFacts DEF KG!CommitStale
<1>2. g.stamp # None /\ KG!CommitsBehind(g) = KG!Behind(g.stamp, repo.head) BY <1>1 DEF KG!CommitsBehind
<1>3. g.stamp = g.of /\ g.of \in Nat BY <1>2, GraphFacts DEF Built
<1> QED BY <1>1, <1>2, <1>3 DEF KG!Behind

\* Steps that only answer.
LEMMA AnswerSteps ==
    ASSUME GraphInv,
           KG!Status
             \/ KG!Query
             \/ graphSaid'.kind \notin {"query", "status"}
             \/ UNCHANGED graphSaid,
           "rewound" \in graphStrays => "rewound" \in graphStrays'
    PROVE  KG!QueryAnswers' /\ KG!FreshIsCurrent'
<1>1. GraphShapes /\ ("rewound" \notin graphStrays => InTime) /\ KG!QueryAnswers /\ KG!FreshIsCurrent
      BY DEF GraphInv
<1>2. CASE UNCHANGED graphSaid BY <1>1, <1>2 DEF KG!QueryAnswers, KG!FreshIsCurrent
<1>3. CASE graphSaid'.kind \notin {"query", "status"} BY <1>3 DEF KG!QueryAnswers, KG!FreshIsCurrent
<1>4. CASE KG!Status
      <2>1. CASE graphSaid' = KG!Nothing
            <3>1. graphSaid'.kind = "nothing" BY <2>1 DEF KG!Nothing
            <3> QED BY <3>1 DEF KG!QueryAnswers, KG!FreshIsCurrent
      <2>2. CASE graph \notin {None, Torn} /\ graphSaid' = KG!Report(graph)
            <3>1. /\ graphSaid'.kind = "status" /\ graphSaid'.graph = graph /\ graphSaid'.head = repo.head
                  /\ graphSaid'.commit = KG!CommitStale(graph)
                  BY <2>2 DEF KG!Report
            <3>2. Built(graph) /\ repo.head \in Nat BY <2>2, <1>1, GraphFacts DEF GraphShapes
            <3>3. "rewound" \notin graphStrays' => graph.of <= repo.head BY <2>2, <1>1 DEF InTime
            <3>4. "rewound" \notin graphStrays' /\ KG!CommitStale(graph) = "fresh" => graph.of = repo.head
                  BY <3>2, <3>3, StatusIs
            <3> QED BY <3>1, <3>4 DEF KG!QueryAnswers, KG!FreshIsCurrent
      <2> QED BY <1>4, <2>1, <2>2 DEF KG!Status
<1>5. CASE KG!Query
      <2>1. PICK t \in KG!Terms, b \in Budgets :
                graphSaid' = [kind |-> "query", graph |-> graph, term |-> t, budget |-> b,
                              found |-> KG!Found(graph, t, b)]
            BY <1>5 DEF KG!Query
      <2>2. graphSaid'.kind = "query" /\ graphSaid'.graph = graph /\ graphSaid'.term = t
            /\ graphSaid'.budget = b /\ graphSaid'.found = KG!Found(graph, t, b)
            BY <2>1
      <2>3. Built(graph) BY <1>1, <1>5 DEF GraphShapes, KG!Query
      <2>4. b \in Nat BY GraphFacts
      <2>5. Answers(graph, t, b, KG!Found(graph, t, b)) BY <2>3, <2>4, BuiltIsLike, FoundAnswers, GraphFacts
      <2>6. Answers(graphSaid'.graph, graphSaid'.term, graphSaid'.budget, graphSaid'.found) BY <2>2, <2>5
      <2>7. KG!QueryAnswers' BY <2>6 DEF KG!QueryAnswers, Answers
      <2>8. KG!FreshIsCurrent' BY <2>2 DEF KG!FreshIsCurrent
      <2> QED BY <2>7, <2>8
<1> QED BY <1>2, <1>3, <1>4, <1>5

\* A session goes on to its next command.
LEMMA Going ==
    ASSUME DOMAIN chain = Procs, NEW p \in Procs, NEW at, KG!Goes(p, at)
    PROVE  /\ DOMAIN chain' = Procs /\ chain'[p].at = at
           /\ \A q \in Procs \ {p} : chain'[q] = chain[q]
<1> DEFINE c == [chain EXCEPT ![p] = [KG!Idle EXCEPT !.at = at]]
<1>1. chain' = c BY DEF KG!Goes
<1>2. DOMAIN c = Procs /\ c[p] = [KG!Idle EXCEPT !.at = at] /\ \A q \in Procs \ {p} : c[q] = chain[q]
      OBVIOUS
<1>3. [KG!Idle EXCEPT !.at = at].at = at BY DEF KG!Idle
<1> HIDE DEF c
<1> QED BY <1>1, <1>2, <1>3

\* A step that makes no graph, copies none and takes none for a snapshot.
LEMMA StaysInOrder ==
    ASSUME InOrder, UNCHANGED <<out, graph, graphSnapshot, graphBuilds>>,
           \A q \in Procs : chain'[q].at \in {"copy", "report", "write"} => chain'[q] = chain[q]
    PROVE  InOrder'
<1>1. ASSUME NEW n, Earlier(n) PROVE Earlier(n)' BY <1>1 DEF Earlier
<1>2. \A n : Earlier(n) => Earlier(n)' BY <1>1
<1> QED BY <1>2 DEF InOrder

\* A session that leaves the graph alone, and is not to go near it next.
LEMMA PlainSteps ==
    ASSUME GraphInv, part' = part, NEW p \in Procs, NEW at, KG!Goes(p, at),
           at \notin {"copy", "report", "snapshot", "write"},
           UNCHANGED <<repo, out, graph, graphSnapshot, graphBuilds>>, graphStrays \subseteq graphStrays',
           KG!QueryAnswers' /\ KG!FreshIsCurrent'
    PROVE  GraphInv'
<1>1. GraphShapes /\ ("rewound" \notin graphStrays => InTime) /\ InOrder BY DEF GraphInv
<1>2. /\ DOMAIN chain' = Procs /\ chain'[p].at = at
      /\ \A q \in Procs \ {p} : chain'[q] = chain[q]
      BY <1>1, Going DEF GraphShapes
<1>3. GraphShapes' BY <1>1, <1>2 DEF GraphShapes, Built
<1>4. "rewound" \notin graphStrays' => InTime' BY <1>1, <1>2 DEF InTime
<1>5. \A q \in Procs : chain'[q].at \in {"copy", "report", "write"} => chain'[q] = chain[q] BY <1>2
<1>6. InOrder' BY <1>1, <1>5, StaysInOrder
<1> QED BY <1>3, <1>4, <1>6 DEF GraphInv

LEMMA BuildSteps ==
    ASSUME GraphInv, part' = part, NEW p \in Procs,
           KG!Build(p) \/ KG!UpdateFails(p) \/ KG!EndsWithStatus(p) \/ KG!Killed(p)
    PROVE  GraphInv'
<1>1. /\ graphStrays \subseteq graphStrays'
      /\ UNCHANGED <<repo, out, graph, graphSnapshot, graphBuilds>>
      BY DEF KG!Build, KG!UpdateFails, KG!EndsWithStatus, KG!Killed, KG!Upset
<1>2. KG!QueryAnswers' /\ KG!FreshIsCurrent'
      <2>1. KG!Status \/ UNCHANGED graphSaid
            BY DEF KG!Build, KG!UpdateFails, KG!EndsWithStatus, KG!Killed
      <2> QED BY <2>1, <1>1, AnswerSteps
<1>3. PICK at \in {"update", "none"} : KG!Goes(p, at)
      BY DEF KG!Build, KG!UpdateFails, KG!EndsWithStatus, KG!Killed
<1> QED BY <1>1, <1>2, <1>3, PlainSteps

LEMMA UpdateStep ==
    ASSUME GraphInv, part' = part, NEW p \in Procs, KG!Update(p)
    PROVE  GraphInv'
<1>1. GraphShapes /\ ("rewound" \notin graphStrays => InTime) /\ InOrder BY DEF GraphInv
<1>2. /\ out' = [nodes |-> GraphCommits[repo.head].nodes, edges |-> GraphCommits[repo.head].edges,
                 stamp |-> IF repo.stamps THEN repo.head ELSE None, of |-> repo.head, old |-> FALSE,
                 nr |-> graphBuilds + 1]
      /\ KG!Goes(p, "copy") /\ chain[p].at = "update" /\ graphBuilds' = graphBuilds + 1
      /\ UNCHANGED <<repo, graph, graphSnapshot, graphSaid, graphStrays>>
      BY DEF KG!Update
<1>3. /\ DOMAIN chain' = Procs /\ chain'[p].at = "copy"
      /\ \A q \in Procs \ {p} : chain'[q] = chain[q]
      BY <1>1, <1>2, Going DEF GraphShapes
<1>4. graphBuilds \in Nat BY <1>1 DEF InOrder
<1>5. Built(out)' /\ out'.of = repo.head /\ out'.nr = graphBuilds' BY <1>1, <1>2, <1>4 DEF Built, GraphShapes
<1>6. repo.head \in Nat BY <1>1, GraphFacts DEF GraphShapes
<1>7. GraphShapes' BY <1>1, <1>2, <1>3, <1>5 DEF GraphShapes, Built
<1>8. "rewound" \notin graphStrays' => InTime' BY <1>1, <1>2, <1>3, <1>5, <1>6 DEF InTime
<1>9. InOrder'
      <2>1. Earlier(graphBuilds)'
            <3>1. graph \notin {None, Torn} => graph.nr \in Nat BY <1>1 DEF GraphShapes, Built
            <3>2. \A q \in Procs : chain[q].at = "write" => chain[q].read.nr \in Nat
                  BY <1>1 DEF GraphShapes, Built
            <3>3. Earlier(graphBuilds) BY <1>1 DEF InOrder
            <3> QED BY <3>1, <3>2, <3>3, <1>2, <1>3, <1>4 DEF Earlier
      <2>2. ASSUME NEW n, Earlier(n) PROVE Earlier(n)' BY <2>2, <1>2, <1>3 DEF Earlier
      <2>3. graph' \notin {None, Torn} => Earlier(graph.nr)' BY <1>1, <1>2, <2>2 DEF InOrder
      <2>4. \A q \in Procs : chain'[q].at \in {"copy", "report"} => out'.nr = graphBuilds' BY <1>5
      <2> QED BY <2>1, <2>3, <2>4, <1>2, <1>4 DEF InOrder
<1>10. KG!QueryAnswers' /\ KG!FreshIsCurrent' BY <1>2, AnswerSteps
<1> QED BY <1>7, <1>8, <1>9, <1>10 DEF GraphInv

LEMMA CopySteps ==
    ASSUME GraphInv, part' = part, NEW p \in Procs, KG!Truncate(p) \/ KG!Copy(p)
    PROVE  GraphInv'
<1>1. GraphShapes /\ ("rewound" \notin graphStrays => InTime) /\ InOrder BY DEF GraphInv
<1>2. UNCHANGED <<repo, out, graphSnapshot, graphSaid, graphBuilds, graphStrays>> BY DEF KG!Truncate, KG!Copy
<1>3. PICK at \in {"report", "snapshot"} :
          /\ KG!Goes(p, at)
          /\ \/ graph' = Torn /\ at = "report" /\ chain[p].at = "copy"
             \/ graph' = out /\ at = "snapshot" /\ chain[p].at = "report"
      BY DEF KG!Truncate, KG!Copy
<1>4. /\ DOMAIN chain' = Procs /\ chain'[p].at = at
      /\ \A q \in Procs \ {p} : chain'[q] = chain[q]
      BY <1>1, <1>3, Going DEF GraphShapes
<1>5. \/ graph' = Torn
      \/ /\ graph' = out /\ Built(out) /\ out.nr = graphBuilds
         /\ "rewound" \notin graphStrays => out.of <= repo.head
      BY <1>1, <1>3 DEF GraphShapes, InTime, InOrder
<1>6. GraphShapes' BY <1>1, <1>2, <1>3, <1>4, <1>5 DEF GraphShapes, Built
<1>7. "rewound" \notin graphStrays' => InTime' BY <1>1, <1>2, <1>3, <1>4, <1>5 DEF InTime
<1>8. InOrder'
      <2>1. graphBuilds \in Nat /\ Earlier(graphBuilds) BY <1>1 DEF InOrder
      <2>2. Earlier(graphBuilds)' BY <2>1, <1>2, <1>3, <1>4, <1>5 DEF Earlier
      <2>3. \A q \in Procs : chain'[q].at \in {"copy", "report"} => out'.nr = graphBuilds'
            BY <1>1, <1>2, <1>3, <1>4 DEF InOrder
      <2>4. graph' \notin {None, Torn} => graph'.nr = graphBuilds' BY <1>2, <1>5
      <2> QED BY <2>1, <2>2, <2>3, <2>4, <1>2 DEF InOrder
<1>9. KG!QueryAnswers' /\ KG!FreshIsCurrent' BY <1>2, AnswerSteps
<1> QED BY <1>6, <1>7, <1>8, <1>9 DEF GraphInv

\* The snapshot is written from what was read, and graph.json only ever gets
\* what graphify has made since.
LEMMA SnapshotSteps ==
    ASSUME GraphInv, part' = part, NEW p \in Procs, KG!ReadForSnapshot(p) \/ KG!WriteSnapshot(p)
    PROVE  GraphInv'
<1>1. GraphShapes /\ ("rewound" \notin graphStrays => InTime) /\ InOrder BY DEF GraphInv
<1>2. UNCHANGED <<repo, out, graph, graphSaid, graphBuilds, graphStrays>>
      BY DEF KG!ReadForSnapshot, KG!WriteSnapshot
<1>3. KG!QueryAnswers' /\ KG!FreshIsCurrent' BY <1>2, AnswerSteps
<1>4. ASSUME DOMAIN chain' = Procs, chain'[p].at \in {"write", "status"},
             \A q \in Procs \ {p} : chain'[q] = chain[q],
             chain'[p].at = "write" => Built(chain'[p].read),
             \A n : Earlier(n) /\ (graph \notin {None, Torn} => graph.nr <= n) => Earlier(n)'
      PROVE  GraphInv'
      <2>1. GraphShapes' BY <1>1, <1>2, <1>4 DEF GraphShapes, Built
      <2>2. "rewound" \notin graphStrays' => InTime' BY <1>1, <1>2, <1>4 DEF InTime
      <2>3. InOrder'
            <3>1. Earlier(graphBuilds)' BY <1>1, <1>2, <1>4 DEF InOrder, Earlier
            <3>2. graph \notin {None, Torn} => Earlier(graph.nr)' BY <1>1, <1>2, <1>4 DEF InOrder, Earlier
            <3>3. \A q \in Procs : chain'[q].at \in {"copy", "report"} => out'.nr = graphBuilds'
                  BY <1>1, <1>2, <1>4 DEF InOrder
            <3> QED BY <3>1, <3>2, <3>3, <1>1, <1>2 DEF InOrder
      <2> QED BY <2>1, <2>2, <2>3, <1>3 DEF GraphInv
<1>5. CASE KG!ReadForSnapshot(p) /\ graph \in {None, Torn}
      <2>1. KG!Goes(p, "status") /\ UNCHANGED graphSnapshot BY <1>5 DEF KG!ReadForSnapshot
      <2>2. /\ DOMAIN chain' = Procs /\ chain'[p].at = "status"
            /\ \A q \in Procs \ {p} : chain'[q] = chain[q]
            BY <1>1, <2>1, Going DEF GraphShapes
      <2>3. \A n : Earlier(n) => Earlier(n)' BY <2>1, <2>2, <1>2 DEF Earlier
      <2> QED BY <2>2, <2>3, <1>4
<1>6. CASE KG!ReadForSnapshot(p) /\ graph \notin {None, Torn}
      <2>1. /\ chain' = [chain EXCEPT ![p] = [at |-> "write", read |-> graph]] /\ chain[p].at = "snapshot"
            /\ UNCHANGED graphSnapshot
            BY <1>6 DEF KG!ReadForSnapshot
      <2>2. DOMAIN chain' = Procs /\ chain'[p] = [at |-> "write", read |-> graph]
            /\ \A q \in Procs \ {p} : chain'[q] = chain[q]
            BY <1>1, <2>1 DEF GraphShapes
      <2>3. chain'[p].at = "write" /\ chain'[p].read = graph BY <2>2
      <2>4. Built(graph) BY <2>1, <1>1, <1>6 DEF GraphShapes
      <2>5. ASSUME NEW n, Earlier(n), graph \notin {None, Torn} => graph.nr <= n PROVE Earlier(n)'
            BY <2>1, <2>2, <2>3, <2>5, <1>2, <1>6 DEF Earlier
      <2> QED BY <2>2, <2>3, <2>4, <2>5, <1>4
<1>7. CASE KG!WriteSnapshot(p)
      <2> DEFINE read == chain[p].read
      <2>1. /\ KG!Goes(p, "status") /\ chain[p].at = "write"
            /\ graphSnapshot' = [nodes |-> read.nodes, edges |-> read.edges, nr |-> read.nr]
            BY <1>7 DEF KG!WriteSnapshot, KG!Snapshot
      <2>2. /\ DOMAIN chain' = Procs /\ chain'[p].at = "status"
            /\ \A q \in Procs \ {p} : chain'[q] = chain[q]
            BY <1>1, <2>1, Going DEF GraphShapes
      <2>3. read.nr \in Nat BY <2>1, <1>1 DEF GraphShapes, Built
      <2>4. \A n : Earlier(n) => read.nr <= n BY <2>1 DEF Earlier
      <2>5. graphSnapshot'.nr = read.nr BY <2>1
      <2> HIDE DEF read
      <2>6. \A n : Earlier(n) => Earlier(n)' BY <2>2, <2>3, <2>4, <2>5, <1>2 DEF Earlier
      <2> QED BY <2>2, <2>6, <1>4
<1> QED BY <1>5, <1>6, <1>7

LEMMA AskSteps ==
    ASSUME GraphInv, part' = part, KG!AskStatus \/ KG!Query \/ KG!AskDiff \/ KG!HookReports
    PROVE  GraphInv'
<1>1. /\ UNCHANGED <<repo, out, graph, graphSnapshot, chain, graphBuilds>>
      /\ graphStrays \subseteq graphStrays'
      BY DEF KG!AskStatus, KG!Query, KG!AskDiff, KG!HookReports, KG!Upset
<1>2. KG!QueryAnswers' /\ KG!FreshIsCurrent'
      <2>1. CASE KG!AskStatus BY <2>1, <1>1, AnswerSteps DEF KG!AskStatus
      <2>2. CASE KG!Query BY <2>2, <1>1, AnswerSteps
      <2>3. CASE KG!AskDiff
            <3>1. graphSaid'.kind = "diff" BY <2>3 DEF KG!AskDiff
            <3> QED BY <3>1, <1>1, AnswerSteps
      <2>4. CASE KG!HookReports BY <2>4, <1>1, AnswerSteps DEF KG!HookReports
      <2> QED BY <2>1, <2>2, <2>3, <2>4
<1>3. GraphShapes /\ ("rewound" \notin graphStrays => InTime) /\ InOrder BY DEF GraphInv
<1>4. GraphShapes' BY <1>1, <1>3 DEF GraphShapes, Built
<1>5. "rewound" \notin graphStrays' => InTime' BY <1>1, <1>3 DEF InTime
<1>6. InOrder' BY <1>1, <1>3, StaysInOrder
<1> QED BY <1>2, <1>4, <1>5, <1>6 DEF GraphInv

LEMMA CheckOutSteps ==
    ASSUME GraphInv, part' = part, KG!Commit \/ KG!CheckOutBack
    PROVE  GraphInv'
<1>1. /\ UNCHANGED <<out, graph, graphSnapshot, chain, graphSaid, graphBuilds>>
      /\ graphStrays \subseteq graphStrays'
      /\ graphStrays' = graphStrays \cup (IF KG!Commit THEN {} ELSE {"rewound"})
      BY DEF KG!Commit, KG!CheckOutBack, KG!Upset
<1>2. GraphShapes /\ ("rewound" \notin graphStrays => InTime) /\ InOrder BY DEF GraphInv
<1>3. repo.head \in 1..Len(GraphCommits) /\ Len(GraphCommits) \in Nat BY <1>2, GraphFacts DEF GraphShapes
<1>4. PICK to \in DOMAIN GraphCommits :
          /\ repo' = [repo EXCEPT !.head = to]
          /\ "rewound" \notin graphStrays' => to >= repo.head
      <2>1. CASE KG!Commit
            <3>1. repo.head + 1 \in DOMAIN GraphCommits BY <2>1, <1>3, GraphFacts DEF KG!Commit
            <3>2. repo' = [repo EXCEPT !.head = repo.head + 1] BY <2>1 DEF KG!Commit
            <3> QED BY <3>1, <3>2, <1>3
      <2>2. CASE KG!CheckOutBack
            <3>1. repo.head - 1 \in DOMAIN GraphCommits BY <2>2, <1>3, GraphFacts DEF KG!CheckOutBack
            <3>2. repo' = [repo EXCEPT !.head = repo.head - 1] BY <2>2 DEF KG!CheckOutBack
            <3>3. "rewound" \in graphStrays' BY <2>2 DEF KG!CheckOutBack, KG!Upset
            <3> QED BY <3>1, <3>2, <3>3
      <2> QED BY <2>1, <2>2
<1>5. repo'.head = to /\ DOMAIN repo' = {"head", "git", "stamps"} BY <1>2, <1>4 DEF GraphShapes
<1>6. to \in Nat BY GraphFacts
<1>7. GraphShapes' BY <1>1, <1>2, <1>5 DEF GraphShapes, Built
<1>8. "rewound" \notin graphStrays' => InTime'
      <2> SUFFICES ASSUME "rewound" \notin graphStrays' PROVE InTime'
          OBVIOUS
      <2>1. InTime /\ to >= repo.head BY <1>1, <1>2, <1>4
      <2>2. \A g : Built(g) => g.of \in Nat BY GraphFacts DEF Built
      <2> QED BY <2>1, <2>2, <1>1, <1>2, <1>3, <1>5, <1>6 DEF InTime, GraphShapes
<1>9. InOrder' BY <1>1, <1>2, StaysInOrder
<1>10. KG!QueryAnswers' /\ KG!FreshIsCurrent' BY <1>1, AnswerSteps
<1> QED BY <1>7, <1>8, <1>9, <1>10 DEF GraphInv

LEMMA DayStep == ASSUME GraphInv, part' = part, KG!DayPasses PROVE GraphInv'
<1>1. /\ UNCHANGED <<repo, out, graphSnapshot, chain, graphSaid, graphBuilds>> /\ graphStrays' = graphStrays
      /\ graph \notin {None, Torn} /\ graph' = [graph EXCEPT !.old = TRUE]
      BY DEF KG!DayPasses, KG!Upset
<1>2. GraphShapes /\ ("rewound" \notin graphStrays => InTime) /\ InOrder BY DEF GraphInv
<1>3. Built(graph) BY <1>1, <1>2 DEF GraphShapes
<1> DEFINE g == [graph EXCEPT !.old = TRUE]
<1>4. /\ DOMAIN g = {"nodes", "edges", "stamp", "of", "old", "nr"} /\ g.nr = graph.nr
      /\ g.nodes = graph.nodes /\ g.edges = graph.edges /\ g.stamp = graph.stamp /\ g.of = graph.of
      BY <1>3 DEF Built
<1>5. graph' = g BY <1>1
<1> HIDE DEF g
<1>6. Built(g) BY <1>3, <1>4 DEF Built
<1>7. GraphShapes' BY <1>1, <1>2, <1>5, <1>6 DEF GraphShapes
<1>8. "rewound" \notin graphStrays' => InTime' BY <1>1, <1>2, <1>4, <1>5 DEF InTime
<1>9. InOrder'
      <2>1. graph'.nr = graph.nr BY <1>4, <1>5
      <2>2. \A n : Earlier(n) => Earlier(n)' BY <2>1, <1>1 DEF Earlier
      <2>3. Earlier(graph.nr)' /\ Earlier(graphBuilds)' BY <2>2, <1>1, <1>2 DEF InOrder
      <2> QED BY <2>1, <2>3, <1>1, <1>2 DEF InOrder
<1>10. KG!QueryAnswers' /\ KG!FreshIsCurrent' BY <1>1, AnswerSteps
<1> QED BY <1>7, <1>8, <1>9, <1>10 DEF GraphInv

LEMMA GraphInit == part = "graph" /\ KG!Init => GraphInv
<1> SUFFICES ASSUME part = "graph", KG!Init PROVE GraphInv
    OBVIOUS
<1>1. repo \in [head : {1}, git : BOOLEAN, stamps : BOOLEAN] /\ out = None /\ graph = None
      /\ graphSnapshot = None /\ graphBuilds = 0
      /\ chain = [p \in Procs |-> KG!Idle] /\ graphSaid = KG!Nothing
      BY DEF KG!Init
<1>2. KG!Idle.at = "none" /\ KG!Nothing.kind = "nothing" BY DEF KG!Idle, KG!Nothing
<1>3. repo.head = 1 /\ DOMAIN repo = {"head", "git", "stamps"} BY <1>1
<1>4. 1 \in DOMAIN GraphCommits BY GraphFacts
<1>5. DOMAIN chain = Procs /\ \A p \in Procs : chain[p].at = "none" BY <1>1, <1>2
<1> QED BY <1>1, <1>2, <1>3, <1>4, <1>5
    DEF GraphInv, GraphShapes, InTime, InOrder, Earlier, KG!QueryAnswers, KG!FreshIsCurrent

LEMMA GraphStep == GraphInv /\ part' = part /\ [KG!Next]_(KG!vars) => GraphInv'
<1> SUFFICES ASSUME GraphInv, part' = part, [KG!Next]_(KG!vars) PROVE GraphInv'
    OBVIOUS
<1>1. CASE KG!Next
      BY <1>1, BuildSteps, UpdateStep, CopySteps, SnapshotSteps, AskSteps, CheckOutSteps, DayStep DEF KG!Next
<1>2. CASE UNCHANGED KG!vars
      BY <1>2 DEF KG!vars, GraphInv, GraphShapes, InTime, InOrder, Earlier, Built,
                  KG!QueryAnswers, KG!FreshIsCurrent
<1> QED BY <1>1, <1>2

LEMMA GraphAnswers == GraphInv => KG!QueryAnswers /\ KG!FreshIsCurrent /\ KG!BaselineIsNoLater
BY DEF GraphInv, InOrder, Earlier, KG!BaselineIsNoLater

-----------------------------------------------------------------------------
(* The intel files.  The part's variables, by their names in IntelFiles,   *)
(* but for those other parts have as well.                                 *)

intelFile == v1         \* file
intelSnapshot == v2
apiSurface == v3        \* surface
proc == v4
kept == v5
intelSeen == v6         \* seen
mixed == v9

USE DEF intelFile, intelSnapshot, apiSurface, proc, kept, intelSeen, mixed

ContentFields == {"entries", "at", "version"}
\* The hashes of what the files hold.
HashesOf(held) == [n \in {m \in II!Names : held[m] # None} |-> held[n]]
Taking(p) == proc[p].at = "snapshot"

IntelShapes ==
    /\ DOMAIN intelFile = II!AllNames /\ DOMAIN kept = II!AllNames
    /\ \A n \in II!AllNames : intelFile[n] \in {None, Torn} \/ DOMAIN intelFile[n] = ContentFields
    /\ DOMAIN proc = Procs /\ \A p \in Procs : DOMAIN proc[p] = {"at", "name", "read"}

\* The only process that takes a snapshot has read what was there when the
\* last one began; otherwise the last one has stored it.
Snapshots ==
    "snapshot" \notin mixed =>
        /\ \A p \in Procs : Taking(p) /\ (\A q \in Procs : Taking(q) => q = p) =>
                                proc[p].read = HashesOf(intelSeen)
        /\ (\A p \in Procs : ~Taking(p)) /\ intelSnapshot # None => intelSnapshot = HashesOf(intelSeen)

Banners == apiSurface # None => (apiSurface.symbols = 0) = (apiSurface.banner = "incomplete")

IntelInv == part = "intel" /\ IntelShapes /\ II!StampKeepsEntries /\ Snapshots /\ Banners

LEMMA ContentFacts ==
    \A n, a, v : /\ DOMAIN II!Content(n, a, v) = ContentFields /\ II!Content(n, a, v).entries = n
BY DEF II!Content, ContentFields

LEMMA NamesOf == II!Names \subseteq II!AllNames
BY DEF II!AllNames

LEMMA IntelIdle == DOMAIN II!Idle = {"at", "name", "read"} /\ II!Idle.at = "none"
BY DEF II!Idle

\* Who writes a file by hand, and the days.
LEMMA EditSteps ==
    ASSUME IntelInv, part' = part, II!AgentWrites \/ II!EditBreaks \/ II!DayPasses
    PROVE  IntelInv'
<1>1. UNCHANGED <<intelSnapshot, apiSurface, proc, intelSeen, mixed>>
      BY DEF II!AgentWrites, II!EditBreaks, II!DayPasses
<1>2. IntelShapes /\ II!StampKeepsEntries /\ Snapshots /\ Banners BY DEF IntelInv
<1>3. Snapshots' /\ Banners' BY <1>1, <1>2 DEF Snapshots, Banners, Taking
<1>4. IntelShapes' /\ II!StampKeepsEntries'
      <2>1. CASE II!AgentWrites
            <3>1. PICK n, e, a :
                      /\ n \in II!AllNames
                      /\ intelFile' = [intelFile EXCEPT ![n] = II!Content(e, a, 1)]
                      /\ kept' = [kept EXCEPT ![n] = e]
                  BY <2>1 DEF II!AgentWrites
            <3> QED BY <3>1, <1>1, <1>2, ContentFacts DEF IntelShapes, II!StampKeepsEntries
      <2>2. CASE II!EditBreaks
            <3>1. PICK n \in II!Names :
                      /\ intelFile' = [intelFile EXCEPT ![n] = Torn]
                      /\ kept' = [kept EXCEPT ![n] = 0]
                  BY <2>2 DEF II!EditBreaks
            <3> QED BY <3>1, <1>1, <1>2, NamesOf DEF IntelShapes, II!StampKeepsEntries
      <2>3. CASE II!DayPasses
            <3> DEFINE Old(n) == [intelFile[n] EXCEPT !.at = "old"]
            <3>1. /\ intelFile' = [n \in II!AllNames |->
                                 IF intelFile[n] \notin {None, Torn} /\ intelFile[n].at = "fresh" THEN Old(n) ELSE intelFile[n]]
                  /\ kept' = kept
                  BY <2>3 DEF II!DayPasses
            <3>2. \A n \in II!AllNames : intelFile[n] \notin {None, Torn} =>
                      DOMAIN Old(n) = ContentFields /\ Old(n).entries = intelFile[n].entries
                  BY <1>2 DEF IntelShapes, ContentFields
            <3> HIDE DEF Old
            <3>3. \A n \in II!AllNames :
                      \/ intelFile'[n] = intelFile[n]
                      \/ intelFile[n] \notin {None, Torn} /\ intelFile'[n] = Old(n)
                  BY <3>1
            <3>4. DOMAIN intelFile' = II!AllNames BY <3>1
            <3>5. IntelShapes' BY <3>1, <3>2, <3>3, <3>4, <1>1, <1>2 DEF IntelShapes
            <3>6. II!StampKeepsEntries'
                  BY <3>1, <3>2, <3>3, <1>1, <1>2 DEF II!StampKeepsEntries
            <3> QED BY <3>5, <3>6
      <2> QED BY <2>1, <2>2, <2>3
<1> QED BY <1>3, <1>4 DEF IntelInv

\* A command begins.
LEMMA IntelBegins ==
    ASSUME IntelInv, part' = part, NEW p \in Procs, NEW c, II!Begin(p, c),
           DOMAIN c = {"at", "name", "read"},
           IF c.at = "snapshot" THEN c.read = HashesOf(intelSeen') ELSE UNCHANGED intelSeen
    PROVE  IntelInv'
<1>1. /\ proc' = [proc EXCEPT ![p] = c] /\ proc[p].at = "none"
      /\ UNCHANGED <<intelFile, intelSnapshot, apiSurface, kept, mixed>>
      BY DEF II!Begin
<1>2. IntelShapes /\ II!StampKeepsEntries /\ Snapshots /\ Banners BY DEF IntelInv
<1>3. DOMAIN proc' = Procs /\ \A q \in Procs : proc'[q] = IF q = p THEN c ELSE proc[q]
      BY <1>1, <1>2 DEF IntelShapes
<1>4. IntelShapes' BY <1>1, <1>2, <1>3 DEF IntelShapes
<1>5. II!StampKeepsEntries' BY <1>1, <1>2 DEF II!StampKeepsEntries
<1>6. Banners' BY <1>1, <1>2 DEF Banners
<1>7. Snapshots'
      <2>1. ~Taking(p) BY <1>1 DEF Taking
      <2>2. CASE c.at = "snapshot"
            <3>1. Taking(p)' /\ \A q \in Procs : q # p => Taking(q)' = Taking(q) BY <2>2, <1>3 DEF Taking
            <3>2. proc'[p].read = HashesOf(intelSeen') BY <2>2, <1>3
            <3>3. \A q \in Procs : Taking(q)' /\ (\A r \in Procs : Taking(r)' => r = q) =>
                      proc'[q].read = HashesOf(intelSeen')
                  BY <3>1, <3>2
            <3> QED BY <3>1, <3>3 DEF Snapshots, HashesOf
      <2>3. CASE c.at # "snapshot"
            <3>1. \A q \in Procs : /\ Taking(q)' <=> Taking(q)
                                   /\ Taking(q) => proc'[q] = proc[q]
                  BY <2>1, <2>3, <1>3 DEF Taking
            <3>2. UNCHANGED intelSeen BY <2>3
            <3> QED BY <3>1, <3>2, <1>1, <1>2 DEF Snapshots, HashesOf
      <2> QED BY <2>2, <2>3
<1> QED BY <1>4, <1>5, <1>6, <1>7 DEF IntelInv

LEMMA IntelBeginSteps ==
    ASSUME IntelInv, part' = part, NEW p \in Procs,
           II!BeginPatch(p) \/ II!BeginSnapshot(p) \/ II!BeginSurface(p)
    PROVE  IntelInv'
<1>1. \A c : DOMAIN c = {"at", "name", "read"} /\ II!Begin(p, c)
                 /\ (IF c.at = "snapshot" THEN c.read = HashesOf(intelSeen') ELSE UNCHANGED intelSeen)
             => IntelInv'
      BY IntelBegins
<1>2. CASE II!BeginPatch(p)
      <2>1. PICK n : II!Begin(p, [at |-> "patch", name |-> n, read |-> II!Read(n)]) /\ UNCHANGED intelSeen
            BY <1>2 DEF II!BeginPatch
      <2> DEFINE c == [at |-> "patch", name |-> n, read |-> II!Read(n)]
      <2>2. DOMAIN c = {"at", "name", "read"} /\ c.at = "patch" OBVIOUS
      <2>3. II!Begin(p, c) BY <2>1
      <2> HIDE DEF c
      <2> QED BY <2>1, <2>2, <2>3, <1>1
<1>3. CASE II!BeginSnapshot(p)
      <2> DEFINE c == [at |-> "snapshot", name |-> None, read |-> II!Hashes]
      <2>1. II!Begin(p, c) /\ intelSeen' = [n \in II!Names |-> intelFile[n]] BY <1>3 DEF II!BeginSnapshot
      <2>2. II!Hashes = HashesOf(intelSeen')
            <3>1. {m \in II!Names : intelSeen'[m] # None} = {m \in II!Names : intelFile[m] # None} BY <2>1
            <3>2. \A n \in {m \in II!Names : intelFile[m] # None} : intelSeen'[n] = intelFile[n] BY <2>1
            <3> QED BY <3>1, <3>2 DEF II!Hashes, II!Hash, HashesOf
      <2>3. DOMAIN c = {"at", "name", "read"} /\ c.at = "snapshot" /\ c.read = HashesOf(intelSeen')
            BY <2>2
      <2> HIDE DEF c
      <2> QED BY <2>1, <2>3, <1>1
<1>4. CASE II!BeginSurface(p)
      <2> DEFINE c == [at |-> "surface", name |-> II!ApiMap, read |-> II!Read(II!ApiMap)]
      <2>1. II!Begin(p, c) /\ UNCHANGED intelSeen BY <1>4 DEF II!BeginSurface
      <2>2. DOMAIN c = {"at", "name", "read"} /\ c.at = "surface" OBVIOUS
      <2> HIDE DEF c
      <2> QED BY <2>1, <2>2, <1>1
<1> QED BY <1>2, <1>3, <1>4
\* A command that ends, having written what it read.
LEMMA IntelEndSteps ==
    ASSUME IntelInv, part' = part, NEW p \in Procs,
           II!WritePatch(p) \/ II!WriteSnapshot(p) \/ II!WriteSurface(p)
    PROVE  IntelInv'
<1>1. IntelShapes /\ II!StampKeepsEntries /\ Snapshots /\ Banners BY DEF IntelInv
<1>2. proc' = [proc EXCEPT ![p] = II!Idle] /\ UNCHANGED <<kept, intelSeen>> /\ mixed \subseteq mixed'
      BY DEF II!WritePatch, II!WriteSnapshot, II!WriteSurface, II!Ends
<1>3. DOMAIN proc' = Procs /\ \A q \in Procs : proc'[q] = IF q = p THEN II!Idle ELSE proc[q]
      BY <1>1, <1>2 DEF IntelShapes
<1>4. \A q \in Procs : DOMAIN proc'[q] = {"at", "name", "read"} BY <1>1, <1>3, IntelIdle DEF IntelShapes
<1>5. \A q \in Procs : Taking(q)' <=> (q # p /\ Taking(q)) BY <1>3, IntelIdle DEF Taking
<1>6. CASE II!WritePatch(p)
      <2> DEFINE n == proc[p].name
                 c == proc[p].read
                 same == II!Read(n) # None /\ II!Read(n).entries = c.entries
      <2>1. /\ intelFile' = [intelFile EXCEPT ![n] = II!Content(c.entries, "fresh", c.version + 1)]
            /\ mixed' = mixed \cup (IF same THEN {} ELSE {"patch"})
            /\ UNCHANGED <<intelSnapshot, apiSurface>> /\ proc[p].at = "patch"
            BY <1>6 DEF II!WritePatch, II!Ends
      <2>2. \A m \in II!AllNames : intelFile'[m] = IF m = n THEN II!Content(c.entries, "fresh", c.version + 1)
                                              ELSE intelFile[m]
            BY <2>1, <1>1 DEF IntelShapes
      <2>3. DOMAIN intelFile' = II!AllNames BY <2>1, <1>1 DEF IntelShapes
      <2>4. same => intelFile[n] \notin {None, Torn} /\ intelFile[n].entries = c.entries BY DEF II!Read
      <2> HIDE DEF same
      <2>5. II!StampKeepsEntries'
            <3> SUFFICES ASSUME "patch" \notin mixed', NEW m \in II!AllNames, intelFile'[m] \notin {None, Torn}
                         PROVE  intelFile'[m].entries = kept[m]
                BY <1>2 DEF II!StampKeepsEntries
            <3>1. "patch" \notin mixed /\ same BY <2>1
            <3>2. \A l \in II!AllNames : intelFile[l] \notin {None, Torn} => intelFile[l].entries = kept[l]
                  BY <3>1, <1>1 DEF II!StampKeepsEntries
            <3>3. CASE m = n BY <3>1, <3>2, <3>3, <2>2, <2>4, ContentFacts
            <3>4. CASE m # n BY <3>2, <3>4, <2>2
            <3> QED BY <3>3, <3>4
      <2>6. IntelShapes' BY <1>1, <1>2, <1>3, <1>4, <2>2, <2>3, ContentFacts DEF IntelShapes
      <2>7. Snapshots'
            <3>1. ~Taking(p) BY <2>1 DEF Taking
            <3>2. \A q \in Procs : (Taking(q)' <=> Taking(q)) /\ (Taking(q) => proc'[q] = proc[q])
                  BY <3>1, <1>3, <1>5
            <3>3. "snapshot" \notin mixed' => "snapshot" \notin mixed BY <1>2
            <3> QED BY <3>2, <3>3, <2>1, <1>1, <1>2 DEF Snapshots, HashesOf
      <2>8. Banners' BY <2>1, <1>1 DEF Banners
      <2> QED BY <2>5, <2>6, <2>7, <2>8 DEF IntelInv
<1>7. CASE II!WriteSnapshot(p)
      <2>1. /\ Taking(p) /\ intelSnapshot' = proc[p].read /\ UNCHANGED <<intelFile, apiSurface>>
            /\ mixed' = mixed \cup (IF \A q \in Procs \ {p} : proc[q].at # "snapshot" THEN {} ELSE {"snapshot"})
            BY <1>7 DEF II!WriteSnapshot, II!Ends, Taking
      <2>2. IntelShapes' BY <1>1, <1>2, <1>3, <1>4, <2>1 DEF IntelShapes
      <2>3. II!StampKeepsEntries' BY <1>1, <1>2, <2>1 DEF II!StampKeepsEntries
      <2>4. Banners' BY <2>1, <1>1 DEF Banners
      <2>5. Snapshots'
            <3> SUFFICES ASSUME "snapshot" \notin mixed' PROVE Snapshots'
                BY DEF Snapshots
            <3>1. "snapshot" \notin mixed /\ \A q \in Procs : Taking(q) => q = p BY <2>1 DEF Taking
            <3>2. proc[p].read = HashesOf(intelSeen) BY <3>1, <2>1, <1>1 DEF Snapshots
            <3>3. \A q \in Procs : ~Taking(q)' BY <3>1, <1>5
            <3>4. intelSnapshot' = HashesOf(intelSeen') BY <3>2, <2>1, <1>2
            <3> QED BY <3>3, <3>4 DEF Snapshots, HashesOf
      <2> QED BY <2>2, <2>3, <2>4, <2>5 DEF IntelInv
<1>8. CASE II!WriteSurface(p)
      <2> DEFINE c == proc[p].read
      <2>1. /\ apiSurface' = II!Surface(c) /\ UNCHANGED <<intelFile, intelSnapshot>> /\ proc[p].at = "surface"
            /\ mixed' = mixed
            BY <1>8 DEF II!WriteSurface, II!Ends
      <2>2. IntelShapes' BY <1>1, <1>2, <1>3, <1>4, <2>1 DEF IntelShapes
      <2>3. II!StampKeepsEntries' BY <1>1, <1>2, <2>1 DEF II!StampKeepsEntries
      <2>4. (II!Surface(c).symbols = 0) = (II!Surface(c).banner = "incomplete")
            BY DEF II!Surface, II!Banner
      <2>5. Banners' BY <2>1, <2>4 DEF Banners
      <2>6. Snapshots'
            <3>1. ~Taking(p) BY <2>1 DEF Taking
            <3>2. \A q \in Procs : (Taking(q)' <=> Taking(q)) /\ (Taking(q) => proc'[q] = proc[q])
                  BY <3>1, <1>3, <1>5
            <3> QED BY <3>2, <2>1, <1>1, <1>2 DEF Snapshots, HashesOf
      <2> QED BY <2>2, <2>3, <2>5, <2>6 DEF IntelInv
<1> QED BY <1>6, <1>7, <1>8

LEMMA IntelInit == part = "intel" /\ II!Init => IntelInv
<1> SUFFICES ASSUME part = "intel", II!Init PROVE IntelInv
    OBVIOUS
<1>1. /\ intelSnapshot = None /\ apiSurface = None /\ proc = [p \in Procs |-> II!Idle]
      /\ kept = [n \in II!AllNames |-> IF intelFile[n] = None THEN 0 ELSE 1]
      /\ intelFile = [n \in II!AllNames |-> None] \/ intelFile = [n \in II!AllNames |-> II!Content(1, "old", 1)]
      BY DEF II!Init
<1>2. IntelShapes BY <1>1, ContentFacts, IntelIdle DEF IntelShapes
<1>3. II!StampKeepsEntries BY <1>1, ContentFacts DEF II!StampKeepsEntries
<1>4. \A p \in Procs : ~Taking(p) BY <1>1, IntelIdle DEF Taking
<1> QED BY <1>1, <1>2, <1>3, <1>4 DEF IntelInv, Snapshots, Banners

LEMMA IntelStep == IntelInv /\ part' = part /\ [II!Next]_(II!vars) => IntelInv'
<1> SUFFICES ASSUME IntelInv, part' = part, [II!Next]_(II!vars) PROVE IntelInv'
    OBVIOUS
<1>1. CASE II!Next BY <1>1, EditSteps, IntelBeginSteps, IntelEndSteps DEF II!Next
<1>2. CASE UNCHANGED II!vars
      BY <1>2 DEF II!vars, IntelInv, IntelShapes, II!StampKeepsEntries, Snapshots, Taking, HashesOf, Banners
<1> QED BY <1>1, <1>2

\* What the reading commands say follows from the files and the snapshot.
LEMMA IntelAnswers ==
    ASSUME IntelInv
    PROVE  II!StampKeepsEntries /\ II!DiffFindsChanges /\ II!SilenceIsExplained
<1>1. IntelShapes /\ II!StampKeepsEntries /\ Snapshots /\ Banners BY DEF IntelInv
<1>2. II!DiffFindsChanges
      <2> SUFFICES ASSUME intelSnapshot # None, "snapshot" \notin mixed,
                          \A p \in Procs : proc[p].at # "snapshot"
                   PROVE  II!Added \cup II!Removed \cup II!Changed = {n \in II!Names : intelFile[n] # intelSeen[n]}
          BY DEF II!DiffFindsChanges
      <2>1. intelSnapshot = HashesOf(intelSeen) BY <1>1 DEF Snapshots, Taking
      <2>2. /\ II!Listed = {m \in II!Names : intelSeen[m] # None}
            /\ \A n \in II!Listed : intelSnapshot[n] = intelSeen[n]
            BY <2>1 DEF II!Listed, HashesOf
      <2>3. II!Added = {n \in II!Names : intelFile[n] # None /\ n \notin II!Listed} BY DEF II!Added, II!Hash
      <2>4. II!Removed = {n \in II!Listed : intelFile[n] = None} BY DEF II!Removed, II!Hash
      <2>5. II!Changed = {n \in II!Listed : intelFile[n] # None /\ intelFile[n] # intelSnapshot[n]}
            BY DEF II!Changed, II!Hash
      <2> QED BY <2>2, <2>3, <2>4, <2>5
<1>3. ~II!OverallStale => \A n \in II!Names : II!Read(n) # None /\ II!Read(n).at = "fresh"
      BY DEF II!OverallStale, II!StaleFile
<1>4. \A n \in II!Names : II!Read(n) # None => II!Read(n) = intelFile[n] /\ intelFile[n] \notin {None, Torn}
      BY DEF II!Read
<1>5. II!SilenceIsExplained
      <2>1. ~II!OverallStale => II!Errors = {} /\ II!Warnings = {}
            BY <1>3 DEF II!Errors, II!Warnings
      <2>2. ~II!OverallStale /\ "patch" \notin mixed => II!Matches = {n \in II!Names : kept[n] # 0}
            <3> SUFFICES ASSUME ~II!OverallStale, "patch" \notin mixed
                         PROVE  II!Matches = {n \in II!Names : kept[n] # 0}
                OBVIOUS
            <3>1. \A n \in II!Names : II!Read(n) # None /\ II!Read(n).entries = kept[n]
                  BY <1>1, <1>3, <1>4, NamesOf DEF II!StampKeepsEntries
            <3> QED BY <3>1 DEF II!Matches
      <2> QED BY <2>1, <2>2, <1>1 DEF II!SilenceIsExplained, Banners
<1> QED BY <1>1, <1>2, <1>5

-----------------------------------------------------------------------------
(* The codebase map.  The part's variables, by their names in CodebaseMap, *)
(* but for those other parts have as well.                                 *)

history == v1
head == v2
lost == v3
map == v4
gate == v5
mapSaid == v6           \* said
mapper == v7
mapSeen == v8           \* seen
mapStrays == v11        \* strays

USE DEF history, head, lost, map, gate, mapSaid, mapper, mapSeen, mapStrays

LEMMA CodebaseFacts ==
    /\ IsFiniteSet(MapFiles) /\ Threshold \in Nat
    /\ \A f \in MapFiles : f.path \in Seq(STRING) /\ f.path # <<>>
    /\ \A files \in SUBSET MapFiles : None # CB!AffectedPaths(files)
<1>1. \A S : CB!IsFiniteSet(S) = IsFiniteSet(S) BY DEF CB!IsFiniteSet, IsFiniteSet
<1> QED BY <1>1, KnowledgeConstants DEF KnowledgeConstants, CB!CodebaseConstants

\* A map that covers more finds less drifted.
LEMMA DriftsLess ==
    ASSUME NEW f, NEW c, NEW d, c \subseteq d, ~CB!Drifts(f, c)
    PROVE  ~CB!Drifts(f, d)
BY DEF CB!Drifts, CB!IsPathMapped

\* Who is sent to a file's place looks at the file.
LEMMA PlaceHolds == ASSUME NEW f \in MapFiles PROVE CB!IsPrefix(CB!Place(f), f.path)
<1>1. f.path \in Seq(STRING) /\ Len(f.path) \in Nat /\ Len(f.path) >= 1
      BY CodebaseFacts
<1>2. PICK n \in 1..Len(f.path) : CB!Place(f) = SubSeq(f.path, 1, n)
      <2>1. CASE f.path[1] \in {"apps", "packages"} /\ Len(f.path) > 1
            BY <2>1, <1>1 DEF CB!Place
      <2>2. CASE ~(f.path[1] \in {"apps", "packages"} /\ Len(f.path) > 1)
            BY <2>2, <1>1 DEF CB!Place
      <2> QED BY <2>1, <2>2
<1>3. Len(CB!Place(f)) = n BY <1>1, <1>2
<1>4. SubSeq(CB!Place(f), 1, n) = SubSeq(f.path, 1, n) BY <1>1, <1>2
<1>5. Len(f.path) >= n BY <1>1, <1>2
<1> QED BY <1>3, <1>4, <1>5 DEF CB!IsPrefix

MapShapes ==
    /\ history \in Seq(SUBSET MapFiles) /\ head \in 0..Len(history)
    /\ map # None => map.stamp = None \/ map.stamp \in DOMAIN history
    /\ mapper.at = "write" => mapper.head \in 0..Len(history)
    /\ mapSaid.elements \subseteq MapFiles /\ (mapSaid.skipped => ~mapSaid.required)

\* A file that a mapper has looked at, or that a map does not call drifted.
Known(f, covers) == f \in mapSeen \/ ~CB!Drifts(f, covers)

\* What was there at the commit a map is stamped with.
MapIsThorough ==
    map # None /\ map.stamp # None => \A f \in history[map.stamp] : Known(f, map.covers)
\* What is there at the commit a mapper began with, once it has written.
MapperIsThorough ==
    mapper.at = "write" /\ mapper.head # 0 =>
        \A f \in history[mapper.head] :
            f \in mapper.files \/ f \in mapSeen
                \/ (mapper.places # None /\ map # None /\ ~CB!Drifts(f, map.covers))
\* What was there when the gate judged.
SaidIsThorough ==
    ~mapSaid.skipped =>
        /\ mapSaid.head \in DOMAIN history
        /\ \A f \in history[mapSaid.head] : f \in mapSeen \/ f \in mapSaid.new
        /\ CB!Elements(mapSaid.new, mapSaid.covers) \subseteq mapSaid.elements
        /\ CB!Cardinality(CB!Elements(mapSaid.new, mapSaid.covers)) >= Threshold => mapSaid.required

MapInv ==
    /\ part = "map" /\ MapShapes
    /\ mapStrays = {} => MapIsThorough /\ MapperIsThorough /\ SaidIsThorough

\* Steps of the repository: commits stay as they are.
LEMMA RepositorySteps ==
    ASSUME MapInv, part' = part, CB!Commit \/ CB!CheckOut \/ CB!Lose
    PROVE  MapInv'
<1>1. UNCHANGED <<map, mapSaid, mapper, mapSeen, mapStrays>>
      BY DEF CB!Commit, CB!CheckOut, CB!Lose
<1>2. MapShapes /\ (mapStrays = {} => MapIsThorough /\ MapperIsThorough /\ SaidIsThorough)
      BY DEF MapInv
<1>3. CB!Tree \subseteq MapFiles BY <1>2 DEF CB!Tree, CB!FilesAt, MapShapes
<1>4. /\ history' \in Seq(SUBSET MapFiles) /\ head' \in 0..Len(history')
      /\ Len(history') >= Len(history)
      /\ \A i \in DOMAIN history : i \in DOMAIN history' /\ history'[i] = history[i]
      <2>1. CASE CB!Commit
            <3>1. PICK files \in SUBSET MapFiles : history' = Append(history, files) /\ head' = Len(history')
                  BY <2>1, <1>3 DEF CB!Commit
            <3> QED BY <3>1, <1>2 DEF MapShapes
      <2>2. CASE CB!CheckOut BY <2>2, <1>2 DEF CB!CheckOut, MapShapes
      <2>3. CASE CB!Lose BY <2>3, <1>2 DEF CB!Lose, MapShapes
      <2> QED BY <2>1, <2>2, <2>3
<1>5. DOMAIN history = 1..Len(history) /\ Len(history) \in Nat BY <1>2 DEF MapShapes
<1>6. MapShapes' BY <1>1, <1>2, <1>4, <1>5 DEF MapShapes
<1>7. ASSUME mapStrays = {} PROVE (MapIsThorough /\ MapperIsThorough /\ SaidIsThorough)'
      <2>1. MapIsThorough'
            BY <1>1, <1>2, <1>4, <1>7 DEF MapIsThorough, Known, MapShapes
      <2>2. MapperIsThorough'
            BY <1>1, <1>2, <1>4, <1>5, <1>7 DEF MapperIsThorough, MapShapes
      <2>3. SaidIsThorough'
            BY <1>1, <1>2, <1>4, <1>7 DEF SaidIsThorough
      <2> QED BY <2>1, <2>2, <2>3
<1> QED BY <1>1, <1>6, <1>7 DEF MapInv

\* The gate judges by the map it has read, unless that was replaced.
LEMMA GateSteps ==
    ASSUME MapInv, part' = part, CB!GateReads \/ CB!GateJudges
    PROVE  MapInv'
<1>1. UNCHANGED <<history, head, lost, map, mapper, mapSeen>> /\ mapStrays \subseteq mapStrays'
      BY DEF CB!GateReads, CB!GateJudges
<1>2. MapShapes /\ (mapStrays = {} => MapIsThorough /\ MapperIsThorough /\ SaidIsThorough)
      BY DEF MapInv
<1>3. /\ CB!Skipped.skipped = TRUE /\ CB!Skipped.required = FALSE /\ CB!Skipped.elements = {}
      BY DEF CB!Skipped
<1>4. mapStrays' = {} => (MapIsThorough /\ MapperIsThorough)'
      BY <1>1, <1>2 DEF MapIsThorough, MapperIsThorough, Known
<1>5. CASE mapSaid' = CB!Skipped
      <2>1. MapShapes' BY <1>1, <1>2, <1>3, <1>5 DEF MapShapes
      <2>2. SaidIsThorough' BY <1>3, <1>5 DEF SaidIsThorough
      <2> QED BY <2>1, <2>2, <1>4 DEF MapInv
<1>6. CASE UNCHANGED mapSaid
      <2>1. MapShapes' BY <1>1, <1>2, <1>6 DEF MapShapes
      <2>2. mapStrays' = {} => SaidIsThorough' BY <1>1, <1>2, <1>6 DEF SaidIsThorough
      <2> QED BY <2>1, <2>2, <1>4 DEF MapInv
<1>7. CASE CB!GateJudges /\ head # 0
      <2> DEFINE elements == CB!Elements(CB!Tree \ CB!Base(map.stamp), gate.covers)
                 new == CB!Tree \ mapSeen
      <2>1. /\ mapSaid' = CB!Verdict(gate.covers, map.stamp) /\ gate # None
            /\ mapStrays' = mapStrays \cup (IF map = gate THEN {} ELSE {"between"})
            BY <1>7 DEF CB!GateJudges
      <2>2. /\ mapSaid'.skipped = FALSE /\ mapSaid'.elements = elements
            /\ mapSaid'.required = (CB!Cardinality(elements) >= Threshold)
            /\ mapSaid'.covers = gate.covers /\ mapSaid'.new = new /\ mapSaid'.head = head
            BY <2>1 DEF CB!Verdict
      <2>3. CB!Tree = history[head] /\ head \in DOMAIN history /\ CB!Tree \subseteq MapFiles
            BY <1>2, <1>7 DEF CB!Tree, CB!FilesAt, MapShapes
      <2>4. elements \subseteq MapFiles BY <2>3 DEF CB!Elements
      <2>5. mapStrays' = {} => CB!Elements(new, gate.covers) \subseteq elements
            <3> SUFFICES ASSUME mapStrays' = {}, NEW f \in CB!Elements(new, gate.covers)
                         PROVE  f \notin CB!Base(map.stamp)
                BY DEF CB!Elements
            <3>1. map = gate /\ map # None /\ mapStrays = {} BY <2>1
            <3>2. MapIsThorough BY <3>1, <1>2
            <3>3. f \notin mapSeen /\ CB!Drifts(f, map.covers) BY <3>1 DEF CB!Elements
            <3> QED BY <3>1, <3>2, <3>3 DEF MapIsThorough, Known, CB!Base
      <2> HIDE DEF elements, new
      <2>6. MapShapes' BY <1>1, <1>2, <2>2, <2>4 DEF MapShapes
      <2>7. mapStrays' = {} => SaidIsThorough'
            <3> SUFFICES ASSUME mapStrays' = {} PROVE SaidIsThorough'
                OBVIOUS
            <3> DEFINE drifted == CB!Elements(new, gate.covers)
            <3>1. drifted \subseteq elements BY <2>5
            <3>2. IsFiniteSet(elements) BY <2>4, CodebaseFacts, FS_Subset
            <3> HIDE DEF drifted
            <3>3. IsFiniteSet(drifted) /\ Cardinality(drifted) <= Cardinality(elements)
                  BY <3>1, <3>2, FS_Subset
            <3>4. Cardinality(drifted) \in Nat /\ Cardinality(elements) \in Nat
                  BY <3>2, <3>3, FS_CardinalityType
            <3>5. \A S : CB!Cardinality(S) = Cardinality(S) BY DEF CB!Cardinality, Cardinality
            <3>6. CB!Cardinality(drifted) >= Threshold => CB!Cardinality(elements) >= Threshold
                  BY <3>3, <3>4, <3>5, CodebaseFacts
            <3>7. \A f \in history[head] : f \in mapSeen \/ f \in new BY <2>3 DEF new
            <3> QED BY <3>1, <3>6, <3>7, <1>1, <2>2, <2>3 DEF SaidIsThorough, drifted
      <2> QED BY <2>6, <2>7, <1>4 DEF MapInv
<1> QED BY <1>5, <1>6, <1>7 DEF CB!GateReads, CB!GateJudges
\* A mapper begins: who goes by a verdict looks at all that drifted, and the
\* map has the rest.
LEMMA LookStep ==
    ASSUME MapInv, part' = part, NEW files, NEW places, NEW stray, CB!Look(files, places, stray),
           mapStrays' = {} /\ head # 0 =>
               \A f \in history[head] :
                   f \in files \/ f \in mapSeen
                       \/ (places # None /\ map # None /\ ~CB!Drifts(f, map.covers))
    PROVE  MapInv'
<1>1. /\ mapper' = [at |-> "write", files |-> files, places |-> places, head |-> head]
      /\ UNCHANGED <<history, head, lost, map, gate, mapSaid, mapSeen>> /\ mapStrays \subseteq mapStrays'
      BY DEF CB!Look
<1>2. MapShapes /\ (mapStrays = {} => MapIsThorough /\ MapperIsThorough /\ SaidIsThorough)
      BY DEF MapInv
<1>3. mapper'.at = "write" /\ mapper'.files = files /\ mapper'.places = places /\ mapper'.head = head
      BY <1>1
<1>4. MapShapes' BY <1>1, <1>2, <1>3 DEF MapShapes
<1>5. mapStrays' = {} => MapperIsThorough' BY <1>1, <1>3 DEF MapperIsThorough
<1>6. mapStrays' = {} => (MapIsThorough /\ SaidIsThorough)'
      BY <1>1, <1>2 DEF MapIsThorough, SaidIsThorough, Known
<1> QED BY <1>1, <1>4, <1>5, <1>6 DEF MapInv

LEMMA MapLookSteps ==
    ASSUME MapInv, part' = part, CB!MapAll \/ CB!Remap \/ CB!MapOnePlace
    PROVE  MapInv'
<1>1. MapShapes /\ (mapStrays = {} => MapIsThorough /\ MapperIsThorough /\ SaidIsThorough)
      BY DEF MapInv
<1>2. head # 0 => CB!Tree = history[head] /\ head \in DOMAIN history /\ CB!Tree \subseteq MapFiles
      BY <1>1 DEF CB!Tree, CB!FilesAt, MapShapes
<1>3. CASE CB!MapAll
      <2>1. CB!Look(CB!Tree, None, {}) BY <1>3 DEF CB!MapAll
      <2>2. head # 0 => \A f \in history[head] : f \in CB!Tree BY <1>2
      <2> QED BY <2>1, <2>2, LookStep
<1>4. CASE CB!Remap
      <2> DEFINE places == CB!AffectedPaths(mapSaid.elements)
                 files == CB!Under(CB!Tree, places)
                 at == CB!FilesAt(mapSaid.head)
                 stray == IF CB!Tree \subseteq at /\ mapSaid.covers \subseteq map.covers THEN {} ELSE {"moved"}
      <2>1. CB!Look(files, places, stray) /\ mapSaid.required /\ map # None BY <1>4 DEF CB!Remap
      <2>2. mapStrays' = mapStrays \cup stray BY <2>1 DEF CB!Look
      <2>3. places # None BY <1>1, CodebaseFacts DEF MapShapes
      <2>4. ASSUME mapStrays' = {}, head # 0, NEW f \in history[head], f \notin mapSeen
            PROVE  f \in files \/ ~CB!Drifts(f, map.covers)
            <3>1. mapStrays = {} /\ CB!Tree \subseteq at /\ mapSaid.covers \subseteq map.covers
                  BY <2>2, <2>4
            <3>2. SaidIsThorough /\ ~mapSaid.skipped BY <3>1, <2>1, <1>1 DEF MapShapes
            <3>3. mapSaid.head \in 1..Len(history) /\ Len(history) \in Nat
                  BY <3>2, <1>1 DEF SaidIsThorough, MapShapes
            <3>4. f \in history[mapSaid.head] BY <3>1, <3>3, <2>4, <1>2 DEF CB!FilesAt
            <3>5. f \in mapSaid.new BY <3>2, <3>4, <2>4 DEF SaidIsThorough
            <3>6. CASE CB!Drifts(f, mapSaid.covers)
                  <4>1. f \in mapSaid.elements BY <3>2, <3>5, <3>6 DEF SaidIsThorough, CB!Elements
                  <4>2. f \in MapFiles BY <4>1, <1>1 DEF MapShapes
                  <4>3. CB!Place(f) \in places BY <4>1 DEF CB!AffectedPaths
                  <4>4. CB!IsPrefix(CB!Place(f), f.path) BY <4>2, PlaceHolds
                  <4>5. f \in CB!Tree BY <1>2, <2>4
                  <4> QED BY <4>3, <4>4, <4>5 DEF CB!Under
            <3>7. CASE ~CB!Drifts(f, mapSaid.covers) BY <3>1, <3>7, DriftsLess
            <3> QED BY <3>6, <3>7
      <2> HIDE DEF files, places, at, stray
      <2> QED BY <2>1, <2>3, <2>4, LookStep
<1>5. CASE CB!MapOnePlace
      <2>1. PICK p \in CB!AffectedPaths(CB!Tree) :
                CB!Look(CB!Under(CB!Tree, {p}), {p},
                        IF CB!AffectedPaths(CB!Drifted) \subseteq {p} THEN {} ELSE {"partial"})
            BY <1>5 DEF CB!MapOnePlace
      <2> DEFINE files == CB!Under(CB!Tree, {p})
                 places == {p}
                 stray == IF CB!AffectedPaths(CB!Drifted) \subseteq {p} THEN {} ELSE {"partial"}
      <2>2. CB!Look(files, places, stray) /\ map # None BY <2>1, <1>5 DEF CB!MapOnePlace
      <2>3. mapStrays' = mapStrays \cup stray BY <2>2 DEF CB!Look
      <2>4. places # None
            <3>1. PICK f \in CB!Tree : p = CB!Place(f) BY DEF CB!AffectedPaths
            <3>2. f \in MapFiles BY <1>1, <3>1 DEF CB!Tree, CB!FilesAt, MapShapes
            <3>3. places = CB!AffectedPaths({f}) BY <3>1 DEF CB!AffectedPaths
            <3> HIDE DEF places
            <3> QED BY <3>2, <3>3, CodebaseFacts
      <2>5. ASSUME mapStrays' = {}, head # 0, NEW f \in history[head], f \notin mapSeen
            PROVE  f \in files \/ ~CB!Drifts(f, map.covers)
            <3>1. mapStrays = {} /\ CB!AffectedPaths(CB!Drifted) \subseteq {p} BY <2>3, <2>5
            <3>2. f \in CB!Tree /\ f \in MapFiles BY <1>2, <2>5
            <3>3. CASE f \in CB!Base(map.stamp)
                  <4>1. MapIsThorough BY <3>1, <1>1
                  <4> QED BY <3>3, <4>1, <2>2, <2>5 DEF MapIsThorough, Known, CB!Base
            <3>4. CASE f \notin CB!Base(map.stamp) /\ CB!Drifts(f, map.covers)
                  <4>1. CB!Place(f) \in CB!AffectedPaths(CB!Drifted)
                        BY <3>2, <3>4 DEF CB!AffectedPaths, CB!Drifted, CB!Elements
                  <4>2. CB!Place(f) = p BY <4>1, <3>1
                  <4>3. CB!IsPrefix(p, f.path) BY <4>2, <3>2, PlaceHolds
                  <4> QED BY <4>3, <3>2 DEF CB!Under
            <3> QED BY <3>3, <3>4
      <2> HIDE DEF files, places, stray
      <2> QED BY <2>2, <2>4, <2>5, LookStep
<1> QED BY <1>3, <1>4, <1>5

\* The map a mapper writes covers what it looked at, and what it was to leave
\* as it is.
LEMMA MapperWritesStep == ASSUME MapInv, part' = part, CB!MapperWrites PROVE MapInv'
<1>1. PICK stamped \in BOOLEAN :
          map' = [covers |-> (UNION {CB!Parents(f) : f \in mapper.files})
                               \cup (IF mapper.places = None \/ map = None THEN {} ELSE map.covers),
                  stamp |-> IF stamped /\ head # 0 THEN head ELSE None]
      BY DEF CB!MapperWrites
<1>2. /\ mapper.at = "write" /\ mapSeen' = mapSeen \cup mapper.files /\ mapper' = CB!NoMapper
      /\ mapStrays' = mapStrays \cup (IF CB!Tree \subseteq CB!FilesAt(mapper.head) THEN {} ELSE {"moved"})
      /\ UNCHANGED <<history, head, lost, gate, mapSaid>>
      BY DEF CB!MapperWrites
<1>3. MapShapes /\ (mapStrays = {} => MapIsThorough /\ MapperIsThorough /\ SaidIsThorough)
      BY DEF MapInv
<1>4. map'.stamp = None \/ (map'.stamp = head /\ head # 0) BY <1>1
<1>5. mapper.places # None /\ map # None => map.covers \subseteq map'.covers BY <1>1
<1>6. mapper'.at = "none" BY <1>2 DEF CB!NoMapper
<1>7. MapShapes' BY <1>2, <1>3, <1>4, <1>6 DEF MapShapes
<1>8. mapStrays' = {} => MapIsThorough'
      <2> SUFFICES ASSUME mapStrays' = {}, map'.stamp # None, NEW f \in history[head], f \notin mapSeen'
                   PROVE  ~CB!Drifts(f, map'.covers)
          BY <1>2, <1>4 DEF MapIsThorough, Known
      <2>1. mapStrays = {} /\ CB!Tree \subseteq CB!FilesAt(mapper.head) /\ head # 0 BY <1>2, <1>4
      <2>2. f \in CB!FilesAt(mapper.head) BY <2>1 DEF CB!Tree, CB!FilesAt
      <2>3. mapper.head # 0 /\ f \in history[mapper.head] BY <2>2 DEF CB!FilesAt
      <2>4. mapper.places # None /\ map # None /\ ~CB!Drifts(f, map.covers)
            BY <2>1, <2>3, <1>2, <1>3 DEF MapperIsThorough
      <2> QED BY <2>4, <1>5, DriftsLess
<1>9. MapperIsThorough' BY <1>6 DEF MapperIsThorough
<1>10. mapStrays' = {} => SaidIsThorough' BY <1>2, <1>3 DEF SaidIsThorough
<1> QED BY <1>7, <1>8, <1>9, <1>10 DEF MapInv

LEMMA MapperFailsStep == ASSUME MapInv, part' = part, CB!MapperFails PROVE MapInv'
<1>1. mapper'.at = "none" /\ UNCHANGED <<history, head, lost, map, gate, mapSaid, mapSeen, mapStrays>>
      BY DEF CB!MapperFails, CB!NoMapper
<1> QED BY <1>1 DEF MapInv, MapShapes, MapIsThorough, MapperIsThorough, SaidIsThorough, Known

LEMMA MapInit == part = "map" /\ CB!Init => MapInv
<1> SUFFICES ASSUME part = "map", CB!Init PROVE MapInv
    OBVIOUS
<1>1. history \in Seq(SUBSET MapFiles) /\ head \in 0..Len(history)
      <2>1. CASE history = <<>> /\ head = 0 BY <2>1
      <2>2. CASE history \in {<<{f}>> : f \in MapFiles} /\ head = 1
            <3>1. PICK f \in MapFiles : history = <<{f}>> BY <2>2
            <3>2. {f} \in SUBSET MapFiles OBVIOUS
            <3> DEFINE files == {f}
            <3>3. history = <<files>> /\ files \in SUBSET MapFiles BY <3>1, <3>2
            <3> HIDE DEF files
            <3> QED BY <3>3, <2>2
      <2> QED BY <2>1, <2>2 DEF CB!Init
<1>2. map = None /\ mapSaid = CB!Skipped /\ mapper.at = "none" BY DEF CB!Init, CB!NoMapper
<1>3. mapSaid.skipped = TRUE /\ mapSaid.required = FALSE /\ mapSaid.elements = {}
      BY <1>2 DEF CB!Skipped
<1> QED BY <1>1, <1>2, <1>3 DEF MapInv, MapShapes, MapIsThorough, MapperIsThorough, SaidIsThorough

LEMMA MapStep == MapInv /\ part' = part /\ [CB!Next]_(CB!vars) => MapInv'
<1> SUFFICES ASSUME MapInv, part' = part, [CB!Next]_(CB!vars) PROVE MapInv'
    OBVIOUS
<1>1. CASE CB!Next
      BY <1>1, RepositorySteps, GateSteps, MapLookSteps, MapperWritesStep, MapperFailsStep DEF CB!Next
<1>2. CASE UNCHANGED CB!vars
      BY <1>2 DEF CB!vars, MapInv, MapShapes, MapIsThorough, MapperIsThorough, SaidIsThorough, Known
<1> QED BY <1>1, <1>2

LEMMA GateMisses == MapInv => CB!GateMissesNothing
BY DEF MapInv, SaidIsThorough, CB!GateMissesNothing

LEMMA LearningsAnswers == LearningsInv => LE!StoredOnce /\ LE!ReportedIsStored
BY DEF LearningsInv
=============================================================================
