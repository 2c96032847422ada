---------------------------- MODULE AdminConsole ----------------------------
(***************************************************************************)
(* The administrators' settings page: the orchestration settings that      *)
(* ChatWorkspace.tsx loads and SettingsPage.tsx shows and changes, and the *)
(* two rows the server keeps them in (services/admin_evidence.py).  A      *)
(* change is committed before the answer's other half is read, so two      *)
(* consoles interleave between a request's two halves.                     *)
(***************************************************************************)
EXTENDS Integers, FiniteSets

CONSTANTS Consoles,      \* open pages of administrators
          Writers,       \* those whose account may write
          MaxChanges,    \* bound: changes asked for
          MaxFailures,   \* bound: requests refused, failed or left unanswered
          None

AdminConstants ==
    /\ Writers \subseteq Consoles /\ None \notin Consoles
    /\ {MaxChanges, MaxFailures} \subseteq Nat

VARIABLES
    stored,       \* the settings the server keeps
    console,      \* what each page holds
    query,        \* the request each page waits for
    changes, failures,
    outdated      \* the fields another console wrote since a page's answer read them

adminVars == <<stored, console, query, changes, failures, outdated>>

Providers == {"gemini", "firecrawl"}
Fields == {"guardrail", "provider"}
Settings == [guardrail : BOOLEAN, provider : Providers \cup {None}]
Console == [settings : Settings \cup {None}, open : BOOLEAN, confirming : BOOLEAN, error : BOOLEAN]
NoQuery == [kind |-> "none", at |-> "idle", value |-> None, answer |-> None]

Init ==
    /\ stored \in Settings
    /\ console = [k \in Consoles |-> [settings |-> None, open |-> FALSE, confirming |-> FALSE, error |-> FALSE]]
    /\ query = [k \in Consoles |-> [NoQuery EXCEPT !.kind = "load", !.at = "sent"]]
    /\ changes = 0 /\ failures = 0 /\ outdated = {}

-----------------------------------------------------------------------------
(* The page. *)

Busy(k) == query[k].kind \in Fields
Page == <<stored, failures, outdated>>

\* Settings, section "tools": the dialog goes with the page it is on.
Opens(k) ==
    /\ ~console[k].open
    /\ console' = [console EXCEPT ![k].open = TRUE]
    /\ UNCHANGED <<Page, query, changes>>
Leaves(k) ==
    /\ console[k].open
    /\ console' = [console EXCEPT ![k].open = FALSE, ![k].confirming = FALSE]
    /\ UNCHANGED <<Page, query, changes>>

Controls(k) == console[k].open /\ k \in Writers /\ ~Busy(k) /\ console[k].settings # None

Change(k, field, value) ==
    /\ changes < MaxChanges /\ changes' = changes + 1
    /\ query' = [query EXCEPT ![k] = [kind |-> field, at |-> "sent", value |-> value, answer |-> None]]
    /\ UNCHANGED Page

Enable(k) ==
    /\ Controls(k) /\ ~console[k].settings.guardrail
    /\ console' = [console EXCEPT ![k].error = FALSE]
    /\ Change(k, "guardrail", TRUE)
RequestDisable(k) ==
    /\ Controls(k) /\ console[k].settings.guardrail
    /\ console' = [console EXCEPT ![k].confirming = TRUE]
    /\ UNCHANGED <<Page, query, changes>>
CancelDisable(k) ==
    /\ console[k].confirming
    /\ console' = [console EXCEPT ![k].confirming = FALSE]
    /\ UNCHANGED <<Page, query, changes>>
ConfirmDisable(k) ==
    /\ console[k].confirming /\ ~Busy(k)
    /\ console' = [console EXCEPT ![k].confirming = FALSE, ![k].error = FALSE]
    /\ Change(k, "guardrail", FALSE)
UseProvider(k, p) ==
    /\ Controls(k) /\ p # console[k].settings.provider
    /\ console' = [console EXCEPT ![k].error = FALSE]
    /\ Change(k, "provider", p)

\* The answer replaces everything that is shown.
LatestMerged(k, q) ==
    IF q.kind = "load" THEN q.answer
    ELSE [console[k].settings EXCEPT ![q.kind] = q.answer[q.kind]]
Latest(k, q) == q.answer

Answered(k) ==
    /\ query[k].at = "answered"
    /\ console' = [console EXCEPT ![k].settings = Latest(k, query[k]), ![k].error = FALSE]
    /\ query' = [query EXCEPT ![k] = NoQuery]
    /\ UNCHANGED <<Page, changes>>

\* A failed load empties the page for good; a failed change leaves it as it was.
Failed(k) ==
    /\ query[k].at = "failed"
    /\ console' = [console EXCEPT ![k].error = TRUE,
                                  ![k].settings = IF query[k].kind = "load" THEN None ELSE @]
    /\ query' = [query EXCEPT ![k] = NoQuery]
    /\ UNCHANGED <<Page, changes>>

-----------------------------------------------------------------------------
(* The server. *)

Reading(k, f) == [query[k].answer EXCEPT ![f] = stored[f]]
Serves == <<console, changes, failures>>

GetReadsGuardrail(k) ==
    /\ query[k].kind = "load" /\ query[k].at = "sent"
    /\ query' = [query EXCEPT ![k].at = "read", ![k].answer = stored]
    /\ outdated' = outdated \ {<<k, "guardrail">>}
    /\ UNCHANGED <<stored, Serves>>
GetReadsOverride(k) ==
    /\ query[k].kind = "load" /\ query[k].at = "read"
    /\ query' = [query EXCEPT ![k].at = "answered", ![k].answer = Reading(k, "provider")]
    /\ outdated' = outdated \ {<<k, "provider">>}
    /\ UNCHANGED <<stored, Serves>>

Commits(k) ==
    LET q == query[k] IN
    /\ Busy(k) /\ q.at = "sent"
    /\ stored' = [stored EXCEPT ![q.kind] = q.value]
    /\ query' = [query EXCEPT ![k].at = "committed", ![k].answer = [stored EXCEPT ![q.kind] = q.value]]
    /\ outdated' = (outdated \ {<<k, q.kind>>}) \cup {<<j, q.kind>> : j \in Consoles \ {k}}
    /\ UNCHANGED Serves
ReadsOther(k) ==
    LET f == CHOOSE f \in Fields : f # query[k].kind IN
    /\ query[k].at = "committed"
    /\ query' = [query EXCEPT ![k].at = "answered", ![k].answer = Reading(k, f)]
    /\ outdated' = outdated \ {<<k, f>>}
    /\ UNCHANGED <<stored, Serves>>

\* Refused, rolled back, or done and not heard of.
Fails(k) ==
    /\ query[k].at \in {"sent", "committed", "answered"} /\ failures < MaxFailures
    /\ query' = [query EXCEPT ![k].at = "failed"] /\ failures' = failures + 1
    /\ UNCHANGED <<stored, console, changes, outdated>>

Next ==
    \E k \in Consoles :
      \/ Opens(k) \/ Leaves(k) \/ Enable(k) \/ RequestDisable(k) \/ CancelDisable(k) \/ ConfirmDisable(k)
      \/ \E p \in Providers \cup {None} : UseProvider(k, p)
      \/ Answered(k) \/ Failed(k)
      \/ GetReadsGuardrail(k) \/ GetReadsOverride(k) \/ Commits(k) \/ ReadsOther(k) \/ Fails(k)

Spec == Init /\ [][Next]_adminVars

-----------------------------------------------------------------------------

TypeOK ==
    /\ stored \in Settings /\ console \in [Consoles -> Console]
    /\ \A k \in Consoles :
         /\ query[k].kind \in Fields \cup {"none", "load"}
         /\ query[k].at \in {"idle", "sent", "read", "committed", "answered", "failed"}
         /\ query[k].answer \in Settings \cup {None}
         /\ (query[k].kind = "none") = (query[k].at = "idle")
    /\ changes \in 0..MaxChanges /\ failures \in 0..MaxFailures /\ outdated \subseteq Consoles \X Fields

\* A settings page at rest that reports no error shows what the server keeps,
\* but for what another administrator wrote after its last answer was read.
SettingsAreStored ==
    \A k \in Consoles, f \in Fields :
        query[k] = NoQuery /\ ~console[k].error /\ console[k].settings # None
          => console[k].settings[f] = stored[f] \/ <<k, f>> \in outdated
=============================================================================
