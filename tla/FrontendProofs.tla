--------------------------- MODULE FrontendProofs ---------------------------
(***************************************************************************)
(* Proofs about the parts of Frontend, for every value of its constants.   *)
(***************************************************************************)
EXTENDS Frontend, FiniteSetTheorems, WellFoundedInduction, TLAPS

-----------------------------------------------------------------------------
(* The device key.  The part's variables, by their names in DeviceProof.   *)

slot == v1
tab == v2
bound == v3
apart == v7
Tabs == Procs

TabTypeOK ==
    /\ slot \in Nat /\ bound \in Nat /\ v4 \in Nat
    /\ tab \in [Tabs -> [at : {"none", "loading", "saving", "ready"}, key : Nat]]

\* As long as no excuse holds, one tab at most has a key it has not stored,
\* and only while none is stored; all other keys are the stored one.
OneKey ==
    apart = {} =>
      /\ \A t \in Tabs : tab[t].at = "saving" => slot = 0 /\ tab[t].key # 0
      /\ \A t, u \in Tabs : tab[t].at = "saving" /\ tab[u].at = "saving" => t = u
      /\ \A t \in Tabs : DP!Has(t) => slot # 0 /\ tab[t].key = slot
      /\ bound # 0 => bound = slot

DeviceInv == TabTypeOK /\ OneKey

LEMMA DeviceInit == DP!Init => DeviceInv
BY DEF DP!Init, DeviceInv, TabTypeOK, OneKey, DP!Has, DP!NoPromise, slot, tab, bound, apart, Tabs

LEMMA DeviceStep == DeviceInv /\ [DP!Next]_DP!proofVars => DeviceInv'
<1> SUFFICES ASSUME DeviceInv, [DP!Next]_DP!proofVars PROVE DeviceInv'
    OBVIOUS
<1> USE DEF DeviceInv, TabTypeOK, OneKey, DP!Has, slot, tab, bound, apart, Tabs
<1>1. ASSUME NEW t \in Tabs, DP!Starts(t) PROVE DeviceInv'
    BY <1>1 DEF DP!Starts
<1>2. ASSUME NEW t \in Tabs, DP!Finds(t) PROVE DeviceInv'
    BY <1>2 DEF DP!Finds, DP!Reuses
<1>3. ASSUME NEW t \in Tabs, DP!FindsNone(t) PROVE DeviceInv'
  <2>1. /\ slot = 0 /\ tab' = [tab EXCEPT ![t] = [at |-> "saving", key |-> v4 + 1]]
        /\ v4' = v4 + 1 /\ UNCHANGED <<slot, bound>>
    BY <1>3 DEF DP!FindsNone, DP!Reuses, DP!Generates
  <2>2. apart' = {} => apart = {} /\ \A u \in Tabs : tab[u].at = "saving" => u = t
    BY <1>3 DEF DP!FindsNone, DP!Because, DP!OthersGenerate
  <2>3. TabTypeOK'
    BY <2>1
  <2> QED
    BY <2>1, <2>2, <2>3
<1>4. ASSUME NEW t \in Tabs, DP!Unreadable(t) PROVE DeviceInv'
    BY <1>4 DEF DP!Unreadable, DP!Generates, DP!Because
<1>5. ASSUME NEW t \in Tabs, DP!Saves(t) PROVE DeviceInv'
    BY <1>5 DEF DP!Saves
<1>6. ASSUME NEW t \in Tabs, DP!Unsaved(t) PROVE DeviceInv'
    BY <1>6 DEF DP!Unsaved, DP!Because
<1>7. ASSUME NEW t \in Tabs, DP!LogsIn(t) PROVE DeviceInv'
    BY <1>7 DEF DP!LogsIn
<1>8. ASSUME NEW t \in Tabs, DP!LogsOut(t) PROVE DeviceInv'
    BY <1>8 DEF DP!LogsOut
<1>9. ASSUME NEW t \in Tabs, DP!Reloads(t) PROVE DeviceInv'
    BY <1>9 DEF DP!Reloads, DP!NoPromise
<1>10. CASE DP!Clears
    BY <1>10 DEF DP!Clears, DP!Because
<1>11. CASE UNCHANGED DP!proofVars
    BY <1>11 DEF DP!proofVars
<1> QED
    BY <1>1, <1>2, <1>3, <1>4, <1>5, <1>6, <1>7, <1>8, <1>9, <1>10, <1>11 DEF DP!Next

\* DeviceProof: a tab that has a key, or will read one, can use the session.
THEOREM DeviceKeyFits == DP!Spec => []DP!KeyFits
<1>1. DeviceInv => DP!KeyFits
    BY DEF DeviceInv, OneKey, DP!KeyFits, DP!Has, slot, tab, bound, apart, Tabs
<1> QED
    BY DeviceInit, DeviceStep, <1>1, PTL DEF DP!Spec

-----------------------------------------------------------------------------
(* The administrators' settings, by the names of AdminConsole.             *)

stored == v1
console == v2
query == v3
outdated == v6
Consoles == Procs

\* What s shows of field f is kept, or another console wrote it since.
Current(k, s, f) == s[f] = stored[f] \/ <<k, f>> \in outdated

Query == [kind : AC!Fields \cup {"none", "load"},
          at : {"idle", "sent", "read", "committed", "answered", "failed"},
          value : BOOLEAN \cup AC!Providers \cup {None}, answer : AC!Settings \cup {None}]
AdminTypeOK ==
    /\ stored \in AC!Settings /\ console \in [Consoles -> AC!Console]
    /\ query \in [Consoles -> Query]

\* Field by field, an answer is current from the moment it was read, and the
\* page is when it waits for nothing.
AnswerOK(k) ==
      /\ query[k].at \in {"read", "committed", "answered"} => query[k].answer \in AC!Settings
      /\ query[k].at = "read" => Current(k, query[k].answer, "guardrail")
      /\ query[k].at = "committed" => /\ query[k].kind \in AC!Fields
                                     /\ Current(k, query[k].answer, query[k].kind)
      /\ query[k].at = "answered" => \A f \in AC!Fields : Current(k, query[k].answer, f)
      /\ query[k].kind = "guardrail" => query[k].value \in BOOLEAN
      /\ query[k].kind = "provider" => query[k].value \in AC!Providers \cup {None}
AnswersAreCurrent == \A k \in Consoles : AnswerOK(k)

AdminInv == AdminTypeOK /\ AnswersAreCurrent /\ AC!SettingsAreStored

LEMMA AdminInit == AC!Init => AdminInv
<1> SUFFICES ASSUME AC!Init PROVE AdminInv
    OBVIOUS
<1> USE DEF stored, console, query, outdated, Consoles
<1> DEFINE first == [AC!NoQuery EXCEPT !.kind = "load", !.at = "sent"]
<1>1. first \in Query /\ first.kind = "load" /\ first.at = "sent"
    BY DEF AC!NoQuery, Query
<1>2. query = [k \in Consoles |-> first]
    BY DEF AC!Init
<1>3. AdminTypeOK
  <2>1. console \in [Consoles -> AC!Console]
    BY DEF AC!Init, AC!Console
  <2>2. stored \in AC!Settings
    BY DEF AC!Init
  <2> QED
    BY <1>1, <1>2, <2>1, <2>2 DEF AdminTypeOK
<1>4. AnswersAreCurrent
  <2> HIDE DEF first
  <2> QED
    BY <1>1, <1>2 DEF AnswersAreCurrent, AnswerOK
<1>5. AC!SettingsAreStored
    BY DEF AC!Init, AC!SettingsAreStored
<1> QED
    BY <1>3, <1>4, <1>5 DEF AdminInv

\* A step of the page changes neither the rows nor what is outdated.
LEMMA PageKeeps ==
    ASSUME AdminInv, AdminTypeOK', UNCHANGED <<stored, outdated>>, NEW k \in Consoles,
           \A j \in Consoles \ {k} : query'[j] = query[j] /\ console'[j] = console[j],
           query'[k] = query[k] \/ query'[k].at \in {"idle", "sent", "failed"},
           query'[k].kind = "guardrail" => query'[k].value \in BOOLEAN,
           query'[k].kind = "provider" => query'[k].value \in AC!Providers \cup {None},
           query'[k] = AC!NoQuery /\ ~console'[k].error /\ console'[k].settings # None
             => \A f \in AC!Fields : Current(k, console'[k].settings, f)
    PROVE  AdminInv'
<1> USE DEF AdminInv, stored, console, query, outdated, Consoles
<1>1. AnswersAreCurrent'
  <2> SUFFICES ASSUME NEW j \in Consoles PROVE AnswerOK(j)'
    BY DEF AnswersAreCurrent
  <2>1. CASE query'[j] = query[j]
    BY <2>1 DEF AnswersAreCurrent, AnswerOK, Current
  <2>2. CASE j = k /\ query'[k].at \in {"idle", "sent", "failed"}
    BY <2>2 DEF AnswerOK
  <2> QED
    BY <2>1, <2>2
<1>2. AC!SettingsAreStored'
  <2> SUFFICES ASSUME NEW j \in Consoles, NEW f \in AC!Fields, query'[j] = AC!NoQuery,
                      ~console'[j].error, console'[j].settings # None
               PROVE  console'[j].settings[f] = stored'[f] \/ <<j, f>> \in outdated'
    BY DEF AC!SettingsAreStored, AC!NoQuery
  <2>1. CASE j = k
    BY <2>1 DEF Current
  <2>2. CASE j # k
    BY <2>2 DEF AC!SettingsAreStored
  <2> QED
    BY <2>1, <2>2
<1> QED
    BY <1>1, <1>2

\* A read of field f by the server: what is answered for f is current again.
LEMMA ReadKeeps ==
    ASSUME AdminInv, NEW k \in Consoles, NEW f \in AC!Fields, UNCHANGED <<stored, console>>,
           outdated' = outdated \ {<<k, f>>},
           NEW q \in Query, query' = [query EXCEPT ![k] = q], q.at # "idle", q.kind = query[k].kind,
           q.value = query[k].value, AnswerOK(k)'
    PROVE  AdminInv'
<1> USE DEF AdminInv, stored, console, query, outdated, Consoles
<1>1. AdminTypeOK'
    BY DEF AdminTypeOK
<1>2. query'[k] = q /\ \A j \in Consoles \ {k} : query'[j] = query[j]
    BY DEF AdminTypeOK
<1>3. \A s, g : \A j \in Consoles \ {k} : Current(j, s, g) => Current(j, s, g)'
    BY DEF Current
<1>4. AnswersAreCurrent'
  <2> SUFFICES ASSUME NEW j \in Consoles \ {k} PROVE AnswerOK(j)'
    BY DEF AnswersAreCurrent
  <2> QED
    BY <1>2, <1>3 DEF AnswersAreCurrent, AnswerOK
<1>5. AC!SettingsAreStored'
  <2> SUFFICES ASSUME NEW j \in Consoles, NEW g \in AC!Fields, query'[j] = AC!NoQuery,
                      ~console'[j].error, console'[j].settings # None
               PROVE  console'[j].settings[g] = stored'[g] \/ <<j, g>> \in outdated'
    BY DEF AC!SettingsAreStored, AC!NoQuery
  <2>1. j # k
    BY <1>2 DEF AC!NoQuery
  <2> QED
    BY <2>1, <1>2 DEF AC!SettingsAreStored
<1> QED
    BY <1>1, <1>4, <1>5

LEMMA AdminStep == AdminInv /\ [AC!Next]_AC!adminVars => AdminInv'
<1> SUFFICES ASSUME AdminInv, [AC!Next]_AC!adminVars PROVE AdminInv'
    OBVIOUS
<1> USE DEF stored, console, query, outdated, Consoles
<1>t. AdminTypeOK /\ AnswersAreCurrent /\ AC!SettingsAreStored
    BY DEF AdminInv
<1>1. ASSUME NEW k \in Consoles, AC!Opens(k) \/ AC!Leaves(k) \/ AC!RequestDisable(k) \/ AC!CancelDisable(k)
      PROVE  AdminInv'
  <2>1. UNCHANGED <<stored, outdated, query>>
    BY <1>1 DEF AC!Opens, AC!Leaves, AC!RequestDisable, AC!CancelDisable, AC!Page
  <2>2. /\ console' \in [Consoles -> AC!Console]
        /\ \A j \in Consoles \ {k} : console'[j] = console[j]
        /\ console'[k].error = console[k].error /\ console'[k].settings = console[k].settings
    <3>1. CASE AC!Opens(k)
      BY <3>1, <1>t DEF AC!Opens, AdminTypeOK, AC!Console
    <3>2. CASE AC!Leaves(k)
      BY <3>2, <1>t DEF AC!Leaves, AdminTypeOK, AC!Console
    <3>3. CASE AC!RequestDisable(k)
      BY <3>3, <1>t DEF AC!RequestDisable, AdminTypeOK, AC!Console
    <3>4. CASE AC!CancelDisable(k)
      BY <3>4, <1>t DEF AC!CancelDisable, AdminTypeOK, AC!Console
    <3> QED
      BY <1>1, <3>1, <3>2, <3>3, <3>4
  <2>3. \A f \in AC!Fields :
           query'[k] = AC!NoQuery /\ ~console'[k].error /\ console'[k].settings # None
             => Current(k, console'[k].settings, f)
    BY <1>t, <2>1, <2>2 DEF AC!SettingsAreStored, Current
  <2> QED
    BY <1>t, <2>1, <2>2, <2>3, PageKeeps DEF AdminTypeOK, AnswersAreCurrent, AnswerOK
<1>2. ASSUME NEW k \in Consoles, NEW field \in AC!Fields, NEW value, AC!Change(k, field, value),
             field = "guardrail" => value \in BOOLEAN,
             field = "provider" => value \in AC!Providers \cup {None},
             console' \in [Consoles -> AC!Console], \A j \in Consoles \ {k} : console'[j] = console[j]
      PROVE  AdminInv'
  <2> DEFINE q == [kind |-> field, at |-> "sent", value |-> value, answer |-> None]
  <2>1. q \in Query
    BY <1>2 DEF AC!Fields, Query
  <2>2. query' = [query EXCEPT ![k] = q] /\ UNCHANGED <<stored, outdated>>
    BY <1>2 DEF AC!Change, AC!Page
  <2>3. query'[k] = q /\ \A j \in Consoles \ {k} : query'[j] = query[j]
    BY <2>2, <1>t DEF AdminTypeOK
  <2>4. query'[k].at = "sent" /\ query'[k] # AC!NoQuery
    BY <2>3 DEF AC!NoQuery
  <2>5. AdminTypeOK'
    BY <1>2, <2>1, <2>2, <1>t DEF AdminTypeOK
  <2> QED
    BY <2>2, <2>3, <2>4, <2>5, <1>2, PageKeeps
<1>3. ASSUME NEW k \in Consoles, AC!Enable(k) PROVE AdminInv'
  <2>1. /\ console' \in [Consoles -> AC!Console] /\ \A j \in Consoles \ {k} : console'[j] = console[j]
        /\ AC!Change(k, "guardrail", TRUE)
    BY <1>3, <1>t DEF AC!Enable, AdminTypeOK, AC!Console
  <2> QED
    BY <2>1, <1>2 DEF AC!Fields
<1>4. ASSUME NEW k \in Consoles, AC!ConfirmDisable(k) PROVE AdminInv'
  <2>1. /\ console' \in [Consoles -> AC!Console] /\ \A j \in Consoles \ {k} : console'[j] = console[j]
        /\ AC!Change(k, "guardrail", FALSE)
    BY <1>4, <1>t DEF AC!ConfirmDisable, AdminTypeOK, AC!Console
  <2> QED
    BY <2>1, <1>2 DEF AC!Fields
<1>5. ASSUME NEW k \in Consoles, NEW p \in AC!Providers \cup {None}, AC!UseProvider(k, p) PROVE AdminInv'
  <2>1. /\ console' \in [Consoles -> AC!Console] /\ \A j \in Consoles \ {k} : console'[j] = console[j]
        /\ AC!Change(k, "provider", p)
    BY <1>5, <1>t DEF AC!UseProvider, AdminTypeOK, AC!Console
  <2> QED
    BY <2>1, <1>2 DEF AC!Fields
<1>6. ASSUME NEW k \in Consoles, AC!Answered(k) PROVE AdminInv'
  <2>1. /\ query' = [query EXCEPT ![k] = AC!NoQuery] /\ UNCHANGED <<stored, outdated>>
        /\ console' = [console EXCEPT ![k].settings = query[k].answer, ![k].error = FALSE]
        /\ query[k].at = "answered"
    BY <1>6 DEF AC!Answered, AC!Page, AC!Latest
  <2>2. query[k].answer \in AC!Settings /\ \A f \in AC!Fields : Current(k, query[k].answer, f)
    BY <2>1, <1>t DEF AnswersAreCurrent, AnswerOK
  <2>3. AC!NoQuery \in Query /\ AC!NoQuery.at = "idle" /\ AC!NoQuery.kind = "none"
    BY DEF AC!NoQuery, Query
  <2>4. /\ query'[k] = AC!NoQuery /\ console'[k].settings = query[k].answer
        /\ \A j \in Consoles \ {k} : query'[j] = query[j] /\ console'[j] = console[j]
    BY <2>1, <1>t DEF AdminTypeOK, AC!Console
  <2>5. AdminTypeOK'
    BY <2>1, <2>2, <2>3, <1>t DEF AdminTypeOK, AC!Console
  <2> QED
    BY <2>1, <2>2, <2>3, <2>4, <2>5, PageKeeps
<1>7. ASSUME NEW k \in Consoles, AC!Failed(k) PROVE AdminInv'
  <2>1. /\ query' = [query EXCEPT ![k] = AC!NoQuery] /\ UNCHANGED <<stored, outdated>>
    BY <1>7 DEF AC!Failed, AC!Page
  <2>2. /\ console' \in [Consoles -> AC!Console] /\ console'[k].error
        /\ \A j \in Consoles \ {k} : console'[j] = console[j]
    BY <1>7, <1>t DEF AC!Failed, AdminTypeOK, AC!Console
  <2>3. AC!NoQuery \in Query /\ AC!NoQuery.at = "idle" /\ AC!NoQuery.kind = "none"
    BY DEF AC!NoQuery, Query
  <2>4. query'[k] = AC!NoQuery /\ \A j \in Consoles \ {k} : query'[j] = query[j]
    BY <2>1, <1>t DEF AdminTypeOK
  <2>5. AdminTypeOK'
    BY <2>1, <2>2, <2>3, <1>t DEF AdminTypeOK
  <2> QED
    BY <2>1, <2>2, <2>3, <2>4, <2>5, PageKeeps
<1>8. ASSUME NEW k \in Consoles, AC!GetReadsGuardrail(k) PROVE AdminInv'
  <2> DEFINE q == [query[k] EXCEPT !.at = "read", !.answer = stored]
  <2>1. /\ query' = [query EXCEPT ![k] = q] /\ UNCHANGED <<stored, console>>
        /\ outdated' = outdated \ {<<k, "guardrail">>} /\ query[k].kind = "load"
    BY <1>8 DEF AC!GetReadsGuardrail, AC!Serves
  <2>2. /\ q \in Query /\ q.at = "read" /\ q.answer = stored
        /\ q.kind = query[k].kind /\ q.value = query[k].value
    BY <1>t DEF AdminTypeOK, Query
  <2> HIDE DEF q
  <2>3. query'[k] = q
    BY <2>1, <1>t DEF AdminTypeOK
  <2>4. AnswerOK(k)'
    BY <2>1, <2>2, <2>3, <1>t DEF AnswerOK, Current, AdminTypeOK
  <2> QED
    BY <2>1, <2>2, <2>4, ReadKeeps DEF AC!Fields
<1>9. ASSUME NEW k \in Consoles, AC!GetReadsOverride(k) PROVE AdminInv'
  <2> DEFINE q == [query[k] EXCEPT !.at = "answered", !.answer = AC!Reading(k, "provider")]
  <2>1. /\ query' = [query EXCEPT ![k] = q] /\ UNCHANGED <<stored, console>>
        /\ outdated' = outdated \ {<<k, "provider">>} /\ query[k].kind = "load" /\ query[k].at = "read"
    BY <1>9 DEF AC!GetReadsOverride, AC!Serves
  <2>2. query[k].answer \in AC!Settings /\ Current(k, query[k].answer, "guardrail")
    BY <2>1, <1>t DEF AnswersAreCurrent, AnswerOK
  <2>3. /\ AC!Reading(k, "provider") \in AC!Settings
        /\ AC!Reading(k, "provider").provider = stored.provider
        /\ AC!Reading(k, "provider").guardrail = query[k].answer.guardrail
    BY <2>2, <1>t DEF AC!Reading, AdminTypeOK, AC!Settings
  <2>4. /\ q \in Query /\ q.at = "answered" /\ q.answer = AC!Reading(k, "provider")
        /\ q.kind = query[k].kind /\ q.value = query[k].value
    BY <1>t, <2>3 DEF AdminTypeOK, Query
  <2> HIDE DEF q
  <2>5. query'[k] = q
    BY <2>1, <1>t DEF AdminTypeOK
  <2>6. AnswerOK(k)'
    BY <2>1, <2>2, <2>3, <2>4, <2>5, <1>t DEF AnswerOK, Current, AdminTypeOK, AC!Fields
  <2> QED
    BY <2>1, <2>4, <2>6, ReadKeeps DEF AC!Fields
<1>10. ASSUME NEW k \in Consoles, AC!ReadsOther(k) PROVE AdminInv'
  <2> DEFINE f == CHOOSE f \in AC!Fields : f # query[k].kind
  <2>0. /\ query' = [query EXCEPT ![k].at = "answered", ![k].answer = AC!Reading(k, f)]
        /\ UNCHANGED <<stored, console>> /\ outdated' = outdated \ {<<k, f>>}
        /\ query[k].at = "committed"
    BY <1>10, Zenon DEF AC!ReadsOther, AC!Serves
  <2> DEFINE q == [query[k] EXCEPT !.at = "answered", !.answer = AC!Reading(k, f)]
  <2>1. /\ query' = [query EXCEPT ![k] = q] /\ UNCHANGED <<stored, console>>
        /\ outdated' = outdated \ {<<k, f>>} /\ query[k].at = "committed"
    <3> HIDE DEF f
    <3> QED
      BY <2>0
  <2>2. /\ query[k].answer \in AC!Settings /\ query[k].kind \in AC!Fields
        /\ Current(k, query[k].answer, query[k].kind)
    BY <2>1, <1>t DEF AnswersAreCurrent, AnswerOK
  <2>3. f \in AC!Fields /\ f # query[k].kind /\ AC!Fields = {f, query[k].kind}
    BY <2>2 DEF AC!Fields
  <2> HIDE DEF f
  <2>4. /\ AC!Reading(k, f) \in AC!Settings
        /\ AC!Reading(k, f)[f] = stored[f]
        /\ AC!Reading(k, f)[query[k].kind] = query[k].answer[query[k].kind]
    BY <2>2, <2>3, <1>t DEF AC!Reading, AdminTypeOK, AC!Settings, AC!Fields
  <2>5. /\ q \in Query /\ q.at = "answered" /\ q.answer = AC!Reading(k, f)
        /\ q.kind = query[k].kind /\ q.value = query[k].value
    BY <1>t, <2>4 DEF AdminTypeOK, Query
  <2> HIDE DEF q
  <2>6. query'[k] = q
    BY <2>1, <1>t DEF AdminTypeOK
  <2>7. \A g \in AC!Fields : Current(k, query[k].answer, g)'
    BY <2>1, <2>2, <2>3, <2>4, <2>5, <2>6 DEF Current
  <2>8. AnswerOK(k)'
    BY <2>4, <2>5, <2>6, <2>7, <1>t DEF AnswerOK, AnswersAreCurrent
  <2> QED
    BY <2>1, <2>3, <2>5, <2>8, ReadKeeps
<1>11. ASSUME NEW k \in Consoles, AC!Commits(k) PROVE AdminInv'
  <2> DEFINE kind == query[k].kind
             value == query[k].value
             new == [stored EXCEPT ![kind] = value]
             q == [query[k] EXCEPT !.at = "committed", !.answer = new]
  <2>1. /\ query' = [query EXCEPT ![k] = q] /\ stored' = new /\ UNCHANGED console
        /\ kind \in AC!Fields
        /\ outdated' = (outdated \ {<<k, kind>>}) \cup {<<j, kind>> : j \in Consoles \ {k}}
    BY <1>11 DEF AC!Commits, AC!Serves, AC!Busy
  <2>2. /\ kind = "guardrail" => value \in BOOLEAN
        /\ kind = "provider" => value \in AC!Providers \cup {None}
    BY <1>t DEF AnswersAreCurrent, AnswerOK
  <2>3. /\ new \in AC!Settings
        /\ \A g \in AC!Fields : g # kind => new[g] = stored[g]
    BY <2>1, <2>2, <1>t DEF AC!Settings, AC!Fields, AdminTypeOK
  <2> HIDE DEF new
  <2>4. /\ q \in Query /\ q.at = "committed" /\ q.answer = new /\ q.kind = kind /\ q.value = value
    BY <1>t, <2>3 DEF AdminTypeOK, Query
  <2> HIDE DEF q
  <2>5. query'[k] = q /\ \A j \in Consoles \ {k} : query'[j] = query[j]
    BY <2>1, <1>t DEF AdminTypeOK
  <2>6. AdminTypeOK'
    BY <2>1, <2>3, <2>4, <1>t DEF AdminTypeOK
  <2>7. \A s : \A j \in Consoles \ {k}, g \in AC!Fields : Current(j, s, g) => Current(j, s, g)'
    BY <2>1, <2>3 DEF Current
  <2>8. AnswersAreCurrent'
    <3>1. AnswerOK(k)'
      BY <2>1, <2>2, <2>3, <2>4, <2>5 DEF AnswerOK, Current
    <3>2. ASSUME NEW j \in Consoles \ {k} PROVE AnswerOK(j)'
      <4>1. AnswerOK(j) /\ query'[j] = query[j]
        BY <2>5, <1>t DEF AnswersAreCurrent
      <4> QED
        BY <4>1, <2>7 DEF AnswerOK, AC!Fields
    <3> QED
      BY <3>1, <3>2 DEF AnswersAreCurrent
  <2>9. AC!SettingsAreStored'
    <3> SUFFICES ASSUME NEW j \in Consoles, NEW g \in AC!Fields, query'[j] = AC!NoQuery,
                        ~console'[j].error, console'[j].settings # None
                 PROVE  Current(j, console[j].settings, g)'
      BY <2>1 DEF AC!SettingsAreStored, AC!NoQuery, Current
    <3>1. j # k
      BY <2>4, <2>5 DEF AC!NoQuery
    <3>2. Current(j, console[j].settings, g)
      BY <3>1, <2>1, <2>5, <1>t DEF AC!SettingsAreStored, Current
    <3> QED
      BY <3>1, <3>2, <2>1, <2>7
  <2> QED
    BY <2>6, <2>8, <2>9 DEF AdminInv
<1>12. ASSUME NEW k \in Consoles, AC!Fails(k) PROVE AdminInv'
  <2> DEFINE q == [query[k] EXCEPT !.at = "failed"]
  <2>1. query' = [query EXCEPT ![k] = q] /\ UNCHANGED <<stored, console, outdated>>
    BY <1>12 DEF AC!Fails
  <2>2. q \in Query /\ q.at = "failed" /\ q.kind = query[k].kind /\ q.value = query[k].value
    BY <1>t DEF AdminTypeOK, Query
  <2> HIDE DEF q
  <2>3. query'[k] = q /\ \A j \in Consoles \ {k} : query'[j] = query[j]
    BY <2>1, <1>t DEF AdminTypeOK
  <2>4. AdminTypeOK'
    BY <2>1, <2>2, <1>t DEF AdminTypeOK
  <2>5. query'[k].at = "failed" /\ query'[k] # AC!NoQuery
    BY <2>2, <2>3 DEF AC!NoQuery
  <2>6. /\ query'[k].kind = "guardrail" => query'[k].value \in BOOLEAN
        /\ query'[k].kind = "provider" => query'[k].value \in AC!Providers \cup {None}
    BY <2>2, <2>3, <1>t DEF AnswersAreCurrent, AnswerOK
  <2> QED
    BY <2>1, <2>3, <2>4, <2>5, <2>6, PageKeeps
<1>13. CASE UNCHANGED AC!adminVars
  BY <1>13, <1>t DEF AC!adminVars, AdminInv, AdminTypeOK, AnswersAreCurrent, AnswerOK, Current,
                     AC!SettingsAreStored
<1> QED
    BY <1>1, <1>3, <1>4, <1>5, <1>6, <1>7, <1>8, <1>9, <1>10, <1>11, <1>12, <1>13 DEF AC!Next

\* AdminConsole: the settings a page shows are those the server keeps, but
\* for what another administrator wrote since.
THEOREM SettingsShownAreStored == Spec => []SettingsAreStored
<1> DEFINE I == part = "admin" => AdminInv
<1>1. Init => I
    BY AdminInit DEF Init
<1>2. I /\ [Next]_vars => I'
    BY AdminStep DEF Next, vars, AC!adminVars
<1>3. I => SettingsAreStored
    BY DEF AdminInv, SettingsAreStored
<1> QED
    BY <1>1, <1>2, <1>3, PTL DEF Spec

-----------------------------------------------------------------------------
(***************************************************************************)
(* The pages of a browser, for any pages, users, jobs and bounds: the      *)
(* cookie keeps up with the server, only a lost answer or two pages at     *)
(* once make a replay, and "signed out" is true.                           *)
(***************************************************************************)

\* The part's variables, by their names in BrowserSession.
clock == v1      \* now
users == v2      \* active
family == v3
token == v4
req == v5
jar == v6
page == v7
flow == v8
call == v9
excused == v10
faults == v11

-----------------------------------------------------------------------------
(* The invariant. *)

\* Tokens and families as login and refresh make them: the clock stands still,
\* so none has expired, and there is one key.
Rows ==
    /\ clock = 0 /\ jar \in 0..Len(token)
    /\ family \in Seq(BS!Server!Family) /\ token \in Seq(BS!Server!Token)
    /\ \A f \in 1..Len(family) : family[f].key = DeviceKey /\ family[f].absolute > 0
    /\ \A t \in 1..Len(token) : token[t].family \in 1..Len(family) /\ token[t].expires > 0

Alive(t) == family[token[t].family].revoked = "no"

Fine(k) ==
    /\ k \in BS!Call /\ k.cookie <= Len(token) /\ k.sets <= Len(token)
    /\ k.ok = TRUE => k.phase = "answered" /\ (k.kind = "refresh" => k.sets # 0)
    /\ k.phase = "proving" => k.page \in Pages /\ k.cookie = 0
    /\ k.kind = "login" => k.user \in Users

\* The handler r of a call that is served.
Serves(k, r) ==
    /\ k.phase = "serving" /\ k.kind = "refresh" =>
          /\ r.pc \in {"waiting", "rotating"} /\ r.token = k.cookie /\ r.token # 0
          /\ r.key = DeviceKey /\ r.at = 0
    /\ k.phase = "serving" /\ k.kind = "login" =>
          r.user \in Users /\ r.key = DeviceKey /\ r.at = 0

PageFields == {"state", "shown", "access", "user", "ready", "promise"}
Shapes ==
    /\ DOMAIN call = BS!Calls /\ \A c \in BS!Calls : Fine(call[c])
    /\ DOMAIN req = BS!Calls /\ \A c \in BS!Calls : Serves(call[c], req[c])
    /\ DOMAIN page = Pages /\ \A p \in Pages : DOMAIN page[p] = PageFields

\* A page has one refresh under way, the one behind its promise.
Promised ==
    \A c \in BS!Calls :
        call[c].kind = "refresh" /\ call[c].phase # "free" /\ call[c].page \in Pages =>
            page[call[c].page].promise = c

\* A token on its way to the browser is unused and nowhere else.
FreshFor(c, t) ==
    /\ token[t].used = FALSE /\ t # jar
    /\ \A d \in BS!Calls : call[d].cookie # t /\ (d # c /\ call[d].ok = TRUE => call[d].sets # t)
Fresh == \A c \in BS!Calls : call[c].ok = TRUE /\ call[c].sets # 0 => FreshFor(c, call[c].sets)

\* Two refreshes that carry one token, and a refresh that carries a token
\* rotated before, have an excuse.
Brings(k, t) ==
    k.kind = "refresh" /\ k.phase \in {"sent", "serving", "answered"} /\ k.cookie = t /\ t # 0
OneBrings ==
    \A c, d \in BS!Calls, t \in 1..Len(token) :
        c # d /\ Brings(call[c], t) /\ Brings(call[d], t) => excused = TRUE
NoneIsStale ==
    \A c \in BS!Calls, t \in 1..Len(token) :
        Brings(call[c], t) /\ call[c].phase # "answered" /\ token[t].used = TRUE /\ Alive(t) => excused = TRUE

\* The answer that replaces a rotated token is on its way.
Replaces(k) == k.kind = "refresh" /\ k.phase = "answered" /\ k.ok = TRUE /\ k.cookie = jar
JarReplaced ==
    jar # 0 /\ token[jar].used = TRUE /\ Alive(jar) /\ excused = FALSE => \E c \in BS!Calls : Replaces(call[c])

EndsFamily(k) ==
    k.kind = "logout" /\ k.phase = "answered" /\ k.ok = TRUE /\ k.cookie # 0 => ~Alive(k.cookie)
LogoutsEnd == \A c \in BS!Calls : EndsFamily(call[c])

ReplaysExcused ==
    \A f \in 1..Len(family) : family[f].revoked = "refresh_reuse" => excused = TRUE

BrowserInv ==
    /\ Rows /\ Shapes /\ excused \in BOOLEAN
    /\ Promised /\ Fresh /\ OneBrings /\ NoneIsStale /\ JarReplaced /\ LogoutsEnd /\ ReplaysExcused

-----------------------------------------------------------------------------
LEMMA Least == ASSUME NEW S \in SUBSET Nat, S # {} PROVE \E c \in S : \A d \in S : c <= d
<1> DEFINE Less == {ss \in Nat \X Nat : ss[1] < ss[2]}
<1>1. IsWellFoundedOn(OpToRel(<, Nat), Nat)
    BY NatLessThanWellFounded
<1>2. OpToRel(<, Nat) = Less
    BY DEF OpToRel
<1>3. PICK c \in S : \A d \in S : <<d, c>> \notin Less
  <2> HIDE DEF Less
  <2> QED
    BY <1>1, <1>2, WFMin
<1>4. \A x, y \in Nat : x < y => <<x, y>> \in Less
    OBVIOUS
<1>5. ASSUME NEW d \in S PROVE c <= d
  <2>1. ~(d < c)
    BY <1>3, <1>4
  <2> QED
    BY <2>1
<1> QED
    BY <1>5

LEMMA Constants == /\ MaxCalls \in Nat /\ NotUsed \notin Pages /\ None \notin Users
                   /\ BS!Calls \subseteq Nat /\ 0 \notin BS!Calls
BY FrontendConstants DEF BS!BrowserConstants, BS!Calls

\* FreeCall is a free call if there is one.
LEMMA FreeCall ==
    ASSUME NEW c \in BS!Calls, BS!Free(c)
    PROVE  BS!FreeCall \in BS!Calls /\ call[BS!FreeCall].phase = "free"
<1> DEFINE S == {d \in BS!Calls : BS!Free(d)}
<1>1. S \in SUBSET Nat /\ S # {}
    BY Constants
<1>2. \E d \in S : \A e \in S : d <= e
  <2> HIDE DEF S
  <2> QED
    BY <1>1, Least
<1>3. \E d \in BS!Calls : BS!Free(d) /\ \A e \in BS!Calls : BS!Free(e) => d <= e
    BY <1>2
<1> QED
    BY <1>3 DEF BS!FreeCall, BS!Free, call

LEMMA NoCallFine == Rows => Fine(BS!NoCall) /\ BS!NoCall.phase = "free" /\ BS!NoCall.ok = FALSE
                            /\ BS!NoCall.cookie = 0 /\ BS!NoCall.sets = 0 /\ BS!NoCall.kind = "none"
<1> SUFFICES ASSUME Rows PROVE /\ Fine(BS!NoCall) /\ BS!NoCall.phase = "free" /\ BS!NoCall.ok = FALSE
                               /\ BS!NoCall.cookie = 0 /\ BS!NoCall.sets = 0 /\ BS!NoCall.kind = "none"
    OBVIOUS
<1>1. Len(token) \in Nat
    BY DEF Rows
<1> QED
    BY <1>1 DEF BS!NoCall, Fine, BS!Call

LEMMA BrowserInit == BS!Init => BrowserInv
<1> SUFFICES ASSUME BS!Init PROVE BrowserInv
    OBVIOUS
<1> USE DEF clock, users, family, token, req, jar, page, flow, call, excused, faults
<1>1. /\ clock = 0 /\ family = <<>> /\ token = <<>> /\ jar = 0 /\ excused = FALSE
      /\ DOMAIN req = BS!Calls
      /\ page = [p \in Pages |-> BS!NewPage] /\ call = [c \in BS!Calls |-> BS!NoCall]
    BY DEF BS!Init, BS!Server!Init
<1>2. Rows
    BY <1>1 DEF Rows
<1>3. \A c \in BS!Calls : call[c] = BS!NoCall
    BY <1>1
<1>4. Shapes
  <2>1. DOMAIN BS!NewPage = PageFields
    BY DEF BS!NewPage, PageFields
  <2> QED
    BY <1>1, <1>2, <1>3, <2>1, NoCallFine DEF Shapes, Serves
<1>5. /\ Promised /\ Fresh /\ OneBrings /\ NoneIsStale /\ JarReplaced /\ LogoutsEnd /\ ReplaysExcused
    BY <1>1, <1>2, <1>3, NoCallFine DEF Promised, Fresh, OneBrings, NoneIsStale, JarReplaced, Brings,
       LogoutsEnd, EndsFamily, ReplaysExcused
<1> QED
    BY <1>1, <1>2, <1>4, <1>5 DEF BrowserInv

-----------------------------------------------------------------------------
(* A step that issues no token: at most one call c goes on, to n, some     *)
(* families may be revoked, and the cookie may be replaced.                *)

RowsKeep ==
    /\ token' = token /\ clock' = clock /\ family' \in Seq(BS!Server!Family) /\ Len(family') = Len(family)
    /\ \A f \in 1..Len(family) :
          /\ family'[f].key = family[f].key /\ family'[f].absolute = family[f].absolute
          /\ family'[f].revoked = "no" => family[f].revoked = "no"
          /\ family'[f].revoked = "refresh_reuse" =>
                family[f].revoked = "refresh_reuse" \/ excused' = TRUE

LEMMA Deaths ==
    ASSUME BrowserInv, RowsKeep, NEW t \in 1..Len(token), Alive(t)'
    PROVE  Alive(t)
BY DEF BrowserInv, Rows, RowsKeep, Alive

\* The logout k ends the family of its cookie by this step, if not before.
EndsNow(k) ==
    k.kind = "logout" /\ k.phase = "answered" /\ k.ok = TRUE /\ k.cookie # 0 =>
        family'[token'[k.cookie].family].revoked # "no"

LEMMA CallStep ==
    ASSUME BrowserInv, RowsKeep, excused' \in BOOLEAN, excused = TRUE => excused' = TRUE,
           NEW c \in BS!Calls, NEW n, Fine(n), call' = [call EXCEPT ![c] = n] \/ (call' = call /\ n = call[c]),
           DOMAIN req' = BS!Calls, Serves(n, req'[c]), \A d \in BS!Calls \ {c} : req'[d] = req[d],
           DOMAIN page' = Pages, \A p \in Pages : DOMAIN page'[p] = PageFields,
           \A d \in BS!Calls \ {c} :
              call[d].kind = "refresh" /\ call[d].phase # "free" /\ call[d].page \in Pages =>
                 page'[call[d].page].promise = d,
           n.kind = "refresh" /\ n.phase # "free" /\ n.page \in Pages => page'[n.page].promise = c,
           n.ok = TRUE /\ n.sets # 0 => call[c].ok = TRUE /\ n.sets = call[c].sets,
           n.cookie \in {0, jar, call[c].cookie},
           jar' \in {0, jar} \/ (jar' = call[c].sets /\ call[c].ok = TRUE /\ n = BS!NoCall),
           \A t \in 1..Len(token) :
              Brings(n, t) =>
                 \/ Brings(call[c], t)
                    /\ (n.phase # "answered" => call[c].phase # "answered")
                 \/ excused' = TRUE
                 \/ /\ \A d \in BS!Calls \ {c} : ~Brings(call[d], t)
                    /\ token[t].used = TRUE => ~Alive(t)',
           Replaces(call[c]) => n = call[c] \/ excused' = TRUE \/ jar' # jar,
           EndsNow(n)
    PROVE  BrowserInv'
<1> USE DEF clock, users, family, token, req, jar, page, flow, call, excused, faults
<1>1. /\ \A d \in BS!Calls : call'[d] = IF d = c THEN n ELSE call[d]
      /\ DOMAIN call' = BS!Calls
    BY DEF BrowserInv, Shapes
<1>2. Rows'
  <2>1. jar' \in 0..Len(token)
    BY DEF BrowserInv, Rows, Shapes, Fine, BS!Call
  <2> QED
    BY <2>1 DEF BrowserInv, Rows, RowsKeep
<1>3. Shapes'
  <2>1. \A d \in BS!Calls : Fine(call[d]) /\ Serves(call[d], req[d])
    BY DEF BrowserInv, Shapes
  <2>2. \A d \in BS!Calls : Fine(call[d])' /\ Serves(call[d], req[d])'
    BY <1>1, <2>1 DEF Fine, RowsKeep, Serves
  <2> QED
    BY <1>1, <2>2 DEF Shapes
<1>4. Promised'
    BY <1>1 DEF Promised
<1>5. Fresh'
  <2>1. SUFFICES ASSUME NEW d \in BS!Calls, call'[d].ok = TRUE, call'[d].sets # 0
                 PROVE  FreshFor(d, call[d].sets)'
    BY DEF Fresh
  <2> DEFINE t == call'[d].sets
  <2>2. call[d].ok = TRUE /\ t = call[d].sets
    BY <1>1, <2>1
  <2>3. FreshFor(d, t)
    BY <2>1, <2>2 DEF BrowserInv, Fresh
  <2>4. t # jar'
    <3>1. CASE jar' \in {0, jar}
      BY <2>1, <2>3, <3>1 DEF FreshFor
    <3>2. CASE jar' = call[c].sets /\ call[c].ok = TRUE /\ n = BS!NoCall
      <4>1. d # c
        BY <1>1, <1>2, <2>1, <3>2, NoCallFine DEF BrowserInv
      <4> QED
        BY <2>3, <3>2, <4>1 DEF FreshFor
    <3> QED
      BY <3>1, <3>2
  <2>5. ASSUME NEW e \in BS!Calls
        PROVE  call'[e].cookie # t /\ (e # d /\ call'[e].ok = TRUE => call'[e].sets # t)
    BY <1>1, <2>1, <2>3 DEF FreshFor
  <2>6. token'[t].used = FALSE
    BY <2>3 DEF FreshFor, RowsKeep
  <2> QED
    BY <2>4, <2>5, <2>6 DEF FreshFor
<1>6. OneBrings'
  <2>1. ASSUME NEW a \in BS!Calls, NEW d \in BS!Calls, NEW t \in 1..Len(token),
               a # d, Brings(call'[a], t), Brings(call'[d], t)
        PROVE  excused' = TRUE
    <3>1. \A b \in BS!Calls \ {c} : call'[b] = call[b]
      BY <1>1
    <3>2. Brings(call[a], t) /\ Brings(call[d], t) => excused = TRUE
      BY <2>1 DEF BrowserInv, OneBrings
    <3> QED
      BY <1>1, <2>1, <3>1, <3>2
  <2>2. token' = token
    BY DEF RowsKeep
  <2> QED
    BY ZenonT(40), <2>1, <2>2 DEF OneBrings
<1>7. NoneIsStale'
  <2>1. SUFFICES ASSUME NEW d \in BS!Calls, NEW t \in 1..Len(token), Brings(call'[d], t),
                        call'[d].phase # "answered", token[t].used = TRUE, Alive(t)'
                 PROVE  excused' = TRUE
    BY DEF NoneIsStale, RowsKeep, Brings
  <2>2. Alive(t)
    BY <2>1, Deaths
  <2>3. Brings(call[d], t) /\ call[d].phase # "answered" => excused = TRUE
    BY <2>1, <2>2 DEF BrowserInv, NoneIsStale
  <2> QED
    BY <1>1, <2>1, <2>3
<1>8. JarReplaced'
  <2>1. SUFFICES ASSUME jar' # 0, token[jar'].used = TRUE, Alive(jar)', excused' = FALSE
                 PROVE  \E d \in BS!Calls : Replaces(call[d])'
    BY DEF JarReplaced, RowsKeep, Alive
  <2>2. jar' = jar
    <3>1. CASE jar' = call[c].sets /\ call[c].ok = TRUE /\ n = BS!NoCall
      BY <2>1, <3>1 DEF BrowserInv, Fresh, FreshFor
    <3> QED
      BY <2>1, <3>1
  <2>3. Alive(jar)
    BY <1>2, <2>1, <2>2, Deaths DEF Rows, BrowserInv
  <2>4. excused = FALSE
    BY <2>1 DEF BrowserInv
  <2>5. PICK d \in BS!Calls : Replaces(call[d])
    BY <2>1, <2>2, <2>3, <2>4 DEF BrowserInv, JarReplaced
  <2> QED
    BY <1>1, <2>1, <2>2, <2>5 DEF Replaces
<1>ends. call'[c] = n /\ (n.kind = "logout" /\ n.phase = "answered" /\ n.ok = TRUE /\ n.cookie # 0
                            => ~(family'[token'[n.cookie].family].revoked = "no"))
    BY <1>1 DEF EndsNow
<1>9. LogoutsEnd'
  <2>1. ASSUME NEW d \in BS!Calls \ {c}, NEW t, t = call[d].cookie, call[d].kind = "logout",
               call[d].phase = "answered", call[d].ok = TRUE, call[d].cookie # 0
        PROVE  family'[token'[t].family].revoked # "no"
    <3>1. t \in 1..Len(token)
      BY <2>1 DEF BrowserInv, Rows, Shapes, Fine, BS!Call
    <3>2. ~Alive(t)
      BY <2>1 DEF BrowserInv, LogoutsEnd, EndsFamily
    <3>3. ~Alive(t)'
      BY <3>1, <3>2, Deaths
    <3> QED
      BY <3>3 DEF Alive
  <2>2. \A d \in BS!Calls \ {c} :
           call[d].kind = "logout" /\ call[d].phase = "answered" /\ call[d].ok = TRUE /\ call[d].cookie # 0 =>
              family'[token'[call[d].cookie].family].revoked # "no"
    BY <2>1
  <2> QED
    BY <1>1, <1>ends, <2>2 DEF LogoutsEnd, EndsFamily, Alive
<1>10. ReplaysExcused'
    BY DEF BrowserInv, ReplaysExcused, RowsKeep
<1> QED
    BY <1>2, <1>3, <1>4, <1>5, <1>6, <1>7, <1>8, <1>9, <1>10 DEF BrowserInv

-----------------------------------------------------------------------------
(* Steps of a page. *)

\* The page model n comes of m and keeps its promise.
Like(m, n) == DOMAIN n = PageFields /\ n.promise = m.promise

LEMMA Kept ==
    ASSUME NEW m, DOMAIN m = PageFields
    PROVE  /\ Like(m, m) /\ Like(m, BS!Shown(m)) /\ Like(m, BS!ClearSession(m)) /\ Like(m, BS!SessionEnded(m))
           /\ \A x : Like(m, [m EXCEPT !.state = x]) /\ Like(m, [m EXCEPT !.access = x])
           /\ \A x, y : Like(m, [m EXCEPT !.ready = x, !.state = y]) /\ Like(m, [m EXCEPT !.user = x, !.state = y])
BY DEF Like, PageFields, BS!Shown, BS!ClearSession, BS!SessionEnded

LEMMA KeptLong ==
    ASSUME NEW m, DOMAIN m = PageFields
    PROVE  /\ \A ok : Like(m, BS!Readiness(m, ok)) /\ Like(m, [BS!Readiness(m, ok) EXCEPT !.state = "checking"])
           /\ Like(m, BS!SetsAuthMode(m)) /\ \A f : Like(m, BS!GivesUp(f, m))
           /\ Like(m, BS!Shown([m EXCEPT !.state = "registered"]))
           /\ Like(m, BS!Shown([BS!ClearSession(m) EXCEPT !.state = "anonymous"]))
           /\ \A u : Like(m, BS!Shown([m EXCEPT !.user = u, !.state = "authenticated"]))
<1>1. \A k, n : Like(m, n) /\ Like(n, k) => Like(m, k)
    BY DEF Like
<1>2. \A n : Like(m, n) => DOMAIN n = PageFields
    BY DEF Like
<1>3. \A n : Like(m, n) => Like(m, BS!Shown(n)) /\ Like(m, BS!ClearSession(n)) /\ Like(m, BS!SessionEnded(n))
                           /\ \A x : Like(m, [n EXCEPT !.state = x])
    BY <1>1, <1>2, Kept
<1>4. \A ok : Like(m, BS!Readiness(m, ok))
    BY <1>3, Kept DEF BS!Readiness
<1>5. Like(m, BS!SetsAuthMode(m))
    BY <1>3, Kept DEF BS!SetsAuthMode
<1>6. ASSUME NEW f PROVE Like(m, BS!GivesUp(f, m))
  <2>1. Like(m, BS!Shown([BS!ClearSession(m) EXCEPT !.state = "anonymous"])) /\ Like(m, BS!Shown(m)) /\ Like(m, m)
        /\ Like(m, BS!Shown(BS!SessionEnded(m)))
    BY <1>3, Kept
  <2>2. CASE f = "restore" /\ m.access = 0
    BY <2>1, <2>2 DEF BS!GivesUp
  <2>3. CASE f \in Jobs
    BY <2>1, <2>3 DEF BS!GivesUp
  <2>4. CASE ~(f = "restore" /\ m.access = 0) /\ f \notin Jobs
    BY <2>1, <2>4 DEF BS!GivesUp
  <2> QED
    BY <2>2, <2>3, <2>4
<1> QED
    BY <1>3, <1>4, <1>5, <1>6, Kept

\* A step of page p that asks the server nothing.
LEMMA PageAlone ==
    ASSUME BrowserInv, UNCHANGED <<BS!server, jar, call>>, excused' \in BOOLEAN, excused = TRUE => excused' = TRUE,
           NEW p, NEW m, page' = [page EXCEPT ![p] = m], p \in Pages => Like(page[p], m)
    PROVE  BrowserInv'
<1> USE DEF clock, users, family, token, req, jar, page, flow, call, excused, faults
<1>1. UNCHANGED <<clock, family, token, req, jar, call>>
    BY DEF BS!server
<1>2. \A q \in Pages : Like(page[q], page'[q])
    BY DEF BrowserInv, Shapes, Like
<1>3. Shapes'
    BY <1>1, <1>2 DEF BrowserInv, Shapes, Like, Fine, Serves
<1>4. Rows' /\ Promised' /\ ReplaysExcused'
  <2>1. Rows'
    BY <1>1 DEF BrowserInv, Rows
  <2>2. Promised'
    BY <1>1, <1>2 DEF BrowserInv, Promised, Like
  <2>3. ReplaysExcused'
    BY <1>1 DEF BrowserInv, ReplaysExcused
  <2> QED
    BY <2>1, <2>2, <2>3
<1>5. Fresh' /\ OneBrings' /\ LogoutsEnd'
  <2>1. Fresh'
    BY <1>1 DEF BrowserInv, Fresh, FreshFor
  <2>2. OneBrings'
    BY <1>1 DEF BrowserInv, OneBrings
  <2>3. LogoutsEnd'
    BY <1>1 DEF BrowserInv, LogoutsEnd, EndsFamily, Alive
  <2> QED
    BY <2>1, <2>2, <2>3
<1>6. NoneIsStale' /\ JarReplaced'
  <2>1. NoneIsStale'
    BY <1>1 DEF BrowserInv, NoneIsStale, Alive
  <2>2. excused' = FALSE => excused = FALSE
    BY DEF BrowserInv
  <2>3. JarReplaced'
    BY <1>1, <2>2 DEF BrowserInv, JarReplaced, Replaces, Alive
  <2> QED
    BY <2>1, <2>3
<1> QED
    BY <1>3, <1>4, <1>5, <1>6 DEF BrowserInv

LEMMA PageWaits ==
    ASSUME BrowserInv, NEW p \in Pages,
           \/ \E ok \in BOOLEAN : BS!Poll(p, ok)
           \/ BS!SwitchMode(p) \/ BS!Register(p) \/ BS!Registered(p)
           \/ \E f \in BS!Flows : BS!StartJob(p, f) \/ BS!Accepted(p, f) \/ BS!TriesNewToken(p, f) \/ BS!Fails(p, f)
    PROVE  BrowserInv'
<1> USE DEF clock, users, family, token, req, jar, page, flow, call, excused, faults
<1>1. DOMAIN page = Pages /\ DOMAIN page[p] = PageFields /\ excused \in BOOLEAN
    BY DEF BrowserInv, Shapes
<1>2. Like(page[p], page[p]) /\ (\A f : Like(page[p], BS!GivesUp(f, page[p])))
    BY <1>1, Kept, KeptLong
<1>3. ASSUME UNCHANGED page, UNCHANGED <<BS!server, jar, call, excused>> PROVE BrowserInv'
  <2>1. DOMAIN page = Pages /\ \A q \in Pages : DOMAIN page[q] = PageFields
    BY DEF BrowserInv, Shapes
  <2>2. UNCHANGED <<clock, family, token, req, jar, call, page, excused>>
    BY <1>3 DEF BS!server
  <2> QED
    BY SMTT(40), <2>2 DEF BrowserInv, Rows, Shapes, Promised, Fresh, FreshFor, OneBrings, NoneIsStale, JarReplaced, Replaces,
       LogoutsEnd, EndsFamily, Alive, ReplaysExcused, Fine, Serves
<1>4. ASSUME NEW m, page' = [page EXCEPT ![p] = m], Like(page[p], m), UNCHANGED <<BS!server, jar, call, excused>>
      PROVE  BrowserInv'
    BY <1>1, <1>4, PageAlone
<1>5. ASSUME NEW ok \in BOOLEAN, BS!Poll(p, ok) PROVE BrowserInv'
  <2>1. page' = [page EXCEPT ![p] = BS!Readiness(page[p], ok)] /\ UNCHANGED <<BS!server, jar, call, excused>>
    BY <1>5 DEF BS!Poll
  <2> QED
    BY <1>1, <1>4, <2>1, KeptLong
<1>6. CASE BS!SwitchMode(p)
  <2>1. page' = [page EXCEPT ![p] = BS!SetsAuthMode(page[p])] /\ UNCHANGED <<BS!server, jar, call, excused>>
    BY <1>6 DEF BS!SwitchMode, BS!history
  <2> QED
    BY <1>1, <1>4, <2>1, KeptLong
<1>7. CASE BS!Register(p)
    BY <1>3, <1>7 DEF BS!Register, BS!history
<1>8. CASE BS!Registered(p)
  <2>1. /\ page' \in {page, [page EXCEPT ![p] = BS!Shown([page[p] EXCEPT !.state = "registered"])]}
        /\ UNCHANGED <<BS!server, jar, call, excused>>
    BY <1>8 DEF BS!Registered, BS!history
  <2>2. CASE page' = page
    BY <1>3, <2>1, <2>2
  <2>3. CASE page' = [page EXCEPT ![p] = BS!Shown([page[p] EXCEPT !.state = "registered"])]
    BY <1>1, <1>4, <2>1, <2>3, KeptLong
  <2> QED
    BY <2>1, <2>2, <2>3
<1>9. ASSUME NEW f \in BS!Flows, BS!StartJob(p, f) PROVE BrowserInv'
    BY <1>3, <1>9 DEF BS!StartJob, BS!history
<1>10. ASSUME NEW f \in BS!Flows, BS!Accepted(p, f) PROVE BrowserInv'
  <2> DEFINE u == BS!UserOf(flow[p][f].with)
  <2>1. /\ \/ page' = page
           \/ page' = [page EXCEPT ![p] = BS!Shown([page[p] EXCEPT !.user = u, !.state = "authenticated"])]
        /\ UNCHANGED <<BS!server, jar, call, excused>>
    BY <1>10 DEF BS!Accepted, BS!history
  <2> HIDE DEF u
  <2>2. CASE page' = page
    BY <1>3, <2>1, <2>2
  <2>3. CASE page' = [page EXCEPT ![p] = BS!Shown([page[p] EXCEPT !.user = u, !.state = "authenticated"])]
    BY <1>1, <1>4, <2>1, <2>3, KeptLong
  <2> QED
    BY <2>1, <2>2, <2>3
<1>11. ASSUME NEW f \in BS!Flows, BS!TriesNewToken(p, f) PROVE BrowserInv'
    BY <1>3, <1>11 DEF BS!TriesNewToken, BS!history
<1>12. ASSUME NEW f \in BS!Flows, BS!Fails(p, f) PROVE BrowserInv'
  <2>1. PICK m \in {page[p], BS!SessionEnded(page[p])} :
           page' = [page EXCEPT ![p] = BS!GivesUp(f, m)] /\ UNCHANGED <<BS!server, jar, call, excused>>
    BY <1>12 DEF BS!Fails
  <2>2. Like(page[p], m)
    BY <1>1, Kept
  <2>3. Like(m, BS!GivesUp(f, m))
    BY <2>2, KeptLong DEF Like
  <2>4. Like(page[p], BS!GivesUp(f, m))
    BY <2>2, <2>3 DEF Like
  <2> QED
    BY <1>4, <2>1, <2>4
<1> QED
    BY <1>5, <1>6, <1>7, <1>8, <1>9, <1>10, <1>11, <1>12

LEMMA Begins ==
    ASSUME BrowserInv, NEW p \in Pages, NEW kind \in {"refresh", "login", "logout"}, NEW u \in Users \cup {None},
           kind = "login" => u \in Users, BS!Starts(p, kind, u), UNCHANGED <<BS!server, jar>>,
           excused' = excused,
           DOMAIN page' = Pages, \A q \in Pages \ {p} : page'[q] = page[q], DOMAIN page'[p] = PageFields,
           \/ kind = "refresh" /\ page[p].promise = 0 /\ page'[p].promise = BS!FreeCall
           \/ kind # "refresh" /\ page'[p].promise = page[p].promise
    PROVE  BrowserInv'
<1> USE DEF clock, users, family, token, req, jar, page, flow, call, excused, faults
<1> DEFINE c == BS!FreeCall
           n == [BS!NoCall EXCEPT !.page = p, !.kind = kind, !.user = u, !.phase = "proving"]
<1>1. c \in BS!Calls /\ call[c].phase = "free" /\ call' = [call EXCEPT ![c] = n]
    BY FreeCall DEF BS!Starts
<1>2. /\ n.page = p /\ n.kind = kind /\ n.user = u /\ n.phase = "proving"
      /\ n.cookie = 0 /\ n.ok = FALSE /\ n.sets = 0
      /\ n \in [page: Pages \cup {NotUsed}, kind: {"none", "refresh", "login", "logout"},
                user: Users \cup {None}, phase: {"free", "proving", "sent", "serving", "answered"},
                cookie: Nat, ok: BOOLEAN, sets: Nat]
    BY DEF BS!NoCall
<1> HIDE DEF c, n
<1>3. Fine(n)
  <2>1. Len(token) \in Nat
    BY DEF BrowserInv, Rows
  <2> QED
    BY <1>2, <2>1 DEF Fine, BS!Call
<1>4. UNCHANGED <<clock, family, token, req, jar>> /\ RowsKeep
  <2>1. UNCHANGED <<clock, family, token, req, jar>>
    BY DEF BS!server
  <2> QED
    BY <2>1 DEF RowsKeep, BrowserInv, Rows
<1>5. DOMAIN req' = BS!Calls /\ Serves(n, req'[c]) /\ \A d \in BS!Calls \ {c} : req'[d] = req[d]
    BY <1>2, <1>4 DEF BrowserInv, Shapes, Serves
<1>6. \A d \in BS!Calls \ {c} :
         call[d].kind = "refresh" /\ call[d].phase # "free" /\ call[d].page \in Pages =>
            page'[call[d].page].promise = d
    BY Constants DEF BrowserInv, Promised, c
<1>7. n.kind = "refresh" /\ n.phase # "free" /\ n.page \in Pages => page'[n.page].promise = c
    BY <1>2 DEF c
<1>8. \A t \in 1..Len(token) : ~Brings(n, t)
    BY <1>2 DEF Brings
<1>9. ~Replaces(call[c]) /\ EndsNow(n)
    BY <1>1, <1>2 DEF Replaces, EndsNow
<1>10. \A q \in Pages : DOMAIN page'[q] = PageFields
    BY DEF BrowserInv, Shapes
<1>11. excused \in BOOLEAN
    BY DEF BrowserInv
<1> QED
    BY <1>1, <1>2, <1>3, <1>4, <1>5, <1>6, <1>7, <1>8, <1>9, <1>10, <1>11, CallStep

\* A flow of page p that waits for the one refresh of its page.
LEMMA Awaits ==
    ASSUME BrowserInv, NEW p \in Pages, NEW m, Like(page[p], m), BS!AwaitRefresh(p, m),
           UNCHANGED <<BS!server, jar>>, excused' = excused
    PROVE  BrowserInv'
<1> USE DEF clock, users, family, token, req, jar, page, flow, call, excused, faults
<1>1. DOMAIN page = Pages /\ (\A q \in Pages : DOMAIN page[q] = PageFields) /\ excused \in BOOLEAN
    BY DEF BrowserInv, Shapes
<1>2. CASE m.promise # 0
  <2>1. page' = [page EXCEPT ![p] = m] /\ UNCHANGED call
    BY <1>2 DEF BS!AwaitRefresh
  <2> QED
    BY <1>1, <2>1, PageAlone
<1>3. CASE m.promise = 0
  <2> DEFINE k == [m EXCEPT !.promise = BS!FreeCall]
  <2>1. page' = [page EXCEPT ![p] = k] /\ BS!Starts(p, "refresh", None)
    BY <1>3 DEF BS!AwaitRefresh
  <2>2. DOMAIN k = PageFields /\ k.promise = BS!FreeCall /\ page[p].promise = 0
    BY <1>3 DEF Like, PageFields
  <2> HIDE DEF k
  <2>3. DOMAIN page' = Pages /\ page'[p] = k /\ \A q \in Pages \ {p} : page'[q] = page[q]
    BY <1>1, <2>1
  <2> QED
    BY <2>1, <2>2, <2>3, Begins
<1> QED
    BY <1>2, <1>3

LEMMA PageAsks ==
    ASSUME BrowserInv, NEW p \in Pages,
           \/ \E ok \in BOOLEAN : BS!Boot(p, ok)
           \/ \E f \in BS!Flows : BS!Unauthorized(p, f)
           \/ (\E u \in Users : BS!Login(p, u)) \/ BS!Logout(p)
    PROVE  BrowserInv'
<1> USE DEF clock, users, family, token, req, jar, page, flow, call, excused, faults
<1>1. DOMAIN page = Pages /\ \A q \in Pages : DOMAIN page[q] = PageFields
    BY DEF BrowserInv, Shapes
<1>2. ASSUME NEW ok \in BOOLEAN, BS!Boot(p, ok) PROVE BrowserInv'
  <2>1. /\ BS!AwaitRefresh(p, [BS!Readiness(page[p], ok) EXCEPT !.state = "checking"])
        /\ UNCHANGED <<BS!server, jar>> /\ excused' = excused
    BY <1>2 DEF BS!Boot
  <2>2. Like(page[p], [BS!Readiness(page[p], ok) EXCEPT !.state = "checking"])
    BY <1>1, KeptLong
  <2> QED
    BY <2>1, <2>2, Awaits
<1>3. ASSUME NEW f \in BS!Flows, BS!Unauthorized(p, f) PROVE BrowserInv'
  <2>1. BS!AwaitRefresh(p, page[p]) /\ UNCHANGED <<BS!server, jar>> /\ excused' = excused
    BY <1>3 DEF BS!Unauthorized, BS!history
  <2>2. Like(page[p], page[p])
    BY <1>1, Kept
  <2> QED
    BY <2>1, <2>2, Awaits
<1>4. ASSUME NEW u \in Users, BS!Login(p, u) PROVE BrowserInv'
  <2>1. BS!Starts(p, "login", u) /\ UNCHANGED <<BS!server, jar>> /\ excused' = excused /\ page' = page
    BY <1>4 DEF BS!Login, BS!history
  <2> QED
    BY <1>1, <2>1, Begins
<1>5. CASE BS!Logout(p)
  <2>1. BS!Starts(p, "logout", None) /\ UNCHANGED <<BS!server, jar>> /\ excused' = excused /\ page' = page
    BY <1>5 DEF BS!Logout, BS!history
  <2> QED
    BY <1>1, <2>1, Begins
<1> QED
    BY <1>2, <1>3, <1>4, <1>5

-----------------------------------------------------------------------------
(* Calls. *)

LEMMA NothingElse ==
    ASSUME BrowserInv, UNCHANGED <<BS!server>>
    PROVE  /\ UNCHANGED <<clock, users, family, token, req>> /\ RowsKeep
           /\ DOMAIN req' = BS!Calls /\ excused \in BOOLEAN /\ DOMAIN page = Pages
           /\ \A p \in Pages : DOMAIN page[p] = PageFields
           /\ \A c \in BS!Calls : Fine(call[c]) /\ Serves(call[c], req[c])
           /\ \A c \in BS!Calls : call[c].kind = "refresh" /\ call[c].phase # "free" /\ call[c].page \in Pages =>
                page[call[c].page].promise = c
           /\ \A c \in BS!Calls : EndsFamily(call[c])
<1> USE DEF clock, users, family, token, req, jar, page, flow, call, excused, faults
<1>1. UNCHANGED <<clock, users, family, token, req>>
    BY DEF BS!server
<1>2. RowsKeep
    BY <1>1 DEF BrowserInv, Rows, RowsKeep
<1> QED
    BY <1>1, <1>2 DEF BrowserInv, Shapes, Promised, LogoutsEnd

LEMMA Sends ==
    ASSUME BrowserInv, NEW c \in BS!Calls, BS!Sends(c)
    PROVE  BrowserInv'
<1> USE DEF clock, users, family, token, req, jar, page, flow, call, excused, faults
<1> DEFINE n == [call[c] EXCEPT !.phase = "sent", !.cookie = jar]
<1>1. /\ call[c].phase = "proving" /\ call' = [call EXCEPT ![c] = n]
      /\ UNCHANGED <<BS!server, jar, page>>
      /\ excused' = \/ excused
                    \/ /\ call[c].kind = "refresh" /\ jar # 0
                       /\ \E d \in BS!Calls : BS!Carries(d, jar) /\ call[d].page # call[c].page
    BY DEF BS!Sends
<1>2. /\ UNCHANGED <<clock, users, family, token, req>> /\ RowsKeep
      /\ DOMAIN req' = BS!Calls /\ excused \in BOOLEAN /\ DOMAIN page = Pages
      /\ \A p \in Pages : DOMAIN page[p] = PageFields
      /\ \A d \in BS!Calls : Fine(call[d]) /\ Serves(call[d], req[d])
      /\ \A d \in BS!Calls : call[d].kind = "refresh" /\ call[d].phase # "free" /\ call[d].page \in Pages =>
           page[call[d].page].promise = d
    BY <1>1, NothingElse
<1>3. jar \in Nat /\ jar <= Len(token)
    BY DEF BrowserInv, Rows
<1>4. /\ n.phase = "sent" /\ n.cookie = jar /\ n.kind = call[c].kind /\ n.page = call[c].page
      /\ n.user = call[c].user /\ n.ok = call[c].ok /\ n.sets = call[c].sets /\ n \in BS!Call
  <2>1. call[c] \in BS!Call
    BY <1>2 DEF Fine
  <2> QED
    BY <1>3, <2>1 DEF BS!Call
<1> HIDE DEF n
<1>5. call[c].ok = FALSE /\ call[c].page \in Pages
    BY <1>1, <1>2 DEF Fine, BS!Call
<1>6. Fine(n) /\ Serves(n, req'[c])
    BY <1>2, <1>3, <1>4, <1>5 DEF Fine, Serves
<1>7. excused' \in BOOLEAN /\ (excused = TRUE => excused' = TRUE)
    BY <1>1, <1>2
<1>8. ASSUME NEW t \in 1..Len(token), Brings(n, t), excused' # TRUE
      PROVE  (\A d \in BS!Calls \ {c} : ~Brings(call[d], t)) /\ (token[t].used = TRUE => ~Alive(t)')
  <2>1. t = jar /\ call[c].kind = "refresh" /\ jar # 0 /\ excused = FALSE
    BY <1>1, <1>2, <1>4, <1>8 DEF Brings
  <2>2. \A d \in BS!Calls : BS!Carries(d, jar) => call[d].page = call[c].page
    BY <1>1, <1>8, <2>1
  <2>3. \A d \in BS!Calls \ {c} : ~BS!Carries(d, jar)
    BY <1>1, <1>2, <1>5, <2>1, <2>2 DEF BS!Carries
  <2>4. \A d \in BS!Calls \ {c} : ~Brings(call[d], t)
    BY <2>1, <2>3 DEF Brings, BS!Carries
  <2>5. \A d \in BS!Calls : ~Replaces(call[d])
    BY <1>1, <2>3 DEF Replaces, BS!Carries
  <2>6. token[jar].used = TRUE => ~Alive(jar)
    BY <2>1, <2>5 DEF BrowserInv, JarReplaced
  <2>7. Alive(t)' => Alive(t)
    BY <1>2 DEF Alive
  <2> QED
    BY <2>1, <2>4, <2>6, <2>7
<1>9. ~Replaces(call[c]) /\ EndsNow(n)
    BY <1>1, <1>4 DEF Replaces, EndsNow
<1> QED
    BY <1>1, <1>2, <1>4, <1>5, <1>6, <1>7, <1>8, <1>9, CallStep

\* Call c is answered with an error, or loses its answer.
LEMMA AnswersNo ==
    ASSUME BrowserInv, RowsKeep, NEW c \in BS!Calls, call[c].phase # "free", BS!Answers(c, FALSE, 0), jar' = jar,
           DOMAIN req' = BS!Calls, \A d \in BS!Calls \ {c} : req'[d] = req[d],
           excused' \in BOOLEAN, excused = TRUE => excused' = TRUE, call[c].ok = TRUE => excused' = TRUE,
           DOMAIN page' = Pages, \A p \in Pages : DOMAIN page'[p] = PageFields /\ page'[p].promise = page[p].promise
    PROVE  BrowserInv'
<1> USE DEF clock, users, family, token, req, jar, page, flow, call, excused, faults
<1> DEFINE n == [call[c] EXCEPT !.phase = "answered", !.ok = FALSE, !.sets = 0]
<1>1. call' = [call EXCEPT ![c] = n]
    BY DEF BS!Answers
<1>2. Fine(call[c])
    BY DEF BrowserInv, Shapes
<1>3. /\ n.phase = "answered" /\ n.cookie = call[c].cookie /\ n.kind = call[c].kind /\ n.page = call[c].page
      /\ n.user = call[c].user /\ n.ok = FALSE /\ n.sets = 0 /\ n \in BS!Call
    BY <1>2 DEF Fine, BS!Call
<1> HIDE DEF n
<1>4. Fine(n) /\ Serves(n, req'[c])
  <2>1. Len(token) \in Nat
    BY DEF BrowserInv, Rows
  <2> QED
    BY <1>2, <1>3, <2>1 DEF Fine, Serves
<1>5. \A d \in BS!Calls :
         call[d].kind = "refresh" /\ call[d].phase # "free" /\ call[d].page \in Pages =>
            page'[call[d].page].promise = d
    BY DEF BrowserInv, Promised
<1>6. n.kind = "refresh" /\ n.phase # "free" /\ n.page \in Pages => page'[n.page].promise = c
    BY <1>3, <1>5
<1>7. \A t \in 1..Len(token) : Brings(n, t) => Brings(call[c], t)
    BY <1>2, <1>3 DEF Brings, Fine, BS!Call
<1>8. (Replaces(call[c]) => excused' = TRUE) /\ EndsNow(n)
    BY <1>3 DEF Replaces, EndsNow
<1>9. \A p \in Pages : DOMAIN page'[p] = PageFields
    OBVIOUS
<1>10. n.cookie \in {0, jar, call[c].cookie} /\ jar' \in {0, jar}
    BY <1>3
<1>11. \A t \in 1..Len(token) :
          Brings(n, t) => Brings(call[c], t) /\ (n.phase # "answered" => call[c].phase # "answered")
    BY <1>3, <1>7
<1> QED
    BY <1>1, <1>3, <1>4, <1>5, <1>6, <1>8, <1>9, <1>10, <1>11, CallStep

LEMMA ProofFails ==
    ASSUME BrowserInv, NEW c \in BS!Calls, BS!ProofFails(c)
    PROVE  BrowserInv'
<1> USE DEF clock, users, family, token, req, jar, page, flow, call, excused, faults
<1> DEFINE p == call[c].page
<1>1. /\ call[c].phase = "proving" /\ page' = [page EXCEPT ![p] = BS!SessionEnded(page[p])]
      /\ BS!Answers(c, FALSE, 0) /\ UNCHANGED <<BS!server, jar>> /\ excused' = excused
    BY DEF BS!ProofFails
<1>2. /\ UNCHANGED req /\ RowsKeep /\ DOMAIN req' = BS!Calls /\ excused \in BOOLEAN /\ DOMAIN page = Pages
      /\ (\A q \in Pages : DOMAIN page[q] = PageFields) /\ Fine(call[c])
    BY <1>1, NothingElse
<1>3. call[c].ok # TRUE
    BY <1>1, <1>2 DEF Fine
<1>4. /\ DOMAIN page' = Pages
      /\ \A q \in Pages : DOMAIN page'[q] = PageFields /\ page'[q].promise = page[q].promise
    BY <1>1, <1>2, Kept DEF Like
<1> QED
    BY <1>1, <1>2, <1>3, <1>4, AnswersNo

LEMMA Lost ==
    ASSUME BrowserInv, NEW c \in BS!Calls, BS!Lost(c)
    PROVE  BrowserInv'
<1> USE DEF clock, users, family, token, req, jar, page, flow, call, excused, faults
<1>1. /\ BS!Answers(c, FALSE, 0) /\ UNCHANGED <<jar, page>> /\ excused' = (excused \/ call[c].ok)
      /\ call[c].phase # "free"
    BY DEF BS!Lost
<1>2. /\ DOMAIN req = BS!Calls /\ Fine(call[c]) /\ excused \in BOOLEAN /\ DOMAIN page = Pages
      /\ \A q \in Pages : DOMAIN page[q] = PageFields
    BY DEF BrowserInv, Shapes
<1>3. /\ UNCHANGED <<clock, family, token>> /\ DOMAIN req' = BS!Calls
      /\ \A d \in BS!Calls \ {c} : req'[d] = req[d]
  <2>1. CASE UNCHANGED BS!server
    BY <1>2, <2>1 DEF BS!server
  <2>2. CASE BS!Server!Abandon(c)
    BY <1>2, <2>2 DEF BS!Server!Abandon, BS!Server!Ends
  <2> QED
    BY <2>1, <2>2 DEF BS!Lost
<1>4. RowsKeep
    BY <1>3 DEF RowsKeep, BrowserInv, Rows
<1>5. call[c].ok \in BOOLEAN
    BY <1>2 DEF Fine, BS!Call
<1> QED
    BY <1>1, <1>2, <1>3, <1>4, <1>5, AnswersNo

\* Call c is over; its token may have become the cookie.
LEMMA Freed ==
    ASSUME BrowserInv, NEW c \in BS!Calls, BS!Frees(c), UNCHANGED <<BS!server>>,
           call[c].phase = "answered",
           excused' \in BOOLEAN, excused = TRUE => excused' = TRUE,
           \/ jar' = BS!SetsCookie(c)
           \/ jar' = jar /\ (call[c].ok = TRUE => excused' = TRUE),
           DOMAIN page' = Pages, \A p \in Pages : DOMAIN page'[p] = PageFields,
           \A p \in Pages : page'[p].promise = page[p].promise \/ (call[c].page = p /\ call[c].kind = "refresh")
    PROVE  BrowserInv'
<1> USE DEF clock, users, family, token, req, jar, page, flow, call, excused, faults
<1>1. /\ UNCHANGED <<clock, users, family, token, req>> /\ RowsKeep
      /\ DOMAIN req' = BS!Calls /\ excused \in BOOLEAN /\ DOMAIN page = Pages
      /\ \A d \in BS!Calls : Fine(call[d]) /\ Serves(call[d], req[d])
      /\ \A d \in BS!Calls : call[d].kind = "refresh" /\ call[d].phase # "free" /\ call[d].page \in Pages =>
           page[call[d].page].promise = d
    BY NothingElse
<1> DEFINE n == BS!NoCall
<1>2. /\ n.phase = "free" /\ n.ok = FALSE /\ n.cookie = 0 /\ n.sets = 0 /\ n.kind = "none" /\ Fine(n)
      /\ call' = [call EXCEPT ![c] = n]
    BY NoCallFine DEF BrowserInv, BS!Frees
<1>3. Serves(n, req'[c]) /\ EndsNow(n) /\ \A t \in 1..Len(token) : ~Brings(n, t)
    BY <1>2 DEF Serves, EndsNow, Brings
<1>4. call[c].ok \in BOOLEAN /\ call[c].sets \in Nat
    BY <1>1 DEF Fine, BS!Call
<1>5. jar' = jar \/ (jar' = call[c].sets /\ call[c].ok = TRUE)
    BY <1>4 DEF BS!SetsCookie
<1>6. ASSUME NEW d \in BS!Calls \ {c}, call[d].kind = "refresh", call[d].phase # "free", call[d].page \in Pages
      PROVE  page'[call[d].page].promise = d
  <2>1. page[call[d].page].promise = d
    BY <1>1, <1>6
  <2>2. ~(call[c].page = call[d].page /\ call[c].kind = "refresh")
    BY <1>1, <1>6, <2>1
  <2> QED
    BY <1>6, <2>1, <2>2
<1>7. Replaces(call[c]) => excused' = TRUE \/ jar' # jar
  <2> SUFFICES ASSUME Replaces(call[c]), jar' = jar, excused' # TRUE PROVE FALSE
    OBVIOUS
  <2>1. jar' = call[c].sets /\ call[c].ok = TRUE /\ call[c].kind = "refresh"
    BY <1>4 DEF BS!SetsCookie, Replaces
  <2>2. CASE call[c].sets # 0
    BY <2>1, <2>2 DEF BrowserInv, Fresh, FreshFor
  <2>3. CASE call[c].sets = 0
    BY <1>1, <2>1, <2>3 DEF Fine
  <2> QED
    BY <2>2, <2>3
<1>8. n.cookie \in {0, jar, call[c].cookie} /\ (jar' \in {0, jar} \/ (jar' = call[c].sets /\ call[c].ok = TRUE /\ n = BS!NoCall))
    BY <1>2, <1>5
<1> HIDE DEF n
<1> QED
    BY <1>1, <1>2, <1>3, <1>6, <1>7, <1>8, CallStep

LEMMA Refreshed ==
    ASSUME BrowserInv, NEW p \in Pages, NEW c \in BS!Calls, BS!Refreshed(p, c) PROVE BrowserInv'
<1> USE DEF clock, users, family, token, req, jar, page, flow, call, excused, faults
<1>1. /\ call[c].phase = "answered" /\ call[c].page = p /\ call[c].kind = "refresh" /\ jar' = BS!SetsCookie(c)
      /\ page' = [page EXCEPT ![p].access = call[c].sets, ![p].promise = 0]
      /\ BS!Frees(c) /\ UNCHANGED BS!server /\ excused' = excused
    BY DEF BS!Refreshed, BS!Answered, BS!history
<1>2. excused \in BOOLEAN /\ DOMAIN page = Pages /\ \A q \in Pages : DOMAIN page[q] = PageFields
    BY DEF BrowserInv, Shapes
<1>3. /\ DOMAIN page' = Pages /\ \A q \in Pages : DOMAIN page'[q] = PageFields
      /\ \A q \in Pages \ {p} : page'[q] = page[q]
    BY <1>1, <1>2 DEF PageFields
<1> QED
    BY <1>1, <1>2, <1>3, Freed

LEMMA RefreshFailed ==
    ASSUME BrowserInv, NEW p \in Pages, NEW c \in BS!Calls, BS!RefreshFailed(p, c) PROVE BrowserInv'
<1> USE DEF clock, users, family, token, req, jar, page, flow, call, excused, faults
<1>1. /\ call[c].phase = "answered" /\ call[c].page = p /\ call[c].kind = "refresh" /\ jar' = jar
      /\ ~call[c].ok /\ BS!Frees(c) /\ UNCHANGED BS!server /\ excused' = excused
    BY DEF BS!RefreshFailed, BS!Answered, BS!history
<1>2. PICK last \in BS!Waiting(p) :
         page' = [page EXCEPT ![p] =
                    [BS!GivesUp(last, IF last = "restore" THEN BS!ClearSession(page[p])
                                                          ELSE BS!SessionEnded(page[p]))
                       EXCEPT !.promise = 0]]
    BY DEF BS!RefreshFailed
<1> DEFINE m == IF last = "restore" THEN BS!ClearSession(page[p]) ELSE BS!SessionEnded(page[p])
           k == BS!GivesUp(last, m)
<1>3. excused \in BOOLEAN /\ DOMAIN page = Pages /\ \A q \in Pages : DOMAIN page[q] = PageFields
    BY DEF BrowserInv, Shapes
<1>4. DOMAIN m = PageFields
    BY <1>3, Kept DEF Like
<1>5. DOMAIN k = PageFields
  <2> HIDE DEF m
  <2> QED
    BY <1>4, KeptLong DEF Like
<1>6. page' = [page EXCEPT ![p] = [k EXCEPT !.promise = 0]]
    BY <1>2
<1> HIDE DEF m, k
<1>7. /\ DOMAIN page' = Pages /\ \A q \in Pages : DOMAIN page'[q] = PageFields
      /\ \A q \in Pages \ {p} : page'[q] = page[q]
    BY <1>3, <1>5, <1>6
<1> QED
    BY <1>1, <1>3, <1>7, Freed

LEMMA LoginAnswered ==
    ASSUME BrowserInv, NEW p \in Pages, NEW c \in BS!Calls, BS!LoginAnswered(p, c) PROVE BrowserInv'
<1> USE DEF clock, users, family, token, req, jar, page, flow, call, excused, faults
<1>1. /\ call[c].phase = "answered" /\ jar' = BS!SetsCookie(c)
      /\ page' = [page EXCEPT ![p].access = call[c].sets] \/ page' = page
      /\ BS!Frees(c) /\ UNCHANGED BS!server /\ excused' = excused
    BY DEF BS!LoginAnswered, BS!Answered, BS!history
<1>2. excused \in BOOLEAN /\ DOMAIN page = Pages /\ \A q \in Pages : DOMAIN page[q] = PageFields
    BY DEF BrowserInv, Shapes
<1>3. /\ DOMAIN page' = Pages /\ \A q \in Pages : DOMAIN page'[q] = PageFields /\ page'[q].promise = page[q].promise
  <2>1. CASE page' = page
    BY <1>2, <2>1
  <2>2. CASE page' = [page EXCEPT ![p].access = call[c].sets]
    BY <1>2, <2>2 DEF PageFields
  <2> QED
    BY <1>1, <2>1, <2>2
<1> QED
    BY <1>1, <1>2, <1>3, Freed

LEMMA LogoutAnswered ==
    ASSUME BrowserInv, NEW p \in Pages, NEW c \in BS!Calls, BS!LogoutAnswered(p, c) PROVE BrowserInv'
<1> USE DEF clock, users, family, token, req, jar, page, flow, call, excused, faults
<1> DEFINE m == IF call[c].ok THEN [BS!ClearSession(page[p]) EXCEPT !.state = "anonymous"] ELSE page[p]
<1>1. /\ call[c].phase = "answered" /\ jar' = BS!SetsCookie(c)
      /\ page' = [page EXCEPT ![p] = BS!Shown(m)]
      /\ BS!Frees(c) /\ UNCHANGED BS!server /\ excused' = excused
    BY DEF BS!LogoutAnswered, BS!Answered, BS!history
<1>2. excused \in BOOLEAN /\ DOMAIN page = Pages /\ \A q \in Pages : DOMAIN page[q] = PageFields
    BY DEF BrowserInv, Shapes
<1>3. Like(page[p], BS!Shown(m))
  <2>1. CASE call[c].ok
    BY <1>2, <2>1, KeptLong
  <2>2. CASE ~call[c].ok
    BY <1>2, <2>2, Kept
  <2> QED
    BY <2>1, <2>2
<1> HIDE DEF m
<1>4. /\ DOMAIN page' = Pages /\ \A q \in Pages : DOMAIN page'[q] = PageFields /\ page'[q].promise = page[q].promise
    BY <1>1, <1>2, <1>3 DEF Like
<1> QED
    BY <1>1, <1>2, <1>4, Freed

LEMMA OrphanEnds ==
    ASSUME BrowserInv, NEW c \in BS!Calls, BS!OrphanEnds(c) PROVE BrowserInv'
<1> USE DEF clock, users, family, token, req, jar, page, flow, call, excused, faults
<1>1. /\ call[c].phase = "answered" /\ BS!Frees(c) /\ UNCHANGED <<BS!server, page>>
      /\ \/ jar' = BS!SetsCookie(c) /\ excused' = excused
         \/ jar' = jar /\ excused' = (excused \/ call[c].ok)
    BY DEF BS!OrphanEnds
<1>2. /\ excused \in BOOLEAN /\ DOMAIN page = Pages /\ (\A q \in Pages : DOMAIN page[q] = PageFields)
      /\ Fine(call[c])
    BY DEF BrowserInv, Shapes
<1>3. call[c].ok \in BOOLEAN
    BY <1>2 DEF Fine, BS!Call
<1>4. \/ jar' = BS!SetsCookie(c)
      \/ jar' = jar /\ (call[c].ok = TRUE => excused' = TRUE)
    BY <1>1
<1>5. excused' \in BOOLEAN /\ (excused = TRUE => excused' = TRUE)
    BY <1>1, <1>2, <1>3
<1> QED
    BY <1>1, <1>2, <1>4, <1>5, Freed

LEMMA Reload ==
    ASSUME BrowserInv, NEW p \in Pages, BS!Reload(p) PROVE BrowserInv'
<1> USE DEF clock, users, family, token, req, jar, page, flow, call, excused, faults
<1>1. /\ page' = [page EXCEPT ![p] = BS!NewPage] /\ UNCHANGED <<clock, users, family, token, req, jar, excused>>
      /\ call' = [c \in BS!Calls |->
                    IF BS!Free(c) \/ call[c].page # p THEN call[c]
                    ELSE IF call[c].phase = "proving" THEN BS!NoCall
                    ELSE [call[c] EXCEPT !.page = NotUsed]]
    BY DEF BS!Reload, BS!server
<1> DEFINE Same(k, l) == /\ l.kind = k.kind /\ l.user = k.user /\ l.phase = k.phase /\ l.cookie = k.cookie
                         /\ l.ok = k.ok /\ l.sets = k.sets
<1>2. ASSUME NEW c \in BS!Calls
      PROVE  /\ \/ Same(call[c], call'[c]) /\ call'[c].page \in {call[c].page, NotUsed}
                                           /\ (call'[c].phase = "proving" => call'[c].page = call[c].page)
                \/ call'[c] = BS!NoCall
             /\ call'[c] \in BS!Call
             /\ call'[c].page = p => call'[c].phase = "free"
             /\ Replaces(call[c]) => Same(call[c], call'[c])
  <2>0. call[c] \in BS!Call /\ Fine(BS!NoCall) /\ BS!NoCall.phase = "free"
    BY NoCallFine DEF BrowserInv, Shapes, Fine
  <2>1. CASE call'[c] = call[c] /\ (call[c].phase = "free" \/ call[c].page # p)
    BY <2>0, <2>1
  <2>2. CASE call'[c] = BS!NoCall /\ call[c].phase = "proving"
    BY <2>0, <2>2 DEF Fine, Replaces
  <2>3. CASE call'[c] = [call[c] EXCEPT !.page = NotUsed] /\ call[c].phase # "proving"
    BY <2>0, <2>3, Constants DEF BS!Call
  <2> QED
    BY <1>1, <2>1, <2>2, <2>3 DEF BS!Free
<1>3. /\ BS!NoCall.phase = "free" /\ BS!NoCall.ok = FALSE /\ BS!NoCall.cookie = 0
      /\ BS!NoCall.sets = 0 /\ BS!NoCall.kind = "none" /\ Fine(BS!NoCall)
    BY NoCallFine DEF BrowserInv
<1>4. Rows'
    BY <1>1 DEF BrowserInv, Rows
<1>5. Shapes'
  <2>1. ASSUME NEW c \in BS!Calls PROVE Fine(call[c])' /\ Serves(call[c], req[c])'
    <3>0. Fine(call[c]) /\ Serves(call[c], req[c])
      BY DEF BrowserInv, Shapes
    <3>1. CASE Same(call[c], call'[c]) /\ (call'[c].phase = "proving" => call'[c].page = call[c].page)
      BY <1>1, <1>2, <3>0, <3>1 DEF Fine, Serves
    <3>2. CASE call'[c] = BS!NoCall
      BY <1>1, <1>3, <3>2 DEF Fine, Serves
    <3> QED
      BY <1>2, <3>1, <3>2
  <2>2. DOMAIN page' = Pages /\ \A q \in Pages : DOMAIN page'[q] = PageFields
    BY <1>1 DEF BrowserInv, Shapes, BS!NewPage, PageFields
  <2> QED
    BY <1>1, <2>1, <2>2 DEF BrowserInv, Shapes
<1>6. Promised'
  <2> SUFFICES ASSUME NEW c \in BS!Calls, call'[c].kind = "refresh", call'[c].phase # "free", call'[c].page \in Pages
               PROVE  page'[call'[c].page].promise = c
    BY DEF Promised
  <2>1. call'[c].page # p /\ Same(call[c], call'[c]) /\ call'[c].page = call[c].page
    BY <1>2, <1>3, Constants
  <2> QED
    BY <1>1, <2>1 DEF BrowserInv, Promised, Shapes
<1>7. Fresh'
    BY <1>1, <1>2, <1>3 DEF BrowserInv, Fresh, FreshFor
<1>8. OneBrings' /\ NoneIsStale'
  <2>1. \A c \in BS!Calls, t \in 1..Len(token) : Brings(call'[c], t) => Brings(call[c], t) /\ call'[c].phase = call[c].phase
    BY <1>2, <1>3 DEF Brings
  <2>2. OneBrings'
    BY <1>1, <2>1 DEF BrowserInv, OneBrings
  <2>3. NoneIsStale'
    BY <1>1, <2>1 DEF BrowserInv, NoneIsStale, Alive
  <2> QED
    BY <2>2, <2>3
<1>9. JarReplaced'
    BY <1>1, <1>2 DEF BrowserInv, JarReplaced, Replaces, Alive
<1>10. LogoutsEnd' /\ ReplaysExcused'
  <2>1. LogoutsEnd'
    BY <1>1, <1>2, <1>3 DEF BrowserInv, LogoutsEnd, EndsFamily, Alive
  <2>2. ReplaysExcused'
    BY <1>1 DEF BrowserInv, ReplaysExcused
  <2> QED
    BY <2>1, <2>2
<1> QED
    BY <1>1, <1>4, <1>5, <1>6, <1>7, <1>8, <1>9, <1>10 DEF BrowserInv

-----------------------------------------------------------------------------
(* The server's steps. *)

\* The handler of a refresh that is served: its key fits, and nothing expired.
LEMMA Handler ==
    ASSUME BrowserInv, NEW c \in BS!Calls, call[c].kind = "refresh", call[c].phase = "serving"
    PROVE  /\ call[c].cookie \in 1..Len(token) /\ req[c].token = call[c].cookie
           /\ req[c].pc \in {"waiting", "rotating"} /\ BS!Server!Bound(c) /\ ~BS!Server!Expired(c)
           /\ BS!Server!Dead(c) <=> ~Alive(call[c].cookie)
           /\ Brings(call[c], call[c].cookie)
           /\ token[call[c].cookie].family \in 1..Len(family)
<1> USE DEF clock, users, family, token, req, jar, page, flow, call, excused, faults
<1>1. /\ req[c].pc \in {"waiting", "rotating"} /\ req[c].token = call[c].cookie /\ req[c].token # 0
      /\ req[c].key = DeviceKey /\ req[c].at = 0 /\ call[c] \in BS!Call /\ call[c].cookie <= Len(token)
    BY DEF BrowserInv, Shapes, Serves, Fine
<1> DEFINE t == call[c].cookie
           f == token[t].family
<1>2. t \in 1..Len(token)
  <2>1. Len(token) \in Nat
    BY DEF BrowserInv, Rows
  <2> QED
    BY <1>1, <2>1 DEF BS!Call
<1>3. f \in 1..Len(family) /\ token[t].expires > 0 /\ family[f].key = DeviceKey /\ family[f].absolute > 0
    BY <1>2 DEF BrowserInv, Rows
<1>4. family[f].absolute \in Nat /\ token[t].expires \in Nat
  <2>1. family[f] \in BS!Server!Family /\ token[t] \in BS!Server!Token
    BY <1>2, <1>3 DEF BrowserInv, Rows
  <2> QED
    BY <2>1 DEF BS!Server!Family, BS!Server!Token
<1>5. BS!Server!Bound(c)
    BY <1>1, <1>3 DEF BS!Server!Bound
<1>6. ~BS!Server!Expired(c)
    BY <1>1, <1>3, <1>4 DEF BS!Server!Expired
<1>7. BS!Server!Dead(c) <=> ~Alive(t)
    BY <1>1, <1>3, <1>4 DEF BS!Server!Dead, BS!Server!Live, Alive
<1>8. Brings(call[c], t)
    BY <1>1 DEF Brings
<1> QED
    BY <1>1, <1>2, <1>3, <1>5, <1>6, <1>7, <1>8

\* A family is over, or is now for this reason.
LEMMA Revokes ==
    ASSUME BrowserInv, NEW f \in 1..Len(family), NEW reason \in {"logout", "refresh_reuse"},
           BS!Server!Revoke(f, reason), UNCHANGED <<clock, token>>,
           reason = "refresh_reuse" => excused' = TRUE
    PROVE  RowsKeep /\ family'[f].revoked = reason
<1> USE DEF clock, users, family, token, req, jar, page, flow, call, excused, faults
<1> DEFINE g == [family[f] EXCEPT !.revoked = reason]
<1>1. family' = [family EXCEPT ![f] = g]
    BY DEF BS!Server!Revoke
<1>2. family \in Seq(BS!Server!Family)
    BY DEF BrowserInv, Rows
<1>3. family[f] \in BS!Server!Family
    BY <1>2
<1>4. /\ g \in BS!Server!Family /\ g.key = family[f].key /\ g.absolute = family[f].absolute
      /\ g.revoked = reason
    BY <1>3 DEF BS!Server!Family, BS!Server!Reasons
<1> HIDE DEF g
<1>5. family' \in Seq(BS!Server!Family) /\ Len(family') = Len(family)
    BY <1>1, <1>2, <1>4
<1>6. \A e \in 1..Len(family) : family'[e] = IF e = f THEN g ELSE family[e]
    BY <1>1, <1>2
<1> QED
    BY <1>4, <1>5, <1>6 DEF RowsKeep

LEMMA NoPage ==
    ASSUME BrowserInv, UNCHANGED page
    PROVE  /\ DOMAIN page' = Pages
           /\ \A p \in Pages : DOMAIN page'[p] = PageFields /\ page'[p].promise = page[p].promise
           /\ excused \in BOOLEAN
BY DEF BrowserInv, Shapes, page

\* Call c goes on in the server as it was sent.
LEMMA GoesOn ==
    ASSUME BrowserInv, NEW c \in BS!Calls, RowsKeep, UNCHANGED <<jar, page, excused>>,
           NEW n, Fine(n), call' = [call EXCEPT ![c] = n] \/ (call' = call /\ n = call[c]),
           n.kind = call[c].kind, n.page = call[c].page, n.cookie = call[c].cookie, n.ok = TRUE => n.sets = 0,
           call[c].phase \in {"sent", "serving"},
           n.phase = "serving" \/ (n.phase = "answered" /\ n.kind = "logout" /\ EndsNow(n)),
           DOMAIN req' = BS!Calls, Serves(n, req'[c]), \A d \in BS!Calls \ {c} : req'[d] = req[d]
    PROVE  BrowserInv'
<1> USE DEF clock, users, family, token, req, jar, page, flow, call, excused, faults
<1>1. /\ DOMAIN page' = Pages /\ \A p \in Pages : DOMAIN page'[p] = PageFields
      /\ excused' \in BOOLEAN /\ (excused = TRUE => excused' = TRUE)
    BY NoPage
<1>2. \A d \in BS!Calls :
         call[d].kind = "refresh" /\ call[d].phase # "free" /\ call[d].page \in Pages =>
            page'[call[d].page].promise = d
    BY DEF BrowserInv, Promised
<1>3. n.kind = "refresh" /\ n.phase # "free" /\ n.page \in Pages => page'[n.page].promise = c
    BY <1>2
<1>4. \A t \in 1..Len(token) : Brings(n, t) => Brings(call[c], t) /\ (n.phase # "answered" => call[c].phase # "answered")
    BY DEF Brings
<1>5. ~Replaces(call[c])
    BY DEF Replaces
<1>6. EndsNow(n)
    BY DEF EndsNow
<1>7. n.cookie \in {0, jar, call[c].cookie} /\ jar' \in {0, jar}
    OBVIOUS
<1>8. n.ok = TRUE /\ n.sets # 0 => call[c].ok = TRUE /\ n.sets = call[c].sets
    OBVIOUS
<1> QED
    BY <1>1, <1>2, <1>3, <1>4, <1>5, <1>6, <1>7, <1>8, CallStep

\* Call c gets the next token: a login begins a family, a refresh rotates.
LEMMA Issues ==
    ASSUME BrowserInv, NEW c \in BS!Calls, call[c].phase = "serving", call[c].kind \in {"login", "refresh"},
           BS!Answers(c, TRUE, Len(token) + 1), UNCHANGED <<clock, jar, page, excused>>,
           NEW new \in BS!Server!Token, new.used = FALSE, new.expires > 0, new.family \in 1..Len(family'),
           NEW old \in Seq(BS!Server!Token), token' = Append(old, new), Len(old) = Len(token),
           \A t \in 1..Len(token) :
              /\ old[t].family = token[t].family /\ old[t].expires = token[t].expires
              /\ old[t].used = token[t].used \/ (call[c].kind = "refresh" /\ t = call[c].cookie),
           \/ family' = family
           \/ \E g \in BS!Server!Family :
                 /\ family' = Append(family, g)
                 /\ g.key = DeviceKey /\ g.absolute > 0 /\ g.revoked = "no",
           DOMAIN req' = BS!Calls, \A d \in BS!Calls \ {c} : req'[d] = req[d]
    PROVE  BrowserInv'
<1> USE DEF clock, users, family, token, req, jar, page, flow, call, excused, faults
<1> DEFINE T == Len(token) + 1
           n == [call[c] EXCEPT !.phase = "answered", !.ok = TRUE, !.sets = T]
<1>1. /\ DOMAIN call' = BS!Calls /\ call'[c] = n /\ \A d \in BS!Calls \ {c} : call'[d] = call[d]
    BY DEF BrowserInv, Shapes, BS!Answers
<1>2. Fine(call[c]) /\ Len(token) \in Nat /\ T \in Nat
    BY DEF BrowserInv, Rows, Shapes
<1>3. /\ n.phase = "answered" /\ n.cookie = call[c].cookie /\ n.kind = call[c].kind /\ n.page = call[c].page
      /\ n.user = call[c].user /\ n.ok = TRUE /\ n.sets = T /\ n \in BS!Call
    BY <1>2 DEF Fine, BS!Call
<1>4. /\ Len(token') = T /\ token'[T] = new /\ \A t \in 1..Len(token) : token'[t] = old[t]
      /\ token' \in Seq(BS!Server!Token)
    BY <1>2
<1>5. /\ family' \in Seq(BS!Server!Family) /\ Len(family) \in Nat /\ Len(family') >= Len(family)
      /\ \A f \in 1..Len(family) : family'[f] = family[f]
      /\ \A f \in 1..Len(family') : f \in 1..Len(family) \/
            (family'[f].key = DeviceKey /\ family'[f].absolute > 0 /\ family'[f].revoked = "no")
  <2>1. family \in Seq(BS!Server!Family)
    BY DEF BrowserInv, Rows
  <2>2. CASE family' = family
    BY <2>1, <2>2
  <2>3. ASSUME NEW g \in BS!Server!Family, family' = Append(family, g),
               g.key = DeviceKey, g.absolute > 0, g.revoked = "no"
        PROVE  /\ family' \in Seq(BS!Server!Family) /\ Len(family) \in Nat /\ Len(family') >= Len(family)
               /\ \A f \in 1..Len(family) : family'[f] = family[f]
               /\ \A f \in 1..Len(family') : f \in 1..Len(family) \/
                     (family'[f].key = DeviceKey /\ family'[f].absolute > 0 /\ family'[f].revoked = "no")
    BY <2>1, <2>3
  <2> QED
    BY <2>2, <2>3
<1> HIDE DEF n, T
<1>6. \A t \in 1..Len(token) : token[t].family \in 1..Len(family) /\ token[t].expires > 0
    BY DEF BrowserInv, Rows
<1>7. \A t \in 1..Len(token) : token'[t].family = token[t].family /\ (Alive(t)' <=> Alive(t))
    BY <1>4, <1>5, <1>6 DEF Alive
<1>8. Rows'
  <2>1. \A t \in 1..Len(token') : token'[t].family \in 1..Len(family') /\ token'[t].expires > 0
    BY SMTT(40), <1>2, <1>4, <1>5, <1>6 DEF T
  <2>2. \A f \in 1..Len(family') : family'[f].key = DeviceKey /\ family'[f].absolute > 0
    BY <1>5 DEF BrowserInv, Rows
  <2>3. jar' \in 0..Len(token') /\ clock' = 0
    BY <1>2, <1>4 DEF BrowserInv, Rows, T
  <2> QED
    BY <1>4, <1>5, <2>1, <2>2, <2>3 DEF Rows
<1>9. Shapes'
  <2>1. ASSUME NEW d \in BS!Calls \ {c} PROVE Fine(call[d])' /\ Serves(call[d], req[d])'
    <3>1. Fine(call[d]) /\ Serves(call[d], req[d])
      BY DEF BrowserInv, Shapes
    <3> QED
      BY SMTT(40), <1>1, <1>2, <1>4, <3>1 DEF Fine, Serves, BS!Call, T
  <2>2. Fine(call[c])'
    BY <1>1, <1>2, <1>3, <1>4 DEF Fine, BS!Call, T
  <2>3. Serves(call[c], req[c])'
    BY <1>1, <1>3 DEF Serves
  <2> QED
    BY <1>1, <2>1, <2>2, <2>3 DEF BrowserInv, Shapes
<1>10. Promised'
    BY <1>1, <1>3 DEF BrowserInv, Promised
<1>11. \A d \in BS!Calls : call'[d].cookie = call[d].cookie /\ call'[d].cookie <= Len(token)
    BY <1>1, <1>3 DEF BrowserInv, Shapes, Fine
<1>12. Fresh'
  <2>1. ASSUME NEW d \in BS!Calls, NEW t, t = call'[d].sets, call'[d].ok = TRUE, t # 0
        PROVE  /\ token'[t].used = FALSE /\ t # jar'
               /\ \A e \in BS!Calls : call'[e].cookie # t /\ (e # d /\ call'[e].ok = TRUE => call'[e].sets # t)
    <3>0. \A e \in BS!Calls \ {c} : call[e].sets <= Len(token)
      BY DEF BrowserInv, Shapes, Fine
    <3>1. CASE d = c
      <4>1. t = T
        BY <1>1, <1>3, <2>1, <3>1
      <4>2. jar' # T
        BY <1>2 DEF BrowserInv, Rows, T
      <4>3. \A e \in BS!Calls : call'[e].cookie # T /\ (e # c => call'[e].sets # T)
        BY <1>1, <1>2, <1>11, <3>0 DEF T
      <4> QED
        BY <1>4, <3>1, <4>1, <4>2, <4>3
    <3>2. CASE d # c
      <4>1. call[d].ok = TRUE /\ call[d].sets = t /\ t <= Len(token)
        BY <1>1, <2>1, <3>0, <3>2
      <4>2. FreshFor(d, t)
        BY <2>1, <4>1 DEF BrowserInv, Fresh
      <4>3. t \in 1..Len(token)
        BY <1>2, <2>1, <4>1 DEF BrowserInv, Shapes, Fine, BS!Call
      <4>4. token'[t].used = FALSE
        BY <1>4, <4>2, <4>3 DEF FreshFor
      <4>5. \A e \in BS!Calls : call'[e].cookie # t
        BY <1>11, <4>2 DEF FreshFor
      <4>6. ASSUME NEW e \in BS!Calls, e # d, call'[e].ok = TRUE PROVE call'[e].sets # t
        <5>1. CASE e = c
          BY <1>1, <1>2, <1>3, <4>1, <4>3, <5>1 DEF T
        <5>2. CASE e # c
          BY <1>1, <4>2, <4>6, <5>2 DEF FreshFor
        <5> QED
          BY <5>1, <5>2
      <4> QED
        BY <4>2, <4>4, <4>5, <4>6 DEF FreshFor
    <3> QED
      BY <3>1, <3>2
  <2> QED
    BY ZenonT(40), <2>1 DEF Fresh, FreshFor
<1>13. \A d \in BS!Calls, t \in 1..Len(token') :
          Brings(call'[d], t) => t \in 1..Len(token) /\ Brings(call[d], t) /\ (d # c => call'[d].phase = call[d].phase)
    BY <1>1, <1>2, <1>3, <1>4, <1>11 DEF Brings, T
<1>14. OneBrings'
  <2>1. \A d, e \in BS!Calls, t \in 1..Len(token') :
           d # e /\ Brings(call'[d], t) /\ Brings(call'[e], t) => excused' = TRUE
    BY <1>13 DEF BrowserInv, OneBrings
  <2> QED
    BY <2>1 DEF OneBrings
<1>15. NoneIsStale'
  <2>1. ASSUME NEW d \in BS!Calls, NEW t \in 1..Len(token'), Brings(call'[d], t), call'[d].phase # "answered",
               token'[t].used = TRUE, Alive(t)'
        PROVE  excused' = TRUE
    <3>1. d # c
      BY <1>1, <1>3, <2>1
    <3>2. t \in 1..Len(token) /\ Brings(call[d], t) /\ call[d].phase # "answered" /\ Alive(t)
      BY <1>7, <1>13, <2>1, <3>1
    <3>3. CASE token[t].used = TRUE
      BY <3>2, <3>3 DEF BrowserInv, NoneIsStale
    <3>4. CASE call[c].kind = "refresh" /\ t = call[c].cookie
      <4>1. Brings(call[c], t)
        BY <3>2, <3>4 DEF Brings
      <4> QED
        BY <3>1, <3>2, <4>1 DEF BrowserInv, OneBrings
    <3> QED
      BY <1>4, <2>1, <3>2, <3>3, <3>4
  <2> QED
    BY <2>1 DEF NoneIsStale
<1>16. JarReplaced'
  <2>1. ASSUME jar # 0, token'[jar].used = TRUE, Alive(jar)', excused = FALSE
        PROVE  \E d \in BS!Calls : Replaces(call[d])'
    <3>1. jar \in 1..Len(token)
      BY <1>2, <2>1 DEF BrowserInv, Rows
    <3>2. Alive(jar)
      BY SMTT(40), <1>4, <1>5, <1>6, <2>1, <3>1 DEF Alive
    <3>3. CASE token[jar].used = TRUE
      <4>1. PICK d \in BS!Calls : Replaces(call[d])
        BY <2>1, <3>2, <3>3 DEF BrowserInv, JarReplaced
      <4>2. d # c
        BY <4>1 DEF Replaces
      <4> QED
        BY <1>1, <4>1, <4>2 DEF Replaces
    <3>4. CASE call[c].kind = "refresh" /\ jar = call[c].cookie
      BY <1>1, <1>3, <3>4 DEF Replaces
    <3> QED
      BY <1>4, <2>1, <3>1, <3>3, <3>4
  <2> QED
    BY <2>1 DEF JarReplaced
<1>17. LogoutsEnd'
  <2>1. ASSUME NEW d \in BS!Calls, NEW t, t = call'[d].cookie, call'[d].kind = "logout", call'[d].phase = "answered",
               call'[d].ok = TRUE, t # 0
        PROVE  ~Alive(t)'
    <3>1. d # c /\ call'[d] = call[d]
      BY <1>1, <1>3, <2>1
    <3>2. t \in 1..Len(token) /\ ~Alive(t)
      BY <2>1, <3>1 DEF BrowserInv, LogoutsEnd, EndsFamily, Shapes, Fine, Rows, BS!Call
    <3> QED
      BY <1>7, <3>2
  <2>2. \A d \in BS!Calls : call'[d].kind = "logout" /\ call'[d].phase = "answered" /\ call'[d].ok = TRUE
                            /\ call'[d].cookie # 0 => family'[token'[call'[d].cookie].family].revoked # "no"
    BY <2>1 DEF Alive
  <2> QED
    BY <2>2 DEF LogoutsEnd, EndsFamily, Alive
<1>18. ReplaysExcused'
    BY <1>5 DEF BrowserInv, ReplaysExcused
<1>19. excused' \in BOOLEAN
    BY DEF BrowserInv
<1> QED
    BY <1>8, <1>9, <1>10, <1>12, <1>14, <1>15, <1>16, <1>17, <1>18, <1>19 DEF BrowserInv

LEMMA SaysNo ==
    ASSUME BrowserInv, NEW c \in BS!Calls, call[c].phase \in {"sent", "serving"}, BS!Answers(c, FALSE, 0),
           RowsKeep, DOMAIN req' = BS!Calls, \A d \in BS!Calls \ {c} : req'[d] = req[d],
           UNCHANGED <<jar, page, excused>>
    PROVE  BrowserInv'
<1> USE DEF clock, users, family, token, req, jar, page, flow, call, excused, faults
<1>1. /\ DOMAIN page' = Pages /\ \A p \in Pages : DOMAIN page'[p] = PageFields /\ page'[p].promise = page[p].promise
      /\ excused' \in BOOLEAN /\ (excused = TRUE => excused' = TRUE)
    BY NoPage
<1>2. call[c].ok # TRUE
    BY DEF BrowserInv, Shapes, Fine
<1> QED
    BY <1>1, <1>2, AnswersNo

\* A call that the server takes up or goes on with.
LEMMA Moved ==
    ASSUME BrowserInv, NEW c \in BS!Calls, call[c].phase = "sent", BS!Moves(c, "serving"),
           UNCHANGED <<clock, family, token, jar, page, excused>>,
           NEW r, req' = [req EXCEPT ![c] = r],
           call[c].kind = "refresh" =>
              r.pc = "waiting" /\ r.token = call[c].cookie /\ r.token # 0 /\ r.key = DeviceKey /\ r.at = 0,
           call[c].kind = "login" => r.user \in Users /\ r.key = DeviceKey /\ r.at = 0
    PROVE  BrowserInv'
<1> USE DEF clock, users, family, token, req, jar, page, flow, call, excused, faults
<1> DEFINE n == [call[c] EXCEPT !.phase = "serving"]
<1>1. call' = [call EXCEPT ![c] = n]
    BY DEF BS!Moves
<1>2. Fine(call[c]) /\ DOMAIN req = BS!Calls
    BY DEF BrowserInv, Shapes
<1>3. /\ n.phase = "serving" /\ n.cookie = call[c].cookie /\ n.kind = call[c].kind /\ n.page = call[c].page
      /\ n.user = call[c].user /\ n.ok = call[c].ok /\ n.sets = call[c].sets /\ n \in BS!Call
    BY <1>2 DEF Fine, BS!Call
<1> HIDE DEF n
<1>4. Fine(n)
    BY <1>2, <1>3 DEF Fine
<1>5. DOMAIN req' = BS!Calls /\ Serves(n, req'[c]) /\ \A d \in BS!Calls \ {c} : req'[d] = req[d]
    BY <1>2, <1>3 DEF Serves
<1>6. RowsKeep
    BY DEF RowsKeep, BrowserInv, Rows
<1>7. n.ok # TRUE
    BY <1>2, <1>3 DEF Fine
<1> QED
    BY <1>1, <1>3, <1>4, <1>5, <1>6, <1>7, GoesOn

LEMMA Refreshes ==
    ASSUME BrowserInv, NEW c \in BS!Calls, BS!Refreshes(c) PROVE BrowserInv'
<1> USE DEF clock, users, family, token, req, jar, page, flow, call, excused, faults
<1>1. call[c].kind = "refresh" /\ UNCHANGED <<jar, page, excused>>
    BY DEF BS!Refreshes, BS!history
<1>2. /\ DOMAIN req = BS!Calls /\ Fine(call[c]) /\ Serves(call[c], req[c]) /\ clock = 0
      /\ family \in Seq(BS!Server!Family) /\ token \in Seq(BS!Server!Token)
    BY DEF BrowserInv, Shapes, Rows
<1>3. CASE call[c].phase = "sent" /\ call[c].cookie = 0 /\ BS!Answers(c, FALSE, 0) /\ UNCHANGED BS!server
  <2>1. RowsKeep /\ DOMAIN req' = BS!Calls /\ UNCHANGED req
    BY <1>3, NothingElse
  <2> QED
    BY <1>1, <1>3, <2>1, SaysNo
<1>4. CASE /\ call[c].phase = "sent" /\ call[c].cookie # 0
           /\ BS!Server!RefreshArrives(c, call[c].cookie, DeviceKey) /\ BS!Moves(c, "serving")
  <2> DEFINE r == [pc |-> "waiting", token |-> call[c].cookie, key |-> DeviceKey, at |-> clock]
  <2>1. req' = [req EXCEPT ![c] = r] /\ UNCHANGED <<clock, family, token>>
    BY <1>4 DEF BS!Server!RefreshArrives
  <2> QED
    BY <1>1, <1>2, <1>4, <2>1, Moved
<1>5. CASE call[c].phase = "serving" /\ BS!Server!RefreshGranted(c) /\ UNCHANGED call
  <2>1. req' = [req EXCEPT ![c].pc = "rotating"] /\ UNCHANGED <<clock, family, token>>
    BY <1>5 DEF BS!Server!RefreshGranted
  <2>2. DOMAIN req' = BS!Calls /\ \A d \in BS!Calls \ {c} : req'[d] = req[d]
    BY <1>2, <2>1
  <2>3. Serves(call[c], req'[c])
  <3> DEFINE r == [req[c] EXCEPT !.pc = "rotating"]
  <3>1. req'[c] = r
    BY <1>2, <2>1
  <3>2. req[c].pc = "waiting" /\ req[c].token = call[c].cookie /\ req[c].token # 0 /\ req[c].key = DeviceKey /\ req[c].at = 0
    BY <1>1, <1>2, <1>5 DEF Serves, BS!Server!RefreshGranted, BS!Server!Locks
  <3>3. r.token = req[c].token /\ r.key = req[c].key /\ r.at = req[c].at
    OBVIOUS
  <3>4. r.pc \in {"waiting", "rotating"}
    OBVIOUS
  <3> QED
    BY <1>1, <3>1, <3>2, <3>3, <3>4 DEF Serves
  <2>4. RowsKeep
    BY <1>2, <2>1 DEF RowsKeep
  <2>5. call[c].ok # TRUE
    BY <1>2, <1>5 DEF Fine
  <2> QED
    BY <1>1, <1>2, <1>5, <2>2, <2>3, <2>4, <2>5, GoesOn
<1>6. CASE call[c].phase = "serving" /\ BS!Server!RefreshRefused(c) /\ BS!Answers(c, FALSE, 0)
  <2>1. BS!Server!Ends(c) /\ UNCHANGED <<clock, family, token>>
    BY <1>6 DEF BS!Server!RefreshRefused
  <2>2. DOMAIN req' = BS!Calls /\ \A d \in BS!Calls \ {c} : req'[d] = req[d]
    BY <1>2, <2>1 DEF BS!Server!Ends
  <2>3. RowsKeep
    BY <1>2, <2>1 DEF RowsKeep
  <2> QED
    BY <1>1, <1>6, <2>2, <2>3, SaysNo
<1>7. CASE call[c].phase = "serving" /\ BS!Server!RefreshReplayed(c) /\ BS!Answers(c, FALSE, 0)
  <2> DEFINE t == call[c].cookie
             f == token[t].family
  <2>1. /\ t \in 1..Len(token) /\ req[c].token = t /\ f \in 1..Len(family) /\ Brings(call[c], t)
        /\ BS!Server!Dead(c) <=> ~Alive(t)
    BY <1>1, <1>7, Handler
  <2>2. /\ BS!Server!Ends(c) /\ UNCHANGED <<clock, token>> /\ BS!Server!Revoke(token[req[c].token].family, "refresh_reuse")
        /\ ~BS!Server!Dead(c) /\ token[req[c].token].used
    BY <1>7 DEF BS!Server!RefreshReplayed
  <2>3. DOMAIN req' = BS!Calls /\ \A d \in BS!Calls \ {c} : req'[d] = req[d]
    BY <1>2, <2>2 DEF BS!Server!Ends
  <2>4. token[t].used = TRUE
    BY <1>2, <2>1, <2>2 DEF BS!Server!Token
  <2>5. excused' = TRUE
    BY <1>1, <1>7, <2>1, <2>2, <2>4 DEF BrowserInv, NoneIsStale
  <2>6. BS!Server!Revoke(f, "refresh_reuse")
    BY <2>1, <2>2
  <2>7. RowsKeep
    BY <2>1, <2>2, <2>5, <2>6, Revokes
  <2> QED
    BY <1>1, <1>7, <2>3, <2>7, SaysNo
<1>8. CASE call[c].phase = "serving" /\ BS!Server!RefreshCommits(c) /\ BS!Answers(c, TRUE, Len(token) + 1)
  <2> DEFINE t == call[c].cookie
             f == token[t].family
             was == [token[t] EXCEPT !.used = TRUE]
             old == [token EXCEPT ![t] = was]
             new == BS!Server!Child(c)
  <2>1. t \in 1..Len(token) /\ req[c].token = t /\ f \in 1..Len(family) /\ req[c].at = 0
    BY <1>1, <1>2, <1>8, Handler DEF Serves
  <2>2. /\ token' = Append([token EXCEPT ![req[c].token].used = TRUE], new)
        /\ BS!Server!Ends(c) /\ UNCHANGED <<clock, family>>
    BY <1>8 DEF BS!Server!RefreshCommits
  <2>3. token' = Append(old, new)
    BY <2>1, <2>2
  <2>4. token[t] \in BS!Server!Token /\ family[f] \in BS!Server!Family /\ family[f].absolute > 0
    BY <1>2, <2>1 DEF BrowserInv, Rows
  <2>5. /\ was \in BS!Server!Token /\ was.family = token[t].family /\ was.expires = token[t].expires
    BY <2>4 DEF BS!Server!Token
  <2>6. new \in BS!Server!Token /\ new.used = FALSE /\ new.expires > 0 /\ new.family = f
    <3>1. family[f].absolute \in Nat /\ f \in Nat /\ t \in Nat
      BY <2>1, <2>4 DEF BS!Server!Family
    <3>2. BS!Server!Expiry(0, family[f].absolute) \in Nat /\ BS!Server!Expiry(0, family[f].absolute) > 0
      BY <2>4, <3>1 DEF BS!Server!Expiry
    <3>3. new = [family |-> f, parent |-> t, used |-> FALSE, expires |-> BS!Server!Expiry(0, family[f].absolute)]
      BY <2>1 DEF BS!Server!Child
    <3> HIDE DEF new, t, f
    <3> QED
      BY <3>1, <3>2, <3>3 DEF BS!Server!Token
  <2> HIDE DEF was, new
  <2>7. old \in Seq(BS!Server!Token) /\ Len(old) = Len(token)
    BY <1>2, <2>1, <2>5
  <2>8. \A s \in 1..Len(token) : old[s] = IF s = t THEN was ELSE token[s]
    BY <1>2, <2>1
  <2>9. \A s \in 1..Len(token) :
          /\ old[s].family = token[s].family /\ old[s].expires = token[s].expires
          /\ old[s].used = token[s].used \/ (call[c].kind = "refresh" /\ s = call[c].cookie)
    BY <1>1, <2>5, <2>8
  <2>10. DOMAIN req' = BS!Calls /\ \A d \in BS!Calls \ {c} : req'[d] = req[d]
    BY <1>2, <2>2 DEF BS!Server!Ends
  <2>11. new.family \in 1..Len(family') /\ family' = family /\ UNCHANGED clock
    BY <2>1, <2>2, <2>6
  <2> HIDE DEF old
  <2> QED
    BY <1>1, <1>8, <2>3, <2>6, <2>7, <2>9, <2>10, <2>11, Issues
<1> QED
    BY <1>3, <1>4, <1>5, <1>6, <1>7, <1>8 DEF BS!Refreshes

LEMMA LogsIn ==
    ASSUME BrowserInv, NEW c \in BS!Calls, BS!LogsIn(c) PROVE BrowserInv'
<1> USE DEF clock, users, family, token, req, jar, page, flow, call, excused, faults
<1>1. call[c].kind = "login" /\ UNCHANGED <<jar, page, excused>>
    BY DEF BS!LogsIn, BS!history
<1>2. /\ DOMAIN req = BS!Calls /\ Fine(call[c]) /\ Serves(call[c], req[c]) /\ clock = 0
      /\ family \in Seq(BS!Server!Family) /\ token \in Seq(BS!Server!Token)
    BY DEF BrowserInv, Shapes, Rows
<1>3. CASE call[c].phase = "sent" /\ BS!Answers(c, FALSE, 0) /\ UNCHANGED BS!server
  <2>1. RowsKeep /\ DOMAIN req' = BS!Calls /\ UNCHANGED req
    BY <1>3, NothingElse
  <2> QED
    BY <1>1, <1>3, <2>1, SaysNo
<1>4. CASE call[c].phase = "sent" /\ BS!Server!LoginChecks(c, call[c].user, DeviceKey) /\ BS!Moves(c, "serving")
  <2> DEFINE r == [pc |-> "verified", user |-> call[c].user, key |-> DeviceKey, at |-> clock]
  <2>1. req' = [req EXCEPT ![c] = r] /\ UNCHANGED <<clock, family, token>>
    BY <1>4 DEF BS!Server!LoginChecks
  <2>2. call[c].user \in Users
    BY <1>1, <1>2 DEF Fine
  <2> QED
    BY <1>1, <1>2, <1>4, <2>1, <2>2, Moved
<1>5. CASE call[c].phase = "serving" /\ BS!Server!LoginCommits(c) /\ BS!Answers(c, TRUE, Len(token) + 1)
  <2> DEFINE g == [user |-> req[c].user, key |-> req[c].key, absolute |-> req[c].at + 1, revoked |-> "no"]
             new == [family |-> Len(family) + 1, parent |-> 0,
                     expires |-> BS!Server!Expiry(req[c].at, req[c].at + 1), used |-> FALSE]
  <2>1. req[c].at = 0 /\ req[c].user \in Users /\ req[c].key = DeviceKey
    BY <1>1, <1>2, <1>5 DEF Serves
  <2>2. /\ family' = Append(family, g) /\ token' = Append(token, new) /\ BS!Server!Ends(c) /\ UNCHANGED clock
    BY <1>5 DEF BS!Server!LoginCommits
  <2>3. g \in BS!Server!Family /\ g.key = DeviceKey /\ g.absolute > 0 /\ g.revoked = "no"
    BY <2>1 DEF BS!Server!Family, BS!Server!Reasons
  <2>4. new \in BS!Server!Token /\ new.used = FALSE /\ new.expires > 0 /\ new.family = Len(family) + 1
    <3>1. BS!Server!Expiry(req[c].at, req[c].at + 1) = 1 /\ Len(family) \in Nat
      BY <1>2, <2>1 DEF BS!Server!Expiry
    <3> QED
      BY <3>1 DEF BS!Server!Token
  <2> HIDE DEF g, new
  <2>5. new.family \in 1..Len(family')
    BY <1>2, <2>2, <2>4
  <2>6. DOMAIN req' = BS!Calls /\ \A d \in BS!Calls \ {c} : req'[d] = req[d]
    BY <1>2, <2>2 DEF BS!Server!Ends
  <2> QED
    BY <1>1, <1>2, <1>5, <2>2, <2>3, <2>4, <2>5, <2>6, Issues
<1> QED
    BY <1>3, <1>4, <1>5 DEF BS!LogsIn

LEMMA LogsOut ==
    ASSUME BrowserInv, NEW c \in BS!Calls, BS!LogsOut(c) PROVE BrowserInv'
<1> USE DEF clock, users, family, token, req, jar, page, flow, call, excused, faults
<1> DEFINE n == [call[c] EXCEPT !.phase = "answered", !.ok = TRUE, !.sets = 0]
<1>1. /\ call[c].kind = "logout" /\ call[c].phase = "sent" /\ UNCHANGED <<jar, page, excused>>
      /\ call' = [call EXCEPT ![c] = n]
    BY DEF BS!LogsOut, BS!history, BS!Answers
<1>2. /\ DOMAIN req = BS!Calls /\ Fine(call[c]) /\ Len(token) \in Nat
    BY DEF BrowserInv, Shapes, Rows
<1>3. /\ n.phase = "answered" /\ n.cookie = call[c].cookie /\ n.kind = call[c].kind /\ n.page = call[c].page
      /\ n.user = call[c].user /\ n.ok = TRUE /\ n.sets = 0 /\ n \in BS!Call
    BY <1>2 DEF Fine, BS!Call
<1> HIDE DEF n
<1>4. Fine(n)
    BY <1>1, <1>2, <1>3 DEF Fine
<1>5. RowsKeep /\ UNCHANGED req /\ EndsNow(n)
  <2>1. CASE call[c].cookie # 0 /\ BS!Server!Logout(call[c].cookie, DeviceKey)
    <3> DEFINE f == token[call[c].cookie].family
    <3>1. call[c].cookie \in 1..Len(token) /\ f \in 1..Len(family)
      BY <1>2, <2>1 DEF Fine, BS!Call, BrowserInv, Rows
    <3>2. BS!Server!Revoke(f, "logout") /\ UNCHANGED <<clock, token, req>>
      BY <2>1, Zenon DEF BS!Server!Logout
    <3>3. RowsKeep /\ family'[f].revoked = "logout"
      BY <3>1, <3>2, Revokes
    <3> QED
      BY <1>3, <3>2, <3>3 DEF EndsNow
  <2>2. CASE (call[c].cookie # 0 => ~BS!Server!Live(token[call[c].cookie].family)) /\ UNCHANGED BS!server
    <3>1. UNCHANGED <<clock, family, token, req>> /\ RowsKeep
      BY <2>2, NothingElse
    <3> QED
      BY <1>3, <2>2, <3>1 DEF EndsNow, BS!Server!Live
  <2> QED
    BY <2>1, <2>2 DEF BS!LogsOut
<1>6. Serves(n, req'[c])
    BY <1>3 DEF Serves
<1> QED
    BY <1>1, <1>2, <1>3, <1>4, <1>5, <1>6, GoesOn

LEMMA BrowserStep == BrowserInv /\ [BS!Next]_BS!vars => BrowserInv'
<1> SUFFICES ASSUME BrowserInv, [BS!Next]_BS!vars PROVE BrowserInv'
    OBVIOUS
<1>1. ASSUME NEW p \in Pages, BS!PageStep(p) PROVE BrowserInv'
    BY <1>1, PageWaits, PageAsks, Reload DEF BS!PageStep
<1>2. ASSUME NEW c \in BS!Calls, BS!ServerStep(c) PROVE BrowserInv'
    BY <1>2, Refreshes, LogsIn, LogsOut DEF BS!ServerStep
<1>3. ASSUME NEW p \in Pages, NEW c \in BS!Calls, BS!Delivers(p, c) PROVE BrowserInv'
    BY <1>3, Refreshed, RefreshFailed, LoginAnswered, LogoutAnswered DEF BS!Delivers
<1>4. ASSUME NEW c \in BS!Calls, BS!Sends(c) \/ BS!ProofFails(c) \/ BS!Lost(c) \/ BS!OrphanEnds(c) PROVE BrowserInv'
    BY <1>4, Sends, ProofFails, Lost, OrphanEnds
<1>5. CASE UNCHANGED BS!vars
  <2>1. UNCHANGED <<clock, family, token, req, jar, call, page, excused>>
    BY <1>5 DEF BS!vars, clock, family, token, req, jar, call, page, excused
  <2> QED
    BY <2>1 DEF BrowserInv, Rows, Shapes, Promised, Fresh, FreshFor, OneBrings, NoneIsStale, JarReplaced, Replaces,
       LogoutsEnd, EndsFamily, Alive, ReplaysExcused, Fine, Serves
<1> QED
    BY <1>1, <1>2, <1>3, <1>4, <1>5 DEF BS!Next

-----------------------------------------------------------------------------
(* What a page shows. *)

\* A page that is signed out says so.
Honest(m) == m = [f \in PageFields |-> m[f]] /\ (m.state = "anonymous" => m.shown = "anonymous")
Honesty == \A p \in Pages : Honest(page[p])

LEMMA StaysHonest ==
    ASSUME NEW m, Honest(m)
    PROVE  /\ Honest(BS!Shown(m)) /\ Honest(BS!ClearSession(m)) /\ Honest(BS!SessionEnded(m))
           /\ \A x : /\ Honest([m EXCEPT !.access = x]) /\ Honest([m EXCEPT !.promise = x])
                     /\ Honest(BS!Shown([m EXCEPT !.state = x])) /\ Honest([m EXCEPT !.state = "checking"])
           /\ \A x, y : /\ Honest([m EXCEPT !.access = x, !.promise = y])
                        /\ Honest(BS!Shown([m EXCEPT !.user = x, !.state = y]))
           /\ \A ok \in BOOLEAN : Honest(BS!Readiness(m, ok))
<1>1. DOMAIN m = PageFields /\ m = [f \in PageFields |-> m[f]] /\ (m.state = "anonymous" => m.shown = "anonymous")
    BY DEF Honest
<1>2. Honest(BS!Shown(m))
    BY <1>1 DEF Honest, PageFields, BS!Shown
<1>3. Honest(BS!ClearSession(m))
    BY <1>1 DEF Honest, PageFields, BS!ClearSession
<1>4. Honest(BS!SessionEnded(m))
    BY <1>1 DEF Honest, PageFields, BS!ClearSession, BS!SessionEnded
<1>5. ASSUME NEW x PROVE Honest([m EXCEPT !.access = x]) /\ Honest([m EXCEPT !.promise = x])
    BY <1>1 DEF Honest, PageFields
<1>6. ASSUME NEW x PROVE Honest(BS!Shown([m EXCEPT !.state = x])) /\ Honest([m EXCEPT !.state = "checking"])
    BY <1>1 DEF Honest, PageFields, BS!Shown
<1>7. ASSUME NEW x, NEW y
      PROVE  Honest([m EXCEPT !.access = x, !.promise = y]) /\ Honest(BS!Shown([m EXCEPT !.user = x, !.state = y]))
  <2>1. Honest([m EXCEPT !.access = x, !.promise = y])
    BY <1>1 DEF Honest, PageFields
  <2>2. Honest(BS!Shown([m EXCEPT !.user = x, !.state = y]))
    BY <1>1 DEF Honest, PageFields, BS!Shown
  <2> QED
    BY <2>1, <2>2
<1>8. ASSUME NEW ok \in BOOLEAN PROVE Honest(BS!Readiness(m, ok))
    BY <1>1 DEF Honest, PageFields, BS!Shown, BS!Readiness
<1> QED
    BY <1>2, <1>3, <1>4, <1>5, <1>6, <1>7, <1>8

LEMMA GivesUpHonestly == ASSUME NEW m, Honest(m), NEW f PROVE Honest(BS!GivesUp(f, m))
<1>1. /\ Honest(BS!Shown([BS!ClearSession(m) EXCEPT !.state = "anonymous"])) /\ Honest(BS!Shown(m))
      /\ Honest(BS!Shown(BS!SessionEnded(m)))
    BY StaysHonest
<1>2. CASE f = "restore" /\ m.access = 0
    BY <1>1, <1>2 DEF BS!GivesUp
<1>3. CASE f \in Jobs
    BY <1>1, <1>3 DEF BS!GivesUp
<1>4. CASE ~(f = "restore" /\ m.access = 0) /\ f \notin Jobs
    BY <1>1, <1>4 DEF BS!GivesUp
<1> QED
    BY <1>2, <1>3, <1>4

LEMMA HonestInit == BS!Init => Honesty
BY DEF BS!Init, BS!NewPage, Honesty, Honest, PageFields, page

LEMMA HonestStep == BrowserInv /\ Honesty /\ [BS!Next]_BS!vars => Honesty'
<1> SUFFICES ASSUME BrowserInv, Honesty, [BS!Next]_BS!vars PROVE Honesty'
    OBVIOUS
<1> USE DEF clock, users, family, token, req, jar, page, flow, call, excused, faults
<1>0. DOMAIN page = Pages /\ (\A p \in Pages : Honest(page[p])) /\ \A c \in BS!Calls : Fine(call[c])
    BY DEF BrowserInv, Shapes, Honesty
<1>1. ASSUME UNCHANGED page PROVE Honesty'
    BY <1>1 DEF Honesty
<1>2. ASSUME NEW p \in Pages, NEW m, Honest(m), page' = [page EXCEPT ![p] = m] PROVE Honesty'
    BY <1>0, <1>2 DEF Honesty
<1>3. ASSUME NEW p \in Pages, NEW m, Honest(m), BS!AwaitRefresh(p, m) PROVE Honesty'
    BY <1>2, <1>3, StaysHonest DEF BS!AwaitRefresh
<1>4. ASSUME NEW p \in Pages, NEW ok \in BOOLEAN, BS!Boot(p, ok) PROVE Honesty'
  <2>1. Honest([BS!Readiness(page[p], ok) EXCEPT !.state = "checking"])
    <3>1. Honest(BS!Readiness(page[p], ok))
      BY <1>0, StaysHonest
    <3> QED
      BY <3>1, StaysHonest
  <2> QED
    BY <1>3, <1>4, <2>1 DEF BS!Boot
<1>5. ASSUME NEW p \in Pages, NEW ok \in BOOLEAN, BS!Poll(p, ok) PROVE Honesty'
    BY <1>0, <1>2, <1>5, StaysHonest DEF BS!Poll
<1>6. ASSUME NEW p \in Pages, BS!SwitchMode(p) PROVE Honesty'
    BY <1>0, <1>2, <1>6, StaysHonest DEF BS!SwitchMode, BS!SetsAuthMode
<1>7. ASSUME NEW p \in Pages, BS!Registered(p) PROVE Honesty'
  <2>1. Honest(BS!Shown([page[p] EXCEPT !.state = "registered"]))
    BY <1>0, StaysHonest
  <2> QED
    BY <1>1, <1>2, <1>7, <2>1 DEF BS!Registered
<1>8. ASSUME NEW p \in Pages, NEW f \in BS!Flows, BS!Accepted(p, f) PROVE Honesty'
  <2> DEFINE u == BS!UserOf(flow[p][f].with)
  <2>1. \/ page' = page
        \/ page' = [page EXCEPT ![p] = BS!Shown([page[p] EXCEPT !.user = u, !.state = "authenticated"])]
    BY <1>8 DEF BS!Accepted
  <2> HIDE DEF u
  <2>2. Honest(BS!Shown([page[p] EXCEPT !.user = u, !.state = "authenticated"]))
    BY <1>0, StaysHonest
  <2> QED
    BY <1>1, <1>2, <2>1, <2>2
<1>9. ASSUME NEW p \in Pages, NEW f \in BS!Flows, BS!Unauthorized(p, f) PROVE Honesty'
    BY <1>0, <1>3, <1>9 DEF BS!Unauthorized
<1>10. ASSUME NEW p \in Pages, NEW f \in BS!Flows, BS!Fails(p, f) PROVE Honesty'
  <2>1. PICK m \in {page[p], BS!SessionEnded(page[p])} : page' = [page EXCEPT ![p] = BS!GivesUp(f, m)]
    BY <1>10 DEF BS!Fails
  <2>2. Honest(BS!GivesUp(f, m))
    BY <1>0, StaysHonest, GivesUpHonestly
  <2> QED
    BY <1>2, <2>1, <2>2
<1>11. ASSUME NEW p \in Pages, BS!Reload(p) PROVE Honesty'
  <2>1. Honest(BS!NewPage)
    BY DEF Honest, BS!NewPage, PageFields
  <2> QED
    BY <1>2, <1>11, <2>1 DEF BS!Reload
<1>12. ASSUME NEW p \in Pages, BS!PageStep(p) PROVE Honesty'
  <2>1. CASE BS!Register(p) \/ (\E u \in Users : BS!Login(p, u)) \/ BS!Logout(p)
    BY <1>1, <2>1 DEF BS!Register, BS!Login, BS!Logout
  <2>2. ASSUME NEW f \in BS!Flows, BS!StartJob(p, f) \/ BS!TriesNewToken(p, f) PROVE Honesty'
    BY <1>1, <2>2 DEF BS!StartJob, BS!TriesNewToken
  <2> QED
    BY <1>4, <1>5, <1>6, <1>7, <1>8, <1>9, <1>10, <1>11, <1>12, <2>1, <2>2 DEF BS!PageStep
<1>13. ASSUME NEW c \in BS!Calls, BS!Sends(c) \/ BS!ServerStep(c) \/ BS!Lost(c) \/ BS!OrphanEnds(c) PROVE Honesty'
    BY <1>1, <1>13 DEF BS!Sends, BS!ServerStep, BS!Refreshes, BS!LogsIn, BS!LogsOut, BS!Lost, BS!OrphanEnds
<1>14. ASSUME NEW c \in BS!Calls, BS!ProofFails(c) PROVE Honesty'
  <2>1. call[c].page \in Pages /\ page' = [page EXCEPT ![call[c].page] = BS!SessionEnded(page[call[c].page])]
    BY <1>0, <1>14 DEF BS!ProofFails, Fine
  <2>2. Honest(BS!SessionEnded(page[call[c].page]))
    BY <1>0, <2>1, StaysHonest
  <2> QED
    BY <1>2, <2>1, <2>2
<1>15. ASSUME NEW p \in Pages, NEW c \in BS!Calls, BS!Refreshed(p, c) PROVE Honesty'
  <2> DEFINE k == [page[p] EXCEPT !.access = call[c].sets, !.promise = 0]
  <2>1. \A q \in Pages : page'[q] = IF q = p THEN k ELSE page[q]
    BY <1>0, <1>15 DEF BS!Refreshed
  <2>2. Honest(k)
    BY <1>0, StaysHonest
  <2> HIDE DEF k
  <2> QED
    BY <1>0, <2>1, <2>2 DEF Honesty
<1>16. ASSUME NEW p \in Pages, NEW c \in BS!Calls, BS!RefreshFailed(p, c) PROVE Honesty'
  <2>1. PICK last \in BS!Waiting(p) :
           page' = [page EXCEPT ![p] =
                      [BS!GivesUp(last, IF last = "restore" THEN BS!ClearSession(page[p])
                                                            ELSE BS!SessionEnded(page[p]))
                         EXCEPT !.promise = 0]]
    BY <1>16 DEF BS!RefreshFailed
  <2> DEFINE m == IF last = "restore" THEN BS!ClearSession(page[p]) ELSE BS!SessionEnded(page[p])
             k == BS!GivesUp(last, m)
  <2>2. Honest(m)
    BY <1>0, StaysHonest
  <2>3. Honest(k)
    <3> HIDE DEF m
    <3> QED
      BY <2>2, GivesUpHonestly
  <2>4. page' = [page EXCEPT ![p] = [k EXCEPT !.promise = 0]]
    BY <2>1
  <2> HIDE DEF k, m
  <2>5. Honest([k EXCEPT !.promise = 0])
    BY <2>3, StaysHonest
  <2> QED
    BY <1>2, <2>4, <2>5
<1>17. ASSUME NEW p \in Pages, NEW c \in BS!Calls, BS!LoginAnswered(p, c) PROVE Honesty'
  <2>1. page' = page \/ page' = [page EXCEPT ![p] = [page[p] EXCEPT !.access = call[c].sets]]
    BY <1>17 DEF BS!LoginAnswered
  <2>2. Honest([page[p] EXCEPT !.access = call[c].sets])
    BY <1>0, StaysHonest
  <2> QED
    BY <1>1, <1>2, <2>1, <2>2
<1>18. ASSUME NEW p \in Pages, NEW c \in BS!Calls, BS!LogoutAnswered(p, c) PROVE Honesty'
  <2> DEFINE m == IF call[c].ok THEN [BS!ClearSession(page[p]) EXCEPT !.state = "anonymous"] ELSE page[p]
  <2>1. page' = [page EXCEPT ![p] = BS!Shown(m)]
    BY <1>18 DEF BS!LogoutAnswered
  <2>2. Honest(BS!Shown(m))
    BY <1>0, StaysHonest
  <2> HIDE DEF m
  <2> QED
    BY <1>2, <2>1, <2>2
<1>19. ASSUME NEW p \in Pages, NEW c \in BS!Calls, BS!Delivers(p, c) PROVE Honesty'
    BY <1>15, <1>16, <1>17, <1>18, <1>19 DEF BS!Delivers
<1>20. CASE UNCHANGED BS!vars
    BY <1>1, <1>20 DEF BS!vars
<1> QED
    BY <1>12, <1>13, <1>14, <1>19, <1>20 DEF BS!Next

\* A call that was answered is freed by the page it belongs to, or by the
\* browser when no page waits for it.
LEMMA FreedBy ==
    ASSUME BrowserInv, [BS!Next]_BS!vars, NEW c \in BS!Calls, NEW p \in Pages, BS!Answered(c, p, "logout"),
           call'[c].phase = "free"
    PROVE  BS!LogoutAnswered(p, c)
<1> USE DEF clock, users, family, token, req, jar, page, flow, call, excused, faults
<1>1. /\ call[c].phase = "answered" /\ call[c].page = p /\ call[c].kind = "logout" /\ DOMAIN call = BS!Calls
      /\ call[c] \in BS!Call /\ NotUsed # p
    BY Constants DEF BS!Answered, BrowserInv, Shapes, Fine
<1>2. call'[c] # call[c]
    BY <1>1
<1>3. ASSUME NEW q \in Pages, NEW kind, NEW u, BS!Starts(q, kind, u) PROVE FALSE
  <2>1. call[BS!FreeCall].phase = "free" /\ \E n : call' = [call EXCEPT ![BS!FreeCall] = n]
    BY <1>3, FreeCall DEF BS!Starts
  <2> HIDE DEF call
  <2>2. BS!FreeCall # c
    BY <1>1, <2>1
  <2> QED
    BY <1>1, <1>2, <2>1, <2>2
<1>4. ASSUME NEW q \in Pages, NEW m, BS!AwaitRefresh(q, m) PROVE FALSE
    BY <1>2, <1>3, <1>4 DEF BS!AwaitRefresh
<1>5. ASSUME NEW q \in Pages, BS!Reload(q) PROVE FALSE
  <2>1. call'[c] = call[c] \/ call'[c] = [call[c] EXCEPT !.page = NotUsed]
    BY <1>1, <1>5 DEF BS!Reload
  <2> QED
    BY <1>1, <2>1 DEF BS!Call
<1>6. ASSUME NEW q \in Pages, BS!PageStep(q) PROVE FALSE
  <2>1. CASE \E ok \in BOOLEAN : BS!Boot(q, ok) \/ BS!Poll(q, ok)
    BY <1>2, <1>4, <2>1 DEF BS!Boot, BS!Poll
  <2>2. CASE BS!SwitchMode(q) \/ BS!Register(q) \/ BS!Registered(q)
    BY <1>2, <2>2 DEF BS!SwitchMode, BS!Register, BS!Registered
  <2>3. CASE (\E u \in Users : BS!Login(q, u)) \/ BS!Logout(q)
    BY <1>3, <2>3 DEF BS!Login, BS!Logout
  <2>4. ASSUME NEW f \in BS!Flows, \/ BS!StartJob(q, f) \/ BS!Accepted(q, f) \/ BS!Unauthorized(q, f)
                                   \/ BS!TriesNewToken(q, f) \/ BS!Fails(q, f)
        PROVE  FALSE
    BY <1>2, <1>4, <2>4 DEF BS!StartJob, BS!Accepted, BS!Unauthorized, BS!TriesNewToken, BS!Fails
  <2> QED
    BY <1>5, <1>6, <2>1, <2>2, <2>3, <2>4 DEF BS!PageStep
<1>7. ASSUME NEW d \in BS!Calls, NEW n, n.phase # "free", call' = [call EXCEPT ![d] = n] PROVE FALSE
    BY <1>1, <1>2, <1>7
<1>8. ASSUME NEW d \in BS!Calls, NEW ok, NEW sets, BS!Answers(d, ok, sets) PROVE FALSE
  <2> DEFINE n == [call[d] EXCEPT !.phase = "answered", !.ok = ok, !.sets = sets]
  <2>1. call' = [call EXCEPT ![d] = n] /\ call[d] \in BS!Call
    BY <1>8 DEF BS!Answers, BrowserInv, Shapes, Fine
  <2>2. n.phase = "answered"
    BY <2>1 DEF BS!Call
  <2> HIDE DEF n
  <2> QED
    BY <1>7, <2>1, <2>2
<1>9. ASSUME NEW d \in BS!Calls, BS!Moves(d, "serving") PROVE FALSE
  <2> DEFINE n == [call[d] EXCEPT !.phase = "serving"]
  <2>1. call' = [call EXCEPT ![d] = n] /\ call[d] \in BS!Call
    BY <1>9 DEF BS!Moves, BrowserInv, Shapes, Fine
  <2>2. n.phase = "serving"
    BY <2>1 DEF BS!Call
  <2> HIDE DEF n
  <2> QED
    BY <1>7, <2>1, <2>2
<1>10. ASSUME NEW d \in BS!Calls, BS!Sends(d) PROVE FALSE
  <2> DEFINE n == [call[d] EXCEPT !.phase = "sent", !.cookie = jar]
  <2>1. call' = [call EXCEPT ![d] = n] /\ call[d] \in BS!Call
    BY <1>10 DEF BS!Sends, BrowserInv, Shapes, Fine
  <2>2. n.phase = "sent"
    BY <2>1 DEF BS!Call
  <2> HIDE DEF n
  <2> QED
    BY <1>7, <2>1, <2>2
<1>11. ASSUME NEW d \in BS!Calls, BS!ServerStep(d) \/ BS!ProofFails(d) \/ BS!Lost(d) PROVE FALSE
  <2>1. CASE BS!Refreshes(d)
    BY <1>2, <1>8, <1>9, <2>1 DEF BS!Refreshes
  <2>2. CASE BS!LogsIn(d) \/ BS!LogsOut(d)
    BY <1>8, <1>9, <2>2 DEF BS!LogsIn, BS!LogsOut
  <2>3. CASE BS!ProofFails(d) \/ BS!Lost(d)
    BY <1>8, <2>3 DEF BS!ProofFails, BS!Lost
  <2> QED
    BY <1>11, <2>1, <2>2, <2>3 DEF BS!ServerStep
<1>12. ASSUME NEW d \in BS!Calls, BS!Frees(d) PROVE d = c
    BY <1>1, <1>2, <1>12 DEF BS!Frees
<1>13. ASSUME NEW q \in Pages, NEW d \in BS!Calls, BS!Delivers(q, d) PROVE BS!LogoutAnswered(p, c)
  <2>1. BS!Frees(d)
    BY <1>13 DEF BS!Delivers, BS!Refreshed, BS!RefreshFailed, BS!LoginAnswered, BS!LogoutAnswered
  <2>2. d = c
    BY <1>12, <2>1
  <2>3. BS!LogoutAnswered(q, c)
    BY <1>1, <1>13, <2>2 DEF BS!Delivers, BS!Refreshed, BS!RefreshFailed, BS!LoginAnswered, BS!Answered
  <2>4. q = p
    BY <1>1, <2>3 DEF BS!LogoutAnswered, BS!Answered
  <2> QED
    BY <2>3, <2>4
<1>14. ASSUME NEW d \in BS!Calls, BS!OrphanEnds(d) PROVE FALSE
  <2>1. d = c
    BY <1>12, <1>14 DEF BS!OrphanEnds
  <2> QED
    BY <1>1, <1>14, <2>1 DEF BS!OrphanEnds
<1>15. ~UNCHANGED BS!vars
    BY <1>2 DEF BS!vars
<1> QED
    BY <1>6, <1>10, <1>11, <1>13, <1>14, <1>15 DEF BS!Next

LEMMA SignsOut == BrowserInv /\ Honesty /\ [BS!Next]_BS!vars => BS!SignOutStep
<1> SUFFICES ASSUME BrowserInv, Honesty, [BS!Next]_BS!vars,
                    NEW c \in BS!Calls, NEW p \in Pages, BS!Answered(c, p, "logout"), call'[c].phase = "free",
                    call[c].cookie # 0, page'[p].state = "anonymous", page'[p] # page[p]
             PROVE  ~BS!Server!Live(token[call[c].cookie].family)
    BY DEF BS!SignOutStep, BS!Free, clock, users, family, token, req, jar, page, flow, call, excused, faults
<1> USE DEF clock, users, family, token, req, jar, page, flow, call, excused, faults
<1>1. BS!LogoutAnswered(p, c)
    BY FreedBy
<1>2. DOMAIN page = Pages /\ Honest(page[p]) /\ call[c].ok \in BOOLEAN
    BY DEF BrowserInv, Shapes, Fine, BS!Call, Honesty
<1>3. call[c].phase = "answered" /\ call[c].kind = "logout"
    BY DEF BS!Answered
<1>4. CASE call[c].ok = TRUE
    BY <1>3, <1>4 DEF BrowserInv, LogoutsEnd, EndsFamily, Alive, BS!Server!Live
<1>5. CASE call[c].ok = FALSE
  <2>1. page'[p] = BS!Shown(page[p])
    BY <1>1, <1>2, <1>5 DEF BS!LogoutAnswered
  <2>2. page'[p] = [page[p] EXCEPT !.shown = page[p].state]
    BY <2>1 DEF BS!Shown
  <2>3. page[p].state = "anonymous"
    BY <1>2, <2>2 DEF Honest, PageFields
  <2>4. page[p].shown = page[p].state
    BY <1>2, <2>3 DEF Honest
  <2>5. page'[p] = page[p]
    BY <1>2, <2>2, <2>4 DEF Honest, PageFields
  <2> QED
    BY <2>5
<1> QED
    BY <1>2, <1>4, <1>5

-----------------------------------------------------------------------------
(* The theorems. *)

\* The part that runs, device or session, is in its invariant.
PartInv ==
    /\ part = "device" => DeviceInv
    /\ part = "session" => BrowserInv /\ Honesty

LEMMA PartInit == Init => PartInv
BY DeviceInit, BrowserInit, HonestInit DEF Init, PartInv

LEMMA PartStep == PartInv /\ [Next]_vars => PartInv'
<1> SUFFICES ASSUME PartInv, [Next]_vars PROVE PartInv'
    OBVIOUS
<1>1. ASSUME part = "device" PROVE PartInv'
  <2>1. part' = "device" /\ [DP!Next]_DP!proofVars
    BY <1>1 DEF Next, vars, DP!proofVars
  <2> QED
    BY <1>1, <2>1, DeviceStep DEF PartInv
<1>2. ASSUME part = "session" PROVE PartInv'
  <2>1. part' = "session" /\ [BS!Next]_BS!vars
    BY <1>2 DEF Next, vars, BS!vars
  <2> QED
    BY <1>2, <2>1, BrowserStep, HonestStep DEF PartInv
<1>3. ASSUME part \notin {"device", "session"} PROVE PartInv'
  <2>1. part' = part
    BY DEF Next, vars
  <2> QED
    BY <1>3, <2>1 DEF PartInv
<1> QED
    BY <1>1, <1>2, <1>3

\* DeviceProof and BrowserSession: a tab can use the session it has, and the
\* cookie of the pages keeps up with the server unless an answer was lost.
THEOREM SessionStaysUsable == Spec => []SessionIsUsable
<1>1. PartInv => SessionIsUsable
  <2>1. DeviceInv => DP!KeyFits
    BY DEF DeviceInv, OneKey, DP!KeyFits, DP!Has, slot, tab, bound, apart, Tabs
  <2>2. BrowserInv => BS!JarKeepsUp
    BY DEF BrowserInv, Shapes, JarReplaced, Replaces, Alive, BS!JarKeepsUp, BS!Server!Live, BS!Free, BS!Carries,
       token, family, jar, call, excused
  <2> QED
    BY <2>1, <2>2 DEF PartInv, SessionIsUsable
<1> QED
    BY PartInit, PartStep, <1>1, PTL DEF Spec

\* BrowserSession: a family revoked for reuse saw an answer lost, or two
\* pages refresh at the same time.
THEOREM ReplayAlwaysExcused == Spec => []ReplayIsExcused
<1>1. PartInv => ReplayIsExcused
  <2>1. BrowserInv => BS!ReplayIsExcused
    BY DEF BrowserInv, Rows, ReplaysExcused, BS!ReplayIsExcused, family, excused
  <2> QED
    BY <2>1 DEF PartInv, ReplayIsExcused
<1> QED
    BY PartInit, PartStep, <1>1, PTL DEF Spec

\* BrowserSession: a page says "signed out" only when the family of the
\* cookie it sent is over.
THEOREM SignedOutIsTrue == Spec => SignOutEndsCookie
<1>1. PartInv /\ [Next]_vars => (part = "session" => BS!SignOutStep)
  <2> SUFFICES ASSUME PartInv, [Next]_vars, part = "session" PROVE BS!SignOutStep
    OBVIOUS
  <2>1. [BS!Next]_BS!vars
    BY DEF Next, vars, BS!vars
  <2> QED
    BY <2>1, SignsOut DEF PartInv
<1> QED
    BY PartInit, PartStep, <1>1, PTL DEF Spec, SignOutEndsCookie

-----------------------------------------------------------------------------
(***************************************************************************)
(* The accounts, for every database, address, subject and number of        *)
(* processes: what AccountsHold says of Accounts.                          *)
(***************************************************************************)
\* The part's variables, by their names in Accounts.
mode == v1
account == v2
record == v3
cookie == v4
job == v5
flows == v6
commands == v7
logins == v8
refused == v9
led == v10
lapses == v11

-----------------------------------------------------------------------------
(* Types.  A process runs a callback, in the order Opening, Asking, Ending, *)
(* or a change of access.                                                   *)

Flow == 1..MaxFlows
Opening == [pc : {"looks", "inserts", "authenticates"}, flow : Flow]
Asking == [pc : {"identity", "email"}, flow : Flow, subject : Subjects, email : Emails]
Ending == [pc : {"known", "links", "creates"}, flow : Flow, subject : Subjects, email : Emails,
           had : SUBSET Subjects, active : BOOLEAN]

Kinds == {"update", "bootstrap", "seed"}
Wish == [email : Emails, role : AA!Roles \cup {None}, active : BOOLEAN \cup {None},
         demo : BOOLEAN \cup {None}]
Look == [change : Wish, old : AA!Account \cup {None}]
RowJob == [pc : {"row", "writes"}, kind : Kinds, by : Emails \cup {None}, left : Seq(Wish),
        seen : SUBSET Look]
HalfJob == [pc : {"scopes"}, kind : Kinds, by : Emails \cup {None}, left : Seq(Wish),
         seen : SUBSET Look, row : AA!Account]

Lapses == [torn : SUBSET Emails, stale : BOOLEAN, raced : SUBSET Flow, linked : SUBSET Emails]

Job == {AA!Idle} \cup Opening \cup Asking \cup Ending \cup RowJob \cup HalfJob

AccountsType ==
    /\ mode \in {"development", "production"}
    /\ DOMAIN account \subseteq Emails /\ account \in [DOMAIN account -> AA!Account]
    /\ flows \in 0..MaxFlows /\ cookie \in 0..flows /\ commands \in 0..MaxCommands
    /\ DOMAIN record \subseteq 1..flows /\ record \in [DOMAIN record -> Nat]
    /\ logins \in [Flow -> Nat] /\ refused \in [Flow -> Nat]
    /\ led \in BOOLEAN /\ lapses \in Lapses
    /\ job \in [Procs -> Job]

-----------------------------------------------------------------------------
(* What a process knows, when the accounts `known' exist and n flows began. *)

Calling(j) == j \in Opening \cup Asking \cup Ending
Scripted(j) == j \in RowJob \cup HalfJob

\* Whoever is found or linked exists, and who is linked had no other subject.
EndingOK(j, known) ==
    /\ j.pc \in {"known", "links"} => j.email \in known
    /\ j.pc = "links" => \A other \in j.had : other = j.subject

\* A row that was read whole had the scopes of its role.
LookOK(s, known, torn) ==
    s.old # None => /\ s.change.email \in known
                    /\ s.change.email \notin torn => s.old.scopes = AA!ScopesOf(s.old.role)

\* The accounts a transaction changes, those read and those left, and what
\* they shall be.
WishOK(j, c) ==
    /\ j.kind = "update" => c.email # j.by
    /\ j.kind = "bootstrap" => c.role = "admin" /\ c.active = TRUE /\ c.demo = FALSE
User == AA!Change(DemoUser, "user", TRUE, TRUE)
Admin == AA!Change(DemoAdmin, "admin", TRUE, TRUE)
One(j) == \E c \in Wish :
            /\ WishOK(j, c)
            /\ \/ j.pc # "writes" /\ j.left = <<c>> /\ j.seen = {}
               \/ j.pc = "writes" /\ j.left = <<>> /\ \E s \in j.seen : j.seen = {s} /\ s.change = c
Both(j) == \/ j.pc # "writes" /\ j.left = <<User, Admin>> /\ j.seen = {}
           \/ /\ j.pc # "writes" /\ j.left = <<Admin>>
              /\ \E s \in j.seen : j.seen = {s} /\ s.change = User
           \/ /\ j.pc = "writes" /\ j.left = <<>>
              /\ \E s, r \in j.seen : j.seen = {s, r} /\ s.change = User /\ r.change = Admin
ScriptOK(j, known, torn) ==
    /\ j.kind = "update" => /\ j.by \in known /\ (j.left # <<>> => j.left[1].email \in known)
                           /\ \A s \in j.seen : s.old # None
    /\ IF j.kind = "seed" THEN Both(j) ELSE One(j)
    /\ \A s \in j.seen : LookOK(s, known, torn)
    /\ j.pc = "scopes" => j.left[1].email \in known

JobOK(j, known, torn, n) ==
    /\ Calling(j) => j.flow <= n
    /\ j \in Ending => EndingOK(j, known)
    /\ Scripted(j) => ScriptOK(j, known, torn)

JobsOK == \A p \in Procs : JobOK(job[p], DOMAIN account, lapses.torn, flows)

-----------------------------------------------------------------------------
(* The invariant: the types, what the processes know, and the properties   *)
(* with what each needs to be kept.                                        *)

\* Only one script of a kind runs, and only in its mode.
Runs(j, kind) == Scripted(j) /\ j.kind = kind
OneScript ==
    /\ \A p \in Procs : /\ Runs(job[p], "bootstrap") => mode = "production"
                        /\ Runs(job[p], "seed") => mode = "development"
    /\ \A p, q \in Procs : Runs(job[p], "bootstrap") /\ Runs(job[q], "bootstrap") => p = q
NobodyYet ==
    lapses.stale = FALSE /\ (\E p \in Procs : Runs(job[p], "bootstrap")) =>
        \A e \in DOMAIN account : account[e].role # "admin"
AdminStays ==
    led = TRUE /\ lapses.stale = FALSE => \E e \in DOMAIN account : AA!CanWrite(account[e])

\* Without cardinalities.
OneSubject ==
    \A e \in DOMAIN account :
        /\ e \notin lapses.linked => \A s, r \in account[e].subjects : s = r
        /\ \A f \in DOMAIN account, s \in Subjects :
              s \in account[e].subjects /\ s \in account[f].subjects => e = f

\* One process is past the consumption of a transaction, and it signs in once.
Past(j) == j \in Asking \cup Ending \/ (j \in Opening /\ j.pc = "authenticates")
PastOK ==
    /\ \A p \in Procs : Past(job[p]) => job[p].flow \in DOMAIN record /\ logins[job[p].flow] = 0
    /\ \A p, q \in Procs : Past(job[p]) /\ Past(job[q]) /\ job[p].flow = job[q].flow => p = q
CountsOK ==
    /\ \A t \in Flow : t \notin DOMAIN record => logins[t] = 0 /\ refused[t] = 0
    /\ \A t \in Flow : logins[t] <= 1
    /\ \A t \in DOMAIN record : t \notin lapses.raced => record[t] = refused[t]
FlowsOK == PastOK /\ CountsOK

AccountsInv ==
    /\ AccountsType /\ JobsOK /\ OneScript /\ NobodyYet /\ OneSubject /\ FlowsOK
    /\ AdminStays /\ AA!RolesHaveTheirScopes

LEMMA AccountFacts ==
    /\ None \notin AA!Roles /\ None \notin BOOLEAN /\ None \notin AA!Account
    /\ DemoUser \in Emails /\ DemoAdmin \in Emails /\ DemoUser # DemoAdmin
    /\ \A d \in Databases : AA!Consistent(d)
    /\ MaxFlows \in Nat /\ MaxCommands \in Nat
BY FrontendConstants DEF AA!AccountConstants

LEMMA AccountsInit == AA!Init => AccountsInv
<1> SUFFICES ASSUME AA!Init PROVE AccountsInv
    OBVIOUS
<1> USE DEF mode, account, record, cookie, job, flows, commands, logins, refused, led, lapses
<1>1. AA!Consistent(account) /\ account \in Databases
    BY AccountFacts DEF AA!Init
<1>2. DOMAIN record = {} /\ record \in [{} -> Nat]
    BY DEF AA!Init
<1>3. lapses \in Lapses /\ lapses.torn = {} /\ lapses.stale = FALSE /\ lapses.linked = {}
    BY DEF AA!Init, AA!NoLapse, Lapses
<1>4. AccountsType
    BY <1>1, <1>2, <1>3, AccountFacts DEF AA!Init, AccountsType, Job, Flow, AA!Consistent
<1>5. \A p \in Procs : job[p] = AA!Idle
    BY DEF AA!Init
<1>6. /\ AA!Idle \notin Opening /\ AA!Idle \notin Asking /\ AA!Idle \notin Ending
      /\ AA!Idle \notin RowJob /\ AA!Idle \notin HalfJob
    BY DEF AA!Idle, Opening, Asking, Ending, RowJob, HalfJob
<1>7. JobsOK /\ OneScript /\ NobodyYet
    BY <1>5, <1>6 DEF JobsOK, JobOK, Calling, Scripted, OneScript, NobodyYet, Runs
<1>8. OneSubject
    BY <1>1 DEF OneSubject, AA!Consistent
<1>9. FlowsOK
    BY <1>2, <1>5, <1>6 DEF FlowsOK, PastOK, CountsOK, Past, AA!Init, Flow
<1>10. AdminStays
    BY DEF AdminStays, AA!Init
<1>11. AA!RolesHaveTheirScopes
    BY <1>1, <1>3 DEF AA!RolesHaveTheirScopes, AA!Consistent
<1> QED
    BY <1>4, <1>7, <1>8, <1>9, <1>10, <1>11 DEF AccountsInv

-----------------------------------------------------------------------------
(* One process takes a step.                                               *)

\* Accounts are never removed, and no lapse is taken back.
Grows ==
    /\ DOMAIN account \subseteq DOMAIN account' /\ flows <= flows' /\ flows' \in Nat
    /\ lapses.torn \subseteq lapses'.torn

LEMMA KnowsMore ==
    ASSUME NEW j, NEW known, NEW torn, NEW n \in Nat, NEW known2, NEW torn2, NEW n2 \in Nat,
           known \subseteq known2, torn \subseteq torn2, n <= n2, j \in Job,
           JobOK(j, known, torn, n)
    PROVE  JobOK(j, known2, torn2, n2)
<1>1. Calling(j) => j.flow <= n2
    BY DEF JobOK, Calling, Opening, Asking, Ending, Flow
<1>2. j \in Ending => EndingOK(j, known2)
    BY DEF JobOK, EndingOK
<1>3. ASSUME Scripted(j) PROVE ScriptOK(j, known2, torn2)
  <2>1. ScriptOK(j, known, torn)
    BY <1>3 DEF JobOK
  <2>2. \A s \in j.seen : LookOK(s, known2, torn2)
    BY <2>1 DEF ScriptOK, LookOK
  <2> QED
    BY <2>1, <2>2 DEF ScriptOK
<1> QED
    BY <1>1, <1>2, <1>3 DEF JobOK

LEMMA JobStep ==
    ASSUME AccountsInv, NEW p \in Procs, NEW j \in Job, job' = [job EXCEPT ![p] = j], Grows,
           JobOK(j, DOMAIN account', lapses'.torn, flows')
    PROVE  /\ job' \in [Procs -> Job] /\ JobsOK' /\ job'[p] = j
           /\ \A q \in Procs \ {p} : job'[q] = job[q]
<1>1. job \in [Procs -> Job] /\ flows \in Nat
    BY DEF AccountsInv, AccountsType
<1>2. \A q \in Procs \ {p} : JobOK(job[q], DOMAIN account', lapses'.torn, flows')
    BY <1>1, KnowsMore DEF AccountsInv, JobsOK, Grows
<1>3. /\ job' \in [Procs -> Job] /\ job'[p] = j /\ \A q \in Procs \ {p} : job'[q] = job[q]
    BY <1>1
<1> QED
    BY <1>2, <1>3 DEF JobsOK

LEMMA ScriptStep ==
    ASSUME AccountsInv, NEW p \in Procs, NEW j, job'[p] = j, \A q \in Procs \ {p} : job'[q] = job[q],
           mode' = mode, \A k \in {"bootstrap", "seed"} : Runs(j, k) => Runs(job[p], k)
    PROVE  /\ OneScript'
           /\ \A k \in {"bootstrap", "seed"}, q \in Procs : Runs(job'[q], k) => Runs(job[q], k)
<1>1. \A k \in {"bootstrap", "seed"}, q \in Procs : Runs(job'[q], k) => Runs(job[q], k)
    OBVIOUS
<1> QED
    BY <1>1 DEF AccountsInv, OneScript

LEMMA PastStep ==
    ASSUME AccountsInv, NEW p \in Procs, NEW j, job'[p] = j, \A q \in Procs \ {p} : job'[q] = job[q],
           UNCHANGED <<record, logins, refused>>, lapses.raced \subseteq lapses'.raced,
           Past(j) => Past(job[p]) /\ j.flow = job[p].flow
    PROVE  FlowsOK'
<1>1. \A q \in Procs : Past(job'[q]) => Past(job[q]) /\ job'[q].flow = job[q].flow
    OBVIOUS
<1> QED
    BY <1>1 DEF AccountsInv, FlowsOK, PastOK, CountsOK

\* Steps that change no account.
LEMMA SameAccounts ==
    ASSUME AccountsInv, UNCHANGED <<account, led>>, lapses'.stale = lapses.stale,
           lapses.torn \subseteq lapses'.torn, lapses.linked \subseteq lapses'.linked
    PROVE  OneSubject' /\ AdminStays' /\ AA!RolesHaveTheirScopes'
<1> USE DEF account, led, lapses
<1>1. OneSubject'
    BY DEF AccountsInv, OneSubject
<1>2. AdminStays'
    BY DEF AccountsInv, AdminStays, AA!CanWrite
<1>3. AA!RolesHaveTheirScopes'
    BY DEF AccountsInv, AA!RolesHaveTheirScopes
<1> QED
    BY <1>1, <1>2, <1>3

LEMMA SameNobody ==
    ASSUME AccountsInv, UNCHANGED account, lapses'.stale = lapses.stale,
           \A q \in Procs : Runs(job'[q], "bootstrap") => Runs(job[q], "bootstrap")
    PROVE  NobodyYet'
BY DEF AccountsInv, NobodyYet

\* A step of a process in which only its own state changes.
LEMMA Moves ==
    ASSUME AccountsInv, NEW p \in Procs, NEW j \in Job, job' = [job EXCEPT ![p] = j],
           UNCHANGED <<mode, account, record, cookie, flows, logins, refused, led, lapses>>,
           commands' \in 0..MaxCommands,
           JobOK(j, DOMAIN account, lapses.torn, flows),
           \A k \in {"bootstrap", "seed"} : Runs(j, k) => Runs(job[p], k),
           Past(j) => Past(job[p]) /\ j.flow = job[p].flow
    PROVE  AccountsInv'
<1>1. Grows
    BY DEF Grows, AccountsInv, AccountsType
<1>2. JobOK(j, DOMAIN account', lapses'.torn, flows')
    OBVIOUS
<1>3. /\ job' \in [Procs -> Job] /\ JobsOK' /\ job'[p] = j
      /\ \A q \in Procs \ {p} : job'[q] = job[q]
    BY <1>1, <1>2, JobStep
<1>4. /\ OneScript'
      /\ \A k \in {"bootstrap", "seed"}, q \in Procs : Runs(job'[q], k) => Runs(job[q], k)
    BY <1>3, ScriptStep
<1>5. FlowsOK'
    BY <1>3, PastStep
<1>6. OneSubject' /\ AdminStays' /\ AA!RolesHaveTheirScopes'
    BY SameAccounts
<1>7. NobodyYet'
    BY <1>4, SameNobody
<1>8. AccountsType'
    BY <1>3 DEF AccountsInv, AccountsType
<1> QED
    BY <1>3, <1>4, <1>5, <1>6, <1>7, <1>8 DEF AccountsInv

-----------------------------------------------------------------------------
(* OAuth. *)

LEMMA CallbackStep == ASSUME AccountsInv, NEW p \in Procs, AA!Callback(p) PROVE AccountsInv'
<1> USE DEF mode, account, record, cookie, job, flows, commands, logins, refused, led, lapses
<1> DEFINE j == [pc |-> "looks", flow |-> cookie]
<1>1. /\ job' = [job EXCEPT ![p] = j] /\ cookie # 0 /\ commands' = commands + 1 /\ commands < MaxCommands
      /\ UNCHANGED <<mode, account, record, cookie, flows, logins, refused, led, lapses>>
    BY DEF AA!Callback, AA!Starts
<1>2. j \in Opening /\ j.flow <= flows /\ j.pc = "looks"
    BY <1>1, AccountFacts DEF Opening, AccountsInv, AccountsType, Flow
<1>3. j \notin Asking /\ j \notin Ending /\ j \notin RowJob /\ j \notin HalfJob
    BY DEF Asking, Ending, RowJob, HalfJob
<1>4. commands' \in 0..MaxCommands
    BY <1>1, AccountFacts DEF AccountsInv, AccountsType
<1> HIDE DEF j
<1>5. JobOK(j, DOMAIN account, lapses.torn, flows) /\ ~Past(j) /\ ~Scripted(j)
    BY <1>2, <1>3 DEF JobOK, Past, Scripted
<1> QED
    BY <1>1, <1>2, <1>4, <1>5, Moves DEF Runs, Job

\* Which of the sets a job is in shows in its state.
LEMMA Disjoint ==
    ASSUME NEW j \in Job
    PROVE  /\ j.pc \in {"looks", "inserts", "authenticates"} => j \in Opening
           /\ j.pc \in {"identity", "email"} => j \in Asking
           /\ j.pc \in {"known", "links", "creates"} => j \in Ending
           /\ j.pc \in {"row", "writes"} => j \in RowJob
           /\ j.pc = "scopes" => j \in HalfJob
           /\ j \in Opening => j.pc \in {"looks", "inserts", "authenticates"}
           /\ j \in Asking => j.pc \in {"identity", "email"}
           /\ j \in Ending => j.pc \in {"known", "links", "creates"}
           /\ j \in RowJob => j.pc \in {"row", "writes"}
           /\ j \in HalfJob => j.pc = "scopes"
           /\ j = AA!Idle => j.pc = "idle"
BY DEF Job, AA!Idle, Opening, Asking, Ending, RowJob, HalfJob

LEMMA MyJob ==
    ASSUME AccountsInv, NEW p \in Procs
    PROVE  job[p] \in Job /\ JobOK(job[p], DOMAIN account, lapses.torn, flows)
BY DEF AccountsInv, AccountsType, JobsOK

LEMMA IdleJob ==
    \A known, torn, n : /\ AA!Idle \in Job /\ JobOK(AA!Idle, known, torn, n)
                        /\ ~Past(AA!Idle) /\ ~Scripted(AA!Idle)
<1>1. AA!Idle \in Job /\ AA!Idle.pc = "idle"
    BY DEF AA!Idle, Job
<1> QED
    BY <1>1, Disjoint DEF JobOK, Past, Scripted, Calling

\* The process stops, and nothing else changes.
LEMMA Stops ==
    ASSUME AccountsInv, NEW p \in Procs, job' = [job EXCEPT ![p] = AA!Idle],
           UNCHANGED <<mode, account, record, cookie, flows, commands, logins, refused, led, lapses>>
    PROVE  AccountsInv'
<1>1. commands' \in 0..MaxCommands
    BY DEF AccountsInv, AccountsType
<1> QED
    BY <1>1, IdleJob, Moves DEF Runs

\* A callback goes on with what it knows.
LEMMA CallGoesOn ==
    ASSUME AccountsInv, NEW p \in Procs, NEW j \in Job, job' = [job EXCEPT ![p] = j],
           UNCHANGED <<mode, account, record, cookie, flows, commands, logins, refused, led, lapses>>,
           job[p] \in Opening \cup Asking, Calling(j), j.flow = job[p].flow,
           Past(j) => Past(job[p]), j \in Ending => EndingOK(j, DOMAIN account)
    PROVE  AccountsInv'
<1>1. commands' \in 0..MaxCommands
    BY DEF AccountsInv, AccountsType
<1>2. ~Scripted(j)
    BY Disjoint DEF Scripted, Calling
<1>3. JobOK(j, DOMAIN account, lapses.torn, flows)
    BY <1>2, MyJob DEF JobOK, Calling
<1> QED
    BY <1>1, <1>2, <1>3, Moves DEF Runs

LEMMA FindsUnusedStep == ASSUME AccountsInv, NEW p \in Procs, AA!FindsUnused(p) PROVE AccountsInv'
<1> USE DEF mode, account, record, cookie, job, flows, commands, logins, refused, led, lapses
<1> DEFINE j == [job[p] EXCEPT !.pc = "inserts"]
<1>1. /\ job' = [job EXCEPT ![p] = j] /\ job[p].pc = "looks"
      /\ UNCHANGED <<mode, account, record, cookie, flows, commands, logins, refused, led, lapses>>
    BY DEF AA!FindsUnused, AA!Unrecorded, AA!Goes, AA!At
<1>2. job[p] \in Opening
    BY <1>1, MyJob, Disjoint
<1>3. j \in Opening /\ j.pc = "inserts" /\ j.flow = job[p].flow
    BY <1>2 DEF Opening
<1> HIDE DEF j
<1>4. j \in Job /\ Calling(j) /\ ~Past(j) /\ j \notin Ending
    BY <1>3, Disjoint DEF Job, Calling, Past
<1> QED
    BY <1>1, <1>2, <1>3, <1>4, CallGoesOn

LEMMA AuthenticatedStep == ASSUME AccountsInv, NEW p \in Procs, AA!Authenticated(p) PROVE AccountsInv'
<1> USE DEF mode, account, record, cookie, job, flows, commands, logins, refused, led, lapses
<1>1. PICK s \in Subjects, e \in Emails :
         /\ job' = [job EXCEPT ![p] = [pc |-> "identity", flow |-> job[p].flow, subject |-> s, email |-> e]]
         /\ job[p].pc = "authenticates"
         /\ UNCHANGED <<mode, account, record, cookie, flows, commands, logins, refused, led, lapses>>
    BY DEF AA!Authenticated, AA!Unrecorded, AA!Goes, AA!At
<1> DEFINE j == [pc |-> "identity", flow |-> job[p].flow, subject |-> s, email |-> e]
<1>2. job[p] \in Opening /\ Past(job[p])
    BY <1>1, MyJob, Disjoint DEF Past
<1>3. j \in Asking /\ j.flow = job[p].flow
    BY <1>2 DEF Asking, Opening
<1>4. job' = [job EXCEPT ![p] = j]
    BY <1>1
<1> HIDE DEF j
<1>5. j \in Job /\ Calling(j) /\ j \notin Ending
    BY <1>3, Disjoint DEF Job, Calling
<1> QED
    BY <1>1, <1>2, <1>3, <1>4, <1>5, CallGoesOn

LEMMA FindsNoIdentityStep == ASSUME AccountsInv, NEW p \in Procs, AA!FindsNoIdentity(p) PROVE AccountsInv'
<1> USE DEF mode, account, record, cookie, job, flows, commands, logins, refused, led, lapses
<1> DEFINE j == [job[p] EXCEPT !.pc = "email"]
<1>1. /\ job' = [job EXCEPT ![p] = j] /\ job[p].pc = "identity"
      /\ UNCHANGED <<mode, account, record, cookie, flows, commands, logins, refused, led, lapses>>
    BY DEF AA!FindsNoIdentity, AA!Unrecorded, AA!Goes, AA!At
<1>2. job[p] \in Asking
    BY <1>1, MyJob, Disjoint
<1>3. j \in Asking /\ j.flow = job[p].flow
    BY <1>2 DEF Asking
<1> HIDE DEF j
<1>4. j \in Job /\ Calling(j) /\ Past(job[p]) /\ j \notin Ending
    BY <1>2, <1>3, Disjoint DEF Job, Calling, Past
<1> QED
    BY <1>1, <1>2, <1>3, <1>4, CallGoesOn

\* complete_login decides whom to sign in.
LEMMA LoginStep ==
    ASSUME AccountsInv, NEW p \in Procs, job[p] \in Asking,
           NEW pc \in {"known", "links", "creates"}, NEW e \in Emails, NEW had \in SUBSET Subjects,
           AA!Login(p, pc, e, had), AA!Unrecorded,
           pc \in {"known", "links"} => e \in DOMAIN account,
           pc = "links" => \A other \in had : other = job[p].subject
    PROVE  AccountsInv'
<1> USE DEF mode, account, record, cookie, job, flows, commands, logins, refused, led, lapses
<1> DEFINE active == e \notin DOMAIN account \/ account[e].active
           j == [pc |-> pc, flow |-> job[p].flow, subject |-> job[p].subject, email |-> e, had |-> had,
                 active |-> active]
<1>1. /\ job' = [job EXCEPT ![p] = j]
      /\ UNCHANGED <<mode, account, record, cookie, flows, commands, logins, refused, led, lapses>>
    BY DEF AA!Login, AA!Unrecorded, AA!Goes
<1>2. active \in BOOLEAN
    OBVIOUS
<1> HIDE DEF active
<1>3. j \in Ending /\ j.flow = job[p].flow /\ EndingOK(j, DOMAIN account)
    BY <1>2 DEF Ending, Asking, EndingOK
<1> HIDE DEF j
<1>4. j \in Job /\ Calling(j) /\ Past(job[p])
    BY <1>3 DEF Job, Calling, Past
<1> QED
    BY <1>1, <1>3, <1>4, CallGoesOn

LEMMA LooksUpStep ==
    ASSUME AccountsInv, NEW p \in Procs,
           AA!FindsIdentity(p) \/ AA!FindsEmail(p) \/ AA!FindsNoEmail(p)
    PROVE  AccountsInv'
<1> USE DEF mode, account, record, cookie, job, flows, commands, logins, refused, led, lapses
<1>1. job[p] \in Asking
    BY MyJob, Disjoint DEF AA!FindsIdentity, AA!FindsEmail, AA!FindsNoEmail, AA!At
<1>2. job[p].subject \in Subjects /\ job[p].email \in Emails
    BY <1>1 DEF Asking
<1>3. DOMAIN account \subseteq Emails /\ \A e \in DOMAIN account : account[e] \in AA!Account
    BY DEF AccountsInv, AccountsType
<1>4. CASE AA!FindsIdentity(p)
  <2>1. PICK e \in DOMAIN account : AA!Login(p, "known", e, {job[p].subject})
    BY <1>4 DEF AA!FindsIdentity, AA!Owners
  <2>2. AA!Unrecorded
    BY <1>4 DEF AA!FindsIdentity
  <2>3. e \in Emails /\ {job[p].subject} \in SUBSET Subjects
    BY <1>2, <1>3
  <2> QED
    BY <1>1, <2>1, <2>2, <2>3, LoginStep
<1>5. CASE AA!FindsEmail(p)
  <2>1. job[p].email \in DOMAIN account /\ AA!Unrecorded
    BY <1>5 DEF AA!FindsEmail
  <2>2. account[job[p].email].subjects \in SUBSET Subjects
    BY <2>1, <1>3 DEF AA!Account
  <2>3. CASE AA!Conflicts(account[job[p].email], job[p].subject)
    BY <2>1, <2>3, <1>5, Stops DEF AA!FindsEmail, AA!Goes, AA!Unrecorded
  <2>4. CASE ~AA!Conflicts(account[job[p].email], job[p].subject)
    <3>1. AA!Login(p, "links", job[p].email, account[job[p].email].subjects)
      BY <2>4, <1>5 DEF AA!FindsEmail
    <3>2. \A other \in account[job[p].email].subjects : other = job[p].subject
      BY <2>4 DEF AA!Conflicts
    <3> QED
      BY <1>1, <1>2, <2>1, <2>2, <3>1, <3>2, LoginStep
  <2> QED
    BY <2>3, <2>4
<1>6. CASE AA!FindsNoEmail(p)
  <2>1. AA!Login(p, "creates", job[p].email, {}) /\ AA!Unrecorded
    BY <1>6 DEF AA!FindsNoEmail
  <2> QED
    BY <1>1, <1>2, <2>1, LoginStep
<1> QED
    BY <1>4, <1>5, <1>6

LEMMA GivesUpStep ==
    ASSUME AccountsInv, NEW p \in Procs, AA!SignInFails(p) \/ AA!Abandon(p) PROVE AccountsInv'
BY Stops DEF AA!SignInFails, AA!Abandon, AA!Unrecorded, AA!Goes, mode, account, record, cookie, job, flows,
             commands, logins, refused, led, lapses

\* The second and later uses of a transaction, and its consumption.
LEMMA FindsReplayStep == ASSUME AccountsInv, NEW p \in Procs, AA!FindsReplay(p) PROVE AccountsInv'
<1> USE DEF mode, account, record, cookie, job, flows, commands, logins, refused, led, lapses
<1> DEFINE t == job[p].flow
<1>1. /\ job[p].pc = "looks" /\ t \in DOMAIN record
      /\ record' = [record EXCEPT ![t] = @ + 1] /\ refused' = [refused EXCEPT ![t] = @ + 1]
      /\ job' = [job EXCEPT ![p] = AA!Idle]
      /\ UNCHANGED <<mode, account, cookie, flows, commands, logins, led, lapses>>
    BY DEF AA!FindsReplay, AA!Refuses, AA!Goes, AA!At
<1>2. AA!Idle \in Job /\ ~Past(AA!Idle) /\ ~Scripted(AA!Idle)
    BY IdleJob
<1>3. Grows /\ JobOK(AA!Idle, DOMAIN account', lapses'.torn, flows')
    BY <1>1, IdleJob DEF Grows, AccountsInv, AccountsType
<1>4. /\ job' \in [Procs -> Job] /\ JobsOK' /\ job'[p] = AA!Idle
      /\ \A q \in Procs \ {p} : job'[q] = job[q]
    BY <1>1, <1>2, <1>3, JobStep
<1>5. /\ OneScript'
      /\ \A k \in {"bootstrap", "seed"}, q \in Procs : Runs(job'[q], k) => Runs(job[q], k)
    BY <1>1, <1>2, <1>4, ScriptStep DEF Runs
<1>6. OneSubject' /\ AdminStays' /\ AA!RolesHaveTheirScopes'
    BY <1>1, SameAccounts
<1>7. NobodyYet'
    BY <1>1, <1>5, SameNobody
<1>8. DOMAIN record \subseteq Flow /\ record \in [DOMAIN record -> Nat] /\ refused \in [Flow -> Nat]
    BY AccountFacts DEF AccountsInv, AccountsType, Flow
<1>9. /\ DOMAIN record' = DOMAIN record /\ record' \in [DOMAIN record -> Nat] /\ refused' \in [Flow -> Nat]
      /\ \A u \in DOMAIN record : record[u] = refused[u] => record'[u] = refused'[u]
      /\ \A u \in Flow \ DOMAIN record : refused'[u] = refused[u]
    BY <1>1, <1>8
<1>10. \A q \in Procs : Past(job'[q]) => Past(job[q]) /\ job'[q] = job[q]
    BY <1>2, <1>4
<1> HIDE DEF t
<1>11. PastOK'
    BY <1>1, <1>9, <1>10 DEF AccountsInv, FlowsOK, PastOK
<1>13. CountsOK'
    BY <1>1, <1>8, <1>9 DEF AccountsInv, FlowsOK, CountsOK
<1>12. AccountsType'
    BY <1>1, <1>4, <1>9 DEF AccountsInv, AccountsType
<1> QED
    BY <1>4, <1>5, <1>6, <1>7, <1>11, <1>12, <1>13 DEF AccountsInv, FlowsOK

LEMMA ConsumesStep == ASSUME AccountsInv, NEW p \in Procs, AA!Consumes(p) PROVE AccountsInv'
<1> USE DEF mode, account, record, cookie, job, flows, commands, logins, refused, led, lapses
<1> DEFINE t == job[p].flow
           j == [job[p] EXCEPT !.pc = "authenticates"]
<1>1. /\ job[p].pc = "inserts" /\ t \notin DOMAIN record
      /\ record' = [u \in DOMAIN record \cup {t} |-> IF u \in DOMAIN record THEN record[u] ELSE 0]
      /\ job' = [job EXCEPT ![p] = j]
      /\ UNCHANGED <<mode, account, cookie, flows, commands, logins, refused, led, lapses>>
    BY DEF AA!Consumes, AA!Goes, AA!At
<1>2. job[p] \in Opening /\ t \in 1..flows
    BY <1>1, MyJob, Disjoint DEF JobOK, Calling, Opening, Flow, AccountsInv, AccountsType
<1>3. j \in Opening /\ j.flow = t
    BY <1>2 DEF Opening
<1> HIDE DEF j
<1>4. j \in Job /\ ~Scripted(j) /\ j \notin Ending /\ JobOK(j, DOMAIN account, lapses.torn, flows)
    BY <1>2, <1>3, Disjoint DEF Job, Scripted, JobOK
<1>5. Grows
    BY <1>1 DEF Grows, AccountsInv, AccountsType
<1>6. /\ job' \in [Procs -> Job] /\ JobsOK' /\ job'[p] = j
      /\ \A q \in Procs \ {p} : job'[q] = job[q]
    BY <1>1, <1>4, <1>5, JobStep
<1>7. /\ OneScript'
      /\ \A k \in {"bootstrap", "seed"}, q \in Procs : Runs(job'[q], k) => Runs(job[q], k)
    BY <1>1, <1>4, <1>6, ScriptStep DEF Runs
<1>8. OneSubject' /\ AdminStays' /\ AA!RolesHaveTheirScopes'
    BY <1>1, SameAccounts
<1>9. NobodyYet'
    BY <1>1, <1>7, SameNobody
<1>10. /\ DOMAIN record' = DOMAIN record \cup {t} /\ record' \in [DOMAIN record' -> Nat] /\ record'[t] = 0
       /\ \A u \in DOMAIN record : record'[u] = record[u]
    BY <1>1 DEF AccountsInv, AccountsType
<1>11. logins[t] = 0 /\ refused[t] = 0 /\ \A q \in Procs : Past(job[q]) => job[q].flow # t
    BY <1>1, <1>2, AccountFacts DEF AccountsInv, AccountsType, FlowsOK, PastOK, CountsOK, Flow
<1> HIDE DEF t
<1>12. PastOK'
    BY <1>1, <1>3, <1>6, <1>10, <1>11 DEF AccountsInv, FlowsOK, PastOK
<1>14. CountsOK'
    BY <1>1, <1>10, <1>11 DEF AccountsInv, FlowsOK, CountsOK
<1>13. AccountsType'
    BY <1>1, <1>2, <1>6, <1>10 DEF AccountsInv, AccountsType
<1> QED
    BY <1>6, <1>7, <1>8, <1>9, <1>12, <1>13, <1>14 DEF AccountsInv, FlowsOK

LEMMA ConsumeFailsStep == ASSUME AccountsInv, NEW p \in Procs, AA!ConsumeFails(p) PROVE AccountsInv'
<1> USE DEF mode, account, record, cookie, job, flows, commands, logins, refused, led, lapses
<1> DEFINE t == job[p].flow
<1>1. /\ job[p].pc = "inserts" /\ t \in DOMAIN record
      /\ refused' = [refused EXCEPT ![t] = @ + 1] /\ job' = [job EXCEPT ![p] = AA!Idle]
      /\ lapses' = [lapses EXCEPT !.raced = @ \cup {t}]
      /\ UNCHANGED <<mode, account, record, cookie, flows, commands, logins, led>>
    BY DEF AA!ConsumeFails, AA!Refuses, AA!Goes, AA!At
<1>2. AA!Idle \in Job /\ ~Past(AA!Idle) /\ ~Scripted(AA!Idle)
    BY IdleJob
<1>3. t \in Flow
    BY <1>1, MyJob, Disjoint DEF Opening
<1>4. /\ lapses' \in Lapses /\ lapses'.torn = lapses.torn /\ lapses'.linked = lapses.linked
      /\ lapses'.stale = lapses.stale /\ lapses'.raced = lapses.raced \cup {t}
    BY <1>1, <1>3 DEF AccountsInv, AccountsType, Lapses
<1>5. Grows /\ JobOK(AA!Idle, DOMAIN account', lapses'.torn, flows')
    BY <1>1, <1>4, IdleJob DEF Grows, AccountsInv, AccountsType
<1>6. /\ job' \in [Procs -> Job] /\ JobsOK' /\ job'[p] = AA!Idle
      /\ \A q \in Procs \ {p} : job'[q] = job[q]
    BY <1>1, <1>2, <1>5, JobStep
<1>7. /\ OneScript'
      /\ \A k \in {"bootstrap", "seed"}, q \in Procs : Runs(job'[q], k) => Runs(job[q], k)
    BY <1>1, <1>2, <1>6, ScriptStep DEF Runs
<1>8. OneSubject' /\ AdminStays' /\ AA!RolesHaveTheirScopes'
    BY <1>1, <1>4, SameAccounts
<1>9. NobodyYet'
    BY <1>1, <1>4, <1>7, SameNobody
<1>10. DOMAIN record \subseteq Flow /\ refused \in [Flow -> Nat]
    BY AccountFacts DEF AccountsInv, AccountsType, Flow
<1>11. refused' \in [Flow -> Nat] /\ \A u \in Flow \ {t} : refused'[u] = refused[u]
    BY <1>1, <1>10
<1>12. \A q \in Procs : Past(job'[q]) => Past(job[q]) /\ job'[q] = job[q]
    BY <1>2, <1>6
<1> HIDE DEF t
<1>13. PastOK'
    BY <1>1, <1>12 DEF AccountsInv, FlowsOK, PastOK
<1>15. CountsOK'
    BY <1>1, <1>4, <1>10, <1>11 DEF AccountsInv, FlowsOK, CountsOK
<1>14. AccountsType'
    BY <1>1, <1>4, <1>6, <1>11 DEF AccountsInv, AccountsType
<1> QED
    BY <1>6, <1>7, <1>8, <1>9, <1>13, <1>14, <1>15 DEF AccountsInv, FlowsOK

\* The browser.
LEMMA CookieStep ==
    ASSUME AccountsInv, AA!OAuthStart \/ AA!CookieExpires PROVE AccountsInv'
<1> USE DEF mode, account, record, cookie, job, flows, commands, logins, refused, led, lapses
<1>1. /\ UNCHANGED <<mode, account, record, job, commands, logins, refused, led, lapses>>
      /\ flows' \in 0..MaxFlows /\ flows <= flows' /\ cookie' \in 0..flows'
      /\ flows \in 0..MaxFlows
    BY AccountFacts DEF AA!OAuthStart, AA!CookieExpires, AccountsInv, AccountsType
<1>2. \A p \in Procs : JobOK(job[p], DOMAIN account, lapses.torn, flows')
    BY <1>1, MyJob, KnowsMore
<1>3. JobsOK'
    BY <1>1, <1>2 DEF JobsOK
<1>4. AccountsType'
    BY <1>1 DEF AccountsInv, AccountsType
<1>5. OneScript' /\ FlowsOK'
    BY <1>1 DEF AccountsInv, OneScript, FlowsOK, PastOK, CountsOK
<1>6. OneSubject' /\ AdminStays' /\ AA!RolesHaveTheirScopes' /\ NobodyYet'
    BY <1>1, SameAccounts, SameNobody
<1> QED
    BY <1>3, <1>4, <1>5, <1>6 DEF AccountsInv

-----------------------------------------------------------------------------
(* Accounts that registration and sign-ins write.                          *)

LEMMA PutOne ==
    ASSUME AccountsInv, NEW e \in Emails, NEW a \in AA!Account, AA!Put(e, a)
    PROVE  /\ DOMAIN account' = DOMAIN account \cup {e} /\ DOMAIN account' \subseteq Emails
           /\ account' \in [DOMAIN account' -> AA!Account]
           /\ account'[e] = a /\ \A x \in DOMAIN account \ {e} : account'[x] = account[x]
<1> USE DEF account
<1>1. account' = [x \in DOMAIN account \cup {e} |-> IF x = e THEN a ELSE account[x]]
    BY DEF AA!Put
<1> QED
    BY <1>1 DEF AccountsInv, AccountsType

\* A new user is no administrator, and whom it is linked to was not linked.
LEMMA NewUser ==
    ASSUME AccountsInv, NEW e \in Emails \ DOMAIN account, NEW local \in BOOLEAN,
           NEW subjects \in SUBSET Subjects, AA!Put(e, AA!NewAccount("user", FALSE, local, subjects)),
           UNCHANGED <<led, lapses>>,
           \A s, r \in subjects : s = r, \A s \in subjects : AA!Owners(s) = {},
           \A q \in Procs : Runs(job'[q], "bootstrap") => Runs(job[q], "bootstrap")
    PROVE  /\ DOMAIN account \subseteq DOMAIN account'
           /\ DOMAIN account' \subseteq Emails /\ account' \in [DOMAIN account' -> AA!Account]
           /\ OneSubject' /\ AdminStays' /\ AA!RolesHaveTheirScopes' /\ NobodyYet'
<1> USE DEF account, led, lapses
<1> DEFINE a == AA!NewAccount("user", FALSE, local, subjects)
<1>1. a \in AA!Account /\ a.role = "user" /\ a.scopes = AA!ScopesOf("user") /\ a.subjects = subjects
    BY DEF AA!Account, AA!NewAccount, AA!Roles, AA!Scopes, AA!ScopesOf
<1>2. AA!Put(e, a)
    OBVIOUS
<1> HIDE DEF a
<1>3. /\ DOMAIN account' = DOMAIN account \cup {e} /\ DOMAIN account' \subseteq Emails
      /\ account' \in [DOMAIN account' -> AA!Account]
      /\ account'[e] = a /\ \A x \in DOMAIN account : account'[x] = account[x]
    BY <1>1, <1>2, PutOne
<1>4. \A s \in subjects, x \in DOMAIN account : s \notin account[x].subjects
    BY DEF AA!Owners
<1>5. OneSubject'
    BY <1>1, <1>3, <1>4 DEF AccountsInv, OneSubject
<1>6. AdminStays'
    BY <1>3 DEF AccountsInv, AdminStays, AA!CanWrite
<1>7. AA!RolesHaveTheirScopes'
    BY <1>1, <1>3 DEF AccountsInv, AA!RolesHaveTheirScopes
<1>8. NobodyYet'
    BY <1>1, <1>3 DEF AccountsInv, NobodyYet
<1> QED
    BY <1>3, <1>5, <1>6, <1>7, <1>8

LEMMA RegisterStep == ASSUME AccountsInv, NEW e \in Emails, AA!Register(e) PROVE AccountsInv'
<1> USE DEF mode, account, record, cookie, job, flows, commands, logins, refused, led, lapses
<1>1. /\ e \notin DOMAIN account /\ commands < MaxCommands /\ commands' = commands + 1
      /\ AA!Put(e, AA!NewAccount("user", FALSE, TRUE, {}))
      /\ UNCHANGED <<mode, record, cookie, job, flows, logins, refused, led, lapses>>
    BY DEF AA!Register
<1>2. /\ DOMAIN account \subseteq DOMAIN account'
      /\ DOMAIN account' \subseteq Emails /\ account' \in [DOMAIN account' -> AA!Account]
      /\ OneSubject' /\ AdminStays' /\ AA!RolesHaveTheirScopes' /\ NobodyYet'
  <2>1. {} \in SUBSET Subjects /\ TRUE \in BOOLEAN /\ e \in Emails \ DOMAIN account
    BY <1>1
  <2>2. \A q \in Procs : Runs(job'[q], "bootstrap") => Runs(job[q], "bootstrap")
    BY <1>1
  <2> QED
    BY <1>1, <2>1, <2>2, NewUser
<1>3. flows \in Nat /\ commands' \in 0..MaxCommands
    BY <1>1, AccountFacts DEF AccountsInv, AccountsType
<1>4. JobsOK'
    BY <1>1, <1>2, <1>3, MyJob, KnowsMore DEF JobsOK
<1>5. AccountsType'
    BY <1>1, <1>2, <1>3 DEF AccountsInv, AccountsType
<1>6. OneScript' /\ FlowsOK'
    BY <1>1 DEF AccountsInv, OneScript, FlowsOK, PastOK, CountsOK
<1> QED
    BY <1>2, <1>4, <1>5, <1>6 DEF AccountsInv

\* A linked account has the subject it had, or a lapse.
LEMMA Linked ==
    ASSUME AccountsInv, NEW e \in DOMAIN account, NEW s \in Subjects, NEW had \in SUBSET Subjects,
           AA!Put(e, [account[e] EXCEPT !.subjects = @ \cup {s}]), AA!Owners(s) = {},
           \A other \in had : other = s, UNCHANGED led,
           lapses' = IF account[e].subjects # had
                     THEN [lapses EXCEPT !.linked = @ \cup {e}] ELSE lapses,
           \A q \in Procs : Runs(job'[q], "bootstrap") => Runs(job[q], "bootstrap")
    PROVE  /\ DOMAIN account \subseteq DOMAIN account' /\ lapses' \in Lapses
           /\ lapses'.torn = lapses.torn /\ lapses'.raced = lapses.raced
           /\ DOMAIN account' \subseteq Emails /\ account' \in [DOMAIN account' -> AA!Account]
           /\ OneSubject' /\ AdminStays' /\ AA!RolesHaveTheirScopes' /\ NobodyYet'
<1> USE DEF account, led, lapses
<1> DEFINE a == [account[e] EXCEPT !.subjects = @ \cup {s}]
<1>1. account[e] \in AA!Account /\ e \in Emails /\ lapses \in Lapses
    BY DEF AccountsInv, AccountsType
<1>2. /\ a \in AA!Account /\ a.subjects = account[e].subjects \cup {s} /\ a.role = account[e].role
      /\ a.scopes = account[e].scopes /\ a.active = account[e].active
    BY <1>1 DEF AA!Account
<1>3. AA!Put(e, a)
    OBVIOUS
<1> HIDE DEF a
<1>11. /\ DOMAIN account' = DOMAIN account \cup {e} /\ DOMAIN account' \subseteq Emails
       /\ account' \in [DOMAIN account' -> AA!Account]
       /\ account'[e] = a /\ \A x \in DOMAIN account \ {e} : account'[x] = account[x]
    BY <1>1, <1>2, <1>3, PutOne
<1>4. /\ DOMAIN account' = DOMAIN account /\ DOMAIN account' \subseteq Emails
      /\ account' \in [DOMAIN account' -> AA!Account]
      /\ account'[e] = a /\ \A x \in DOMAIN account \ {e} : account'[x] = account[x]
    BY <1>11
<1>5. /\ lapses' \in Lapses /\ lapses'.torn = lapses.torn /\ lapses'.raced = lapses.raced
      /\ lapses'.stale = lapses.stale /\ lapses.linked \subseteq lapses'.linked
      /\ e \notin lapses'.linked => account[e].subjects = had
    BY <1>1 DEF Lapses
<1>6. \A x \in DOMAIN account : s \notin account[x].subjects
    BY DEF AA!Owners
<1>7. OneSubject'
    BY <1>2, <1>4, <1>5, <1>6 DEF AccountsInv, OneSubject
<1>8. AdminStays'
    BY <1>2, <1>4, <1>5 DEF AccountsInv, AdminStays, AA!CanWrite
<1>9. AA!RolesHaveTheirScopes'
    BY <1>2, <1>4, <1>5 DEF AccountsInv, AA!RolesHaveTheirScopes
<1>10. NobodyYet'
    BY <1>2, <1>4, <1>5 DEF AccountsInv, NobodyYet
<1> QED
    BY <1>4, <1>5, <1>7, <1>8, <1>9, <1>10

\* Each sign-in ends the one process that is past the consumption.
LEMMA SignsInStep == ASSUME AccountsInv, NEW p \in Procs, AA!SignsIn(p) PROVE AccountsInv'
<1> USE DEF mode, account, record, cookie, job, flows, commands, logins, refused, led, lapses
<1> DEFINE j == job[p]
<1>1. /\ j.pc \in {"known", "links", "creates"} /\ AA!Insertable(j)
      /\ logins' = [logins EXCEPT ![j.flow] = @ + 1] /\ cookie' \in {cookie, 0}
      /\ lapses' = IF j.pc = "links" /\ account[j.email].subjects # j.had
                   THEN [lapses EXCEPT !.linked = @ \cup {j.email}] ELSE lapses
      /\ job' = [job EXCEPT ![p] = AA!Idle]
      /\ UNCHANGED <<mode, record, flows, commands, refused, led>>
    BY DEF AA!SignsIn, AA!Goes
<1>2. \/ j.pc = "known" /\ UNCHANGED account
      \/ j.pc = "links" /\ AA!Put(j.email, [account[j.email] EXCEPT !.subjects = @ \cup {j.subject}])
      \/ j.pc = "creates" /\ AA!Put(j.email, AA!NewAccount("user", FALSE, FALSE, {j.subject}))
    BY DEF AA!SignsIn
<1>3. j \in Ending /\ EndingOK(j, DOMAIN account)
    BY <1>1, MyJob, Disjoint DEF JobOK
<1>4. /\ j.flow \in Flow /\ j.subject \in Subjects /\ j.email \in Emails /\ j.had \in SUBSET Subjects
    BY <1>3 DEF Ending
<1>5. j.flow \in DOMAIN record /\ logins[j.flow] = 0 /\ Past(j)
    BY <1>3 DEF AccountsInv, FlowsOK, PastOK, Past
<1>6. AA!Idle \in Job /\ ~Past(AA!Idle) /\ ~Scripted(AA!Idle) /\ flows \in Nat /\ cookie' \in 0..flows
    BY <1>1, IdleJob, AccountFacts DEF AccountsInv, AccountsType
<1>7. job \in [Procs -> Job]
    BY DEF AccountsInv, AccountsType
<1>8. job'[p] = AA!Idle /\ \A q \in Procs \ {p} : job'[q] = job[q]
    BY <1>1, <1>7
<1>9. /\ OneScript'
      /\ \A k \in {"bootstrap", "seed"}, q \in Procs : Runs(job'[q], k) => Runs(job[q], k)
    BY <1>1, <1>6, <1>8, ScriptStep DEF Runs
<1>10. /\ DOMAIN account \subseteq DOMAIN account' /\ lapses' \in Lapses
       /\ lapses'.torn = lapses.torn /\ lapses'.raced = lapses.raced
       /\ DOMAIN account' \subseteq Emails /\ account' \in [DOMAIN account' -> AA!Account]
       /\ OneSubject' /\ AdminStays' /\ AA!RolesHaveTheirScopes' /\ NobodyYet'
  <2>1. CASE j.pc = "known"
    <3>1. UNCHANGED <<account, lapses>> /\ lapses \in Lapses
      BY <1>1, <1>2, <2>1 DEF AccountsInv, AccountsType
    <3>2. OneSubject' /\ AdminStays' /\ AA!RolesHaveTheirScopes' /\ NobodyYet'
      BY <1>1, <1>9, <3>1, SameAccounts, SameNobody
    <3> QED
      BY <3>1, <3>2 DEF AccountsInv, AccountsType
  <2>2. CASE j.pc = "links"
    <3>1. /\ j.email \in DOMAIN account /\ AA!Owners(j.subject) = {} /\ \A other \in j.had : other = j.subject
      BY <1>1, <1>3, <2>2 DEF EndingOK, AA!Insertable
    <3> QED
      BY <1>1, <1>2, <1>4, <1>9, <2>2, <3>1, Linked
  <2>3. CASE j.pc = "creates"
    <3>1. /\ j.email \notin DOMAIN account /\ AA!Owners(j.subject) = {} /\ lapses' = lapses
          /\ lapses \in Lapses /\ {j.subject} \in SUBSET Subjects
      BY <1>1, <1>4, <2>3 DEF AA!Insertable, AccountsInv, AccountsType
    <3> QED
      BY <1>1, <1>2, <1>4, <1>9, <2>3, <3>1, NewUser
  <2> QED
    BY <1>1, <2>1, <2>2, <2>3
<1>11. Grows
    BY <1>1, <1>6, <1>10 DEF Grows
<1>12. /\ job' \in [Procs -> Job] /\ JobsOK'
    BY <1>1, <1>6, <1>11, IdleJob, JobStep
<1>13. logins \in [Flow -> Nat] /\ DOMAIN record \subseteq Flow
    BY AccountFacts DEF AccountsInv, AccountsType, Flow
<1> HIDE DEF j
<1>14. /\ logins' \in [Flow -> Nat] /\ logins'[j.flow] = 1
       /\ \A t \in Flow \ {j.flow} : logins'[t] = logins[t]
    BY <1>1, <1>4, <1>5, <1>13
<1>15. \A q \in Procs : Past(job'[q]) => Past(job[q]) /\ job'[q] = job[q] /\ q # p
    BY <1>6, <1>8
<1>16. \A q \in Procs : Past(job'[q]) => job[q].flow # j.flow
    BY <1>5, <1>15 DEF j, AccountsInv, FlowsOK, PastOK
<1>17. PastOK'
    BY <1>1, <1>13, <1>14, <1>15, <1>16 DEF AccountsInv, FlowsOK, PastOK
<1>18. CountsOK'
    BY <1>1, <1>5, <1>10, <1>13, <1>14 DEF AccountsInv, FlowsOK, CountsOK
<1>19. AccountsType'
    BY <1>1, <1>6, <1>10, <1>12, <1>14 DEF AccountsInv, AccountsType
<1> QED
    BY <1>9, <1>10, <1>12, <1>17, <1>18, <1>19 DEF AccountsInv, FlowsOK

-----------------------------------------------------------------------------
(* Changes of access.                                                      *)

LEMMA AccountBegins ==
    ASSUME AccountsInv, NEW p \in Procs, NEW j \in RowJob, AA!Starts(p, j), AA!Kept,
           ScriptOK(j, DOMAIN account, lapses.torn),
           j.kind = "seed" => mode = "development",
           j.kind = "bootstrap" => /\ mode = "production" /\ ~AA!Running("bootstrap")
                                   /\ \A e \in DOMAIN account : account[e].role # "admin"
    PROVE  AccountsInv'
<1> USE DEF mode, account, record, cookie, job, flows, commands, logins, refused, led, lapses
<1>1. /\ job' = [job EXCEPT ![p] = j] /\ job[p] = AA!Idle /\ commands' \in 0..MaxCommands
      /\ UNCHANGED <<mode, account, record, cookie, flows, logins, refused, led, lapses>>
    BY AccountFacts DEF AA!Starts, AA!Kept, AccountsInv, AccountsType
<1>2. j \in Job /\ j.pc \in {"row", "writes"} /\ ~Calling(j) /\ j \notin Ending /\ ~Past(j) /\ Scripted(j)
    BY Disjoint DEF Job, Calling, Past, Scripted
<1>3. JobOK(j, DOMAIN account', lapses'.torn, flows') /\ Grows
    BY <1>1, <1>2 DEF JobOK, Grows, AccountsInv, AccountsType
<1>4. /\ job' \in [Procs -> Job] /\ JobsOK' /\ job'[p] = j
      /\ \A q \in Procs \ {p} : job'[q] = job[q]
    BY <1>1, <1>2, <1>3, JobStep
<1>5. ASSUME NEW q \in Procs, Runs(job[q], "bootstrap"), j.kind = "bootstrap" PROVE FALSE
  <2>1. job[q].pc \in {"row", "scopes", "writes"}
    BY <1>5, MyJob, Disjoint DEF Runs, Scripted
  <2> QED
    BY <1>5, <2>1 DEF AA!Running, Runs
<1>6. OneScript'
    BY <1>1, <1>4, <1>5 DEF AccountsInv, OneScript, Runs
<1>7. NobodyYet'
    BY <1>1, <1>4 DEF AccountsInv, NobodyYet, Runs
<1>8. FlowsOK'
    BY <1>1, <1>2, <1>4, PastStep
<1>9. OneSubject' /\ AdminStays' /\ AA!RolesHaveTheirScopes'
    BY <1>1, SameAccounts
<1>10. AccountsType'
    BY <1>1, <1>4 DEF AccountsInv, AccountsType
<1> QED
    BY <1>4, <1>6, <1>7, <1>8, <1>9, <1>10 DEF AccountsInv

LEMMA ShortLists ==
    /\ \A c : Len(<<c>>) = 1 /\ Head(<<c>>) = c /\ Tail(<<c>>) = <<>> /\ <<c>>[1] = c
    /\ \A c, d : /\ Len(<<c, d>>) = 2 /\ Head(<<c, d>>) = c /\ Tail(<<c, d>>) = <<d>>
                 /\ <<c, d>>[1] = c
OBVIOUS

LEMMA OneWish ==
    ASSUME NEW kind \in {"update", "bootstrap"}, NEW by \in Emails \cup {None}, NEW c \in Wish,
           NEW known, NEW torn, kind = "update" => by \in known /\ c.email \in known \ {by},
           kind = "bootstrap" => c.role = "admin" /\ c.active = TRUE /\ c.demo = FALSE
    PROVE  /\ AA!Reads(kind, by, <<c>>) \in RowJob /\ AA!Reads(kind, by, <<c>>).kind = kind
           /\ ScriptOK(AA!Reads(kind, by, <<c>>), known, torn)
<1> DEFINE j == AA!Reads(kind, by, <<c>>)
<1>1. j \in RowJob /\ j.kind = kind /\ j.pc = "row" /\ j.by = by /\ j.left = <<c>> /\ j.seen = {}
    BY DEF AA!Reads, RowJob, Kinds
<1> HIDE DEF j
<1>2. WishOK(j, c)
    BY <1>1 DEF WishOK
<1>3. One(j)
    BY <1>1, <1>2 DEF One
<1>4. ScriptOK(j, known, torn)
    BY <1>1, <1>3, ShortLists DEF ScriptOK
<1> QED
    BY <1>1, <1>4 DEF j

LEMMA UpdateUserAccessStep ==
    ASSUME AccountsInv, NEW p \in Procs, AA!UpdateUserAccess(p) PROVE AccountsInv'
<1> USE DEF mode, account, record, cookie, job, flows, commands, logins, refused, led, lapses
<1>1. PICK a \in DOMAIN account, e \in DOMAIN account, role \in AA!Roles \cup {None},
           active \in BOOLEAN \cup {None} :
         a # e /\ AA!Starts(p, AA!Reads("update", a, <<AA!Change(e, role, active, None)>>))
    BY DEF AA!UpdateUserAccess
<1> DEFINE c == AA!Change(e, role, active, None)
           j == AA!Reads("update", a, <<c>>)
<1>2. c \in Wish /\ c.email = e /\ a \in Emails
    BY DEF AA!Change, Wish, AccountsInv, AccountsType
<1>3. AA!Starts(p, j) /\ AA!Kept
    BY <1>1 DEF AA!UpdateUserAccess
<1> HIDE DEF c
<1>4. j \in RowJob /\ j.kind = "update" /\ ScriptOK(j, DOMAIN account, lapses.torn)
    BY <1>1, <1>2, OneWish
<1> HIDE DEF j
<1> QED
    BY <1>3, <1>4, AccountBegins

LEMMA BootstrapAdminStep ==
    ASSUME AccountsInv, NEW p \in Procs, AA!BootstrapAdmin(p) PROVE AccountsInv'
<1> USE DEF mode, account, record, cookie, job, flows, commands, logins, refused, led, lapses
<1>1. PICK e \in Emails :
         AA!Starts(p, AA!Reads("bootstrap", None, <<AA!Change(e, "admin", TRUE, FALSE)>>))
    BY DEF AA!BootstrapAdmin
<1> DEFINE c == AA!Change(e, "admin", TRUE, FALSE)
           j == AA!Reads("bootstrap", None, <<c>>)
<1>2. c \in Wish /\ c.role = "admin" /\ c.active = TRUE /\ c.demo = FALSE
    BY DEF AA!Change, Wish, AA!Roles
<1>3. /\ AA!Starts(p, j) /\ AA!Kept /\ mode = "production" /\ ~AA!Running("bootstrap")
      /\ \A x \in DOMAIN account : account[x].role # "admin"
    BY <1>1 DEF AA!BootstrapAdmin
<1> HIDE DEF c
<1>4. j \in RowJob /\ j.kind = "bootstrap" /\ ScriptOK(j, DOMAIN account, lapses.torn)
    BY <1>2, OneWish
<1> HIDE DEF j
<1> QED
    BY <1>3, <1>4, AccountBegins

LEMMA DemoWishes ==
    /\ User \in Wish /\ User.email = DemoUser /\ User.role = "user"
    /\ User.active = TRUE /\ User.demo = TRUE
    /\ Admin \in Wish /\ Admin.email = DemoAdmin /\ Admin.role = "admin"
    /\ Admin.active = TRUE /\ Admin.demo = TRUE
BY AccountFacts DEF User, Admin, AA!Change, Wish, AA!Roles

LEMMA EnsureDemoAccountsStep ==
    ASSUME AccountsInv, NEW p \in Procs, AA!EnsureDemoAccounts(p) PROVE AccountsInv'
<1> USE DEF mode, account, record, cookie, job, flows, commands, logins, refused, led, lapses
<1> DEFINE j == AA!Reads("seed", None, <<User, Admin>>)
<1>1. AA!Starts(p, j) /\ AA!Kept /\ mode = "development"
    BY DEF AA!EnsureDemoAccounts, User, Admin
<1>2. /\ j \in RowJob /\ j.kind = "seed" /\ j.pc = "row" /\ j.left = <<User, Admin>> /\ j.seen = {}
    BY DemoWishes DEF AA!Reads, RowJob, Kinds
<1> HIDE DEF j
<1>3. ScriptOK(j, DOMAIN account, lapses.torn)
    BY <1>2 DEF ScriptOK, Both
<1> QED
    BY <1>1, <1>2, <1>3, AccountBegins

\* A transaction that has read one more account.
Reading == [pc : {"row", "scopes"}, kind : Kinds, by : Emails \cup {None}, left : Seq(Wish),
            seen : SUBSET Look]

LEMMA SeenStep ==
    ASSUME NEW j \in Reading, NEW known, NEW torn, NEW torn2, torn \subseteq torn2,
           ScriptOK(j, known, torn), NEW old \in AA!Account \cup {None},
           LookOK([change |-> Head(j.left), old |-> old], known, torn2),
           j.kind = "update" => old # None
    PROVE  /\ AA!Seen(j, old) \in RowJob /\ AA!Seen(j, old).kind = j.kind
           /\ ScriptOK(AA!Seen(j, old), known, torn2)
<1> DEFINE l == [change |-> Head(j.left), old |-> old]
           k == AA!Seen(j, old)
<1>1. /\ j.left \in Seq(Wish) /\ j.seen \in SUBSET Look /\ j.pc # "writes"
      /\ j.kind \in Kinds /\ j.by \in Emails \cup {None}
    BY DEF Reading
<1>2. j.left # <<>>
    BY <1>1, ShortLists DEF ScriptOK, One, Both
<1>3. l \in Look /\ l.change = Head(j.left) /\ l.old = old /\ LookOK(l, known, torn2)
    BY <1>1, <1>2 DEF Look
<1>4. k = [j EXCEPT !.pc = IF Len(j.left) = 1 THEN "writes" ELSE "row", !.left = Tail(@),
                    !.seen = @ \cup {l}]
    BY DEF AA!Seen
<1>5. Tail(j.left) \in Seq(Wish)
    BY <1>1, <1>2
<1> HIDE DEF l, k
<1>6. /\ k.pc = IF Len(j.left) = 1 THEN "writes" ELSE "row"
      /\ k.kind = j.kind /\ k.by = j.by /\ k.left = Tail(j.left) /\ k.seen = j.seen \cup {l}
    BY <1>4 DEF Reading
<1>7. k \in RowJob
    BY <1>1, <1>3, <1>4, <1>5 DEF Reading, RowJob
<1>8. \A s \in k.seen : LookOK(s, known, torn2)
    BY <1>3, <1>6 DEF ScriptOK, LookOK
<1>9. k.pc \in {"row", "writes"}
    BY <1>6
<1>10. CASE j.kind # "seed"
  <2>1. PICK c \in Wish : WishOK(j, c) /\ j.left = <<c>> /\ j.seen = {}
    BY <1>1, <1>10 DEF ScriptOK, One
  <2>2. k.pc = "writes" /\ k.left = <<>> /\ k.seen = {l} /\ l.change = c /\ WishOK(k, c)
    BY <1>3, <1>6, <2>1, ShortLists DEF WishOK
  <2>3. One(k)
    BY <2>2 DEF One
  <2>4. k.kind = "update" => k.by \in known /\ l.old # None
    BY <1>3, <1>6 DEF ScriptOK
  <2> QED
    BY <1>6, <1>7, <1>8, <1>9, <1>10, <2>2, <2>3, <2>4 DEF ScriptOK, k
<1>11. CASE j.kind = "seed"
  <2>1. Both(k)
    <3>1. CASE j.left = <<User, Admin>> /\ j.seen = {}
      <4>1. k.pc = "row" /\ k.left = <<Admin>> /\ k.seen = {l} /\ l.change = User
        BY <1>3, <1>6, <3>1, ShortLists
      <4> QED
        BY <4>1 DEF Both
    <3>2. CASE j.left = <<Admin>> /\ \E s \in j.seen : j.seen = {s} /\ s.change = User
      <4>1. PICK s \in j.seen : j.seen = {s} /\ s.change = User
        BY <3>2
      <4>2. k.pc = "writes" /\ k.left = <<>> /\ k.seen = {s, l} /\ l.change = Admin
        BY <1>3, <1>6, <3>2, <4>1, ShortLists
      <4> QED
        BY <4>1, <4>2 DEF Both
    <3> QED
      BY <1>1, <1>11, <3>1, <3>2 DEF ScriptOK, Both
  <2> QED
    BY <1>6, <1>7, <1>8, <1>9, <1>11, <2>1 DEF ScriptOK, k
<1> QED
    BY <1>10, <1>11

LEMMA ScriptGoesOn ==
    ASSUME AccountsInv, NEW p \in Procs, NEW j \in RowJob \cup HalfJob, job' = [job EXCEPT ![p] = j],
           Scripted(job[p]), j.kind = job[p].kind, ScriptOK(j, DOMAIN account, lapses'.torn),
           lapses' \in Lapses, lapses.torn \subseteq lapses'.torn, lapses'.stale = lapses.stale,
           lapses'.raced = lapses.raced, lapses'.linked = lapses.linked,
           UNCHANGED <<mode, account, record, cookie, flows, commands, logins, refused, led>>
    PROVE  AccountsInv'
<1> USE DEF mode, account, record, cookie, job, flows, commands, logins, refused, led, lapses
<1>1. j \in Job /\ ~Calling(j) /\ j \notin Ending /\ ~Past(j) /\ Scripted(j)
    BY Disjoint DEF Job, Calling, Past, Scripted
<1>2. JobOK(j, DOMAIN account', lapses'.torn, flows') /\ Grows
    BY <1>1 DEF JobOK, Grows, AccountsInv, AccountsType
<1>3. /\ job' \in [Procs -> Job] /\ JobsOK' /\ job'[p] = j
      /\ \A q \in Procs \ {p} : job'[q] = job[q]
    BY <1>1, <1>2, JobStep
<1>4. /\ OneScript'
      /\ \A k \in {"bootstrap", "seed"}, q \in Procs : Runs(job'[q], k) => Runs(job[q], k)
    BY <1>3, ScriptStep DEF Runs
<1>5. FlowsOK'
    BY <1>1, <1>3, PastStep
<1>6. OneSubject' /\ AdminStays' /\ AA!RolesHaveTheirScopes' /\ NobodyYet'
    BY <1>4, SameAccounts, SameNobody
<1>7. AccountsType'
    BY <1>3 DEF AccountsInv, AccountsType
<1> QED
    BY <1>3, <1>4, <1>5, <1>6, <1>7 DEF AccountsInv

\* The same transaction at another point of its reading.
LEMMA SameReading ==
    ASSUME NEW j, NEW k, NEW known, NEW torn, ScriptOK(j, known, torn),
           j.pc \in {"row", "scopes"}, k.pc \in {"row", "scopes"}, k.kind = j.kind, k.by = j.by,
           k.left = j.left, k.seen = j.seen, k.pc = "scopes" => k.left[1].email \in known
    PROVE  ScriptOK(k, known, torn)
<1>1. j.kind # "seed" => One(k)
    BY DEF ScriptOK, One, WishOK
<1>2. j.kind = "seed" => Both(k)
    BY DEF ScriptOK, Both
<1> QED
    BY <1>1, <1>2 DEF ScriptOK

LEMMA ReadsRowStep == ASSUME AccountsInv, NEW p \in Procs, AA!ReadsRow(p) PROVE AccountsInv'
<1> USE DEF mode, account, record, cookie, job, flows, commands, logins, refused, led, lapses
<1> DEFINE j == job[p]
           e == Head(j.left).email
           half == [pc |-> "scopes", kind |-> j.kind, by |-> j.by, left |-> j.left, seen |-> j.seen,
                    row |-> account[e]]
<1>1. /\ j.pc = "row" /\ job' = [job EXCEPT ![p] = IF e \notin DOMAIN account THEN AA!Seen(j, None) ELSE half]
      /\ UNCHANGED <<mode, account, record, cookie, flows, commands, logins, refused, led, lapses>>
    BY DEF AA!ReadsRow, AA!Goes, AA!At, AA!Kept
<1>2. j \in RowJob /\ JobOK(j, DOMAIN account, lapses.torn, flows)
    BY <1>1, MyJob, Disjoint
<1>3. Scripted(j) /\ ScriptOK(j, DOMAIN account, lapses.torn)
    BY <1>2 DEF JobOK, Scripted
<1>4. lapses \in Lapses
    BY DEF AccountsInv, AccountsType
<1>5. CASE e \notin DOMAIN account
  <2>1. j \in Reading /\ j.kind # "update"
    BY <1>1, <1>2, <1>3, <1>5, ShortLists DEF Reading, RowJob, ScriptOK, One
  <2>2. LookOK([change |-> Head(j.left), old |-> None], DOMAIN account, lapses.torn)
    BY DEF LookOK
  <2>3. /\ AA!Seen(j, None) \in RowJob /\ AA!Seen(j, None).kind = j.kind
        /\ ScriptOK(AA!Seen(j, None), DOMAIN account, lapses.torn)
    BY <1>3, <2>1, <2>2, SeenStep
  <2>4. job' = [job EXCEPT ![p] = AA!Seen(j, None)]
    BY <1>1, <1>5
  <2> QED
    BY <1>1, <1>3, <1>4, <2>3, <2>4, ScriptGoesOn
<1>6. CASE e \in DOMAIN account
  <2>1. half \in HalfJob /\ half.kind = j.kind
    BY <1>2, <1>6 DEF RowJob, HalfJob, AccountsInv, AccountsType
  <2>2. /\ half.pc = "scopes" /\ half.by = j.by /\ half.left = j.left /\ half.seen = j.seen
        /\ half.left[1].email \in DOMAIN account
    BY <1>2, <1>6 DEF RowJob
  <2>3. job' = [job EXCEPT ![p] = half]
    BY <1>1, <1>6
  <2> HIDE DEF half
  <2>4. ScriptOK(half, DOMAIN account, lapses.torn)
    BY <1>1, <1>3, <2>1, <2>2, SameReading
  <2> QED
    BY <1>1, <1>3, <1>4, <2>1, <2>3, <2>4, ScriptGoesOn
<1> QED
    BY <1>5, <1>6

LEMMA ReadsScopesStep == ASSUME AccountsInv, NEW p \in Procs, AA!ReadsScopes(p) PROVE AccountsInv'
<1> USE DEF mode, account, record, cookie, job, flows, commands, logins, refused, led, lapses
<1> DEFINE j == job[p]
           e == Head(j.left).email
           read == [pc |-> "scopes", kind |-> j.kind, by |-> j.by, left |-> j.left, seen |-> j.seen]
           old == [j.row EXCEPT !.scopes = account[e].scopes, !.local = account[e].local]
<1>1. /\ j.pc = "scopes" /\ job' = [job EXCEPT ![p] = AA!Seen(read, old)]
      /\ lapses' = IF account[e].role = j.row.role THEN lapses
                   ELSE [lapses EXCEPT !.torn = @ \cup {e}]
      /\ UNCHANGED <<mode, account, record, cookie, flows, commands, logins, refused, led>>
    BY DEF AA!ReadsScopes, AA!Goes, AA!At
<1>2. j \in HalfJob /\ JobOK(j, DOMAIN account, lapses.torn, flows)
    BY <1>1, MyJob, Disjoint
<1>3. Scripted(j) /\ ScriptOK(j, DOMAIN account, lapses.torn)
    BY <1>2 DEF JobOK, Scripted
<1>4. j.left # <<>> /\ j.left \in Seq(Wish) /\ j.left[1].email \in DOMAIN account
    BY <1>1, <1>2, <1>3, ShortLists DEF ScriptOK, One, Both, HalfJob
<1>5. e \in DOMAIN account /\ e \in Emails /\ account[e] \in AA!Account
    BY <1>4 DEF AccountsInv, AccountsType
<1>6. read \in Reading /\ read.kind = j.kind /\ read.left = j.left
    BY <1>2 DEF Reading, HalfJob
<1>7. ScriptOK(read, DOMAIN account, lapses.torn)
    BY <1>1, <1>3, <1>4, SameReading
<1>8. old \in AA!Account /\ old # None /\ old.scopes = account[e].scopes /\ old.role = j.row.role
  <2>1. j.row \in AA!Account
    BY <1>2 DEF HalfJob
  <2>2. \A k : k \in AA!Account => k # None
    BY AccountFacts
  <2>3. old \in AA!Account /\ old.scopes = account[e].scopes /\ old.role = j.row.role
    <3> DEFINE k == j.row
               l == account[e]
    <3>1. k \in AA!Account /\ l \in AA!Account /\ old = [k EXCEPT !.scopes = l.scopes, !.local = l.local]
      BY <1>5, <2>1
    <3> HIDE DEF k, l, old
    <3>2. old \in AA!Account /\ old.scopes = l.scopes /\ old.role = k.role
      BY <3>1 DEF AA!Account
    <3> QED
      BY <3>2 DEF k, l
  <2> QED
    BY <2>2, <2>3
<1>9. /\ lapses' \in Lapses /\ lapses.torn \subseteq lapses'.torn /\ lapses'.stale = lapses.stale
      /\ lapses'.raced = lapses.raced /\ lapses'.linked = lapses.linked
      /\ e \notin lapses'.torn => account[e].role = j.row.role
    BY <1>1, <1>5 DEF AccountsInv, AccountsType, Lapses
<1> HIDE DEF read, old
<1>10. e \notin lapses'.torn => old.scopes = AA!ScopesOf(old.role)
    BY <1>5, <1>8, <1>9 DEF AccountsInv, AA!RolesHaveTheirScopes
<1>11. LookOK([change |-> Head(read.left), old |-> old], DOMAIN account, lapses'.torn)
    BY <1>5, <1>6, <1>10 DEF LookOK
<1>12. /\ AA!Seen(read, old) \in RowJob /\ AA!Seen(read, old).kind = j.kind
       /\ ScriptOK(AA!Seen(read, old), DOMAIN account, lapses'.torn)
    BY <1>6, <1>7, <1>8, <1>9, <1>11, SeenStep
<1> QED
    BY <1>1, <1>3, <1>9, <1>12, ScriptGoesOn

-----------------------------------------------------------------------------
(* A transaction writes.                                                   *)

LEMMA ChangedFields ==
    ASSUME NEW j, NEW now \in AA!Account, NEW c \in Wish, NEW old \in AA!Account
    PROVE  /\ AA!Changed(j, now, c, old) \in AA!Account
           /\ AA!Changed(j, now, c, old).role = AA!Set(now.role, old.role, c.role)
           /\ AA!Changed(j, now, c, old).active = AA!Set(now.active, old.active, c.active)
           /\ AA!Changed(j, now, c, old).scopes =
                AA!ScopesSet(now.scopes, old.scopes, AA!Wanted(c, old))
           /\ AA!Changed(j, now, c, old).subjects = now.subjects
<1> DEFINE role == AA!Set(now.role, old.role, c.role)
           active == AA!Set(now.active, old.active, c.active)
           demo == AA!Set(now.demo, old.demo, c.demo)
           local == now.local \/ j.kind # "update"
           scopes == AA!ScopesSet(now.scopes, old.scopes, AA!Wanted(c, old))
<1>1. role \in AA!Roles
    BY DEF AA!Set, Wish, AA!Account
<1>2. active \in BOOLEAN /\ demo \in BOOLEAN
    BY DEF AA!Set, Wish, AA!Account
<1>3. local \in BOOLEAN
    BY DEF AA!Account
<1>4. scopes \in SUBSET AA!Scopes
    BY DEF AA!ScopesSet, AA!Wanted, AA!ScopesOf, AA!Scopes, AA!Account
<1>5. AA!Changed(j, now, c, old) =
        [now EXCEPT !.role = role, !.active = active, !.demo = demo, !.local = local, !.scopes = scopes]
    BY DEF AA!Changed, AA!Account
<1> HIDE DEF role, active, demo, local, scopes
<1>6. /\ AA!Changed(j, now, c, old) \in AA!Account
      /\ AA!Changed(j, now, c, old).role = role /\ AA!Changed(j, now, c, old).active = active
      /\ AA!Changed(j, now, c, old).scopes = scopes
      /\ AA!Changed(j, now, c, old).subjects = now.subjects
    BY <1>1, <1>2, <1>3, <1>4, <1>5 DEF AA!Account
<1> QED
    BY <1>6 DEF role, active, scopes

\* What was read and what there is had the scopes of their roles: what is written has.
LEMMA ChangedScopes ==
    ASSUME NEW j, NEW now \in AA!Account, NEW c \in Wish, NEW old \in AA!Account,
           now.scopes = AA!ScopesOf(now.role), old.scopes = AA!ScopesOf(old.role),
           (AA!Wanted(c, old) \ old.scopes) \cap now.scopes = {}
    PROVE  AA!Changed(j, now, c, old).scopes = AA!ScopesOf(AA!Changed(j, now, c, old).role)
<1>1. now.role \in AA!Roles /\ old.role \in AA!Roles /\ c.role \in AA!Roles \cup {None}
    BY DEF AA!Account, Wish
<1>2. SUFFICES AA!ScopesSet(now.scopes, old.scopes, AA!Wanted(c, old))
                 = AA!ScopesOf(AA!Set(now.role, old.role, c.role))
    BY ChangedFields
<1>3. CASE c.role = None \/ c.role = old.role
  <2>1. AA!Wanted(c, old) = old.scopes /\ AA!Set(now.role, old.role, c.role) = now.role
    BY <1>3 DEF AA!Wanted, AA!Set
  <2> QED
    BY <2>1 DEF AA!ScopesSet
<1>4. CASE c.role = "admin" /\ old.role = "user"
  <2>1. /\ AA!Wanted(c, old) = {"standard", "admin"} /\ old.scopes = {"standard"}
        /\ AA!Set(now.role, old.role, c.role) = "admin"
    BY <1>4, AccountFacts DEF AA!Wanted, AA!Set, AA!ScopesOf, AA!Scopes, AA!Roles
  <2>2. "admin" \notin now.scopes
    BY <2>1
  <2>3. now.scopes = {"standard"}
    BY <1>1, <2>2 DEF AA!ScopesOf, AA!Scopes, AA!Roles
  <2> QED
    BY <2>1, <2>3 DEF AA!ScopesSet, AA!ScopesOf, AA!Scopes
<1>5. CASE c.role = "user" /\ old.role = "admin"
  <2>1. /\ AA!Wanted(c, old) = {"standard"} /\ old.scopes = {"standard", "admin"}
        /\ AA!Set(now.role, old.role, c.role) = "user"
    BY <1>5, AccountFacts DEF AA!Wanted, AA!Set, AA!ScopesOf, AA!Scopes, AA!Roles
  <2>2. now.scopes = {"standard"} \/ now.scopes = {"standard", "admin"}
    BY <1>1 DEF AA!ScopesOf, AA!Scopes, AA!Roles
  <2> QED
    BY <2>1, <2>2 DEF AA!ScopesSet, AA!ScopesOf
<1> QED
    BY <1>1, <1>3, <1>4, <1>5 DEF AA!Roles

\* A script leaves an administrator who can change access.
LEMMA MadeAdmin ==
    ASSUME NEW j, NEW now \in AA!Account, NEW c \in Wish, NEW old \in AA!Account,
           c.role = "admin", c.active = TRUE, AA!SameAccess(old, now)
    PROVE  AA!CanWrite(AA!Changed(j, now, c, old))
<1>1. AA!Set(now.role, old.role, c.role) = "admin" /\ AA!Set(now.active, old.active, c.active) = TRUE
    BY AccountFacts DEF AA!Set, AA!SameAccess, AA!Roles
<1>2. AA!Wanted(c, old) = {"standard", "admin"}
    BY AccountFacts DEF AA!Wanted, AA!ScopesOf, AA!Scopes, AA!Roles
<1>3. "admin" \in AA!ScopesSet(now.scopes, old.scopes, AA!Wanted(c, old))
    BY <1>2 DEF AA!ScopesSet, AA!SameAccess
<1> QED
    BY <1>1, <1>3, ChangedFields DEF AA!CanWrite

\* No account is read twice.
LEMMA OneLook ==
    ASSUME NEW j, NEW known, NEW torn, ScriptOK(j, known, torn),
           NEW s \in j.seen, NEW r \in j.seen, s.change.email = r.change.email
    PROVE  s = r
<1>1. CASE j.kind # "seed"
    BY <1>1 DEF ScriptOK, One
<1>2. CASE j.kind = "seed"
    BY <1>2, DemoWishes, AccountFacts DEF ScriptOK, Both
<1> QED
    BY <1>1, <1>2

\* What is wanted of an account that is new.
LEMMA Wished ==
    ASSUME NEW j \in RowJob, NEW known, NEW torn, ScriptOK(j, known, torn), j.pc = "writes", NEW s \in j.seen
    PROVE  /\ s \in Look /\ s.change \in Wish
           /\ s.old = None => s.change.role \in AA!Roles /\ s.change.demo \in BOOLEAN
           /\ j.kind = "update" => s.change.email # j.by
<1>1. s \in Look /\ s.change \in Wish
    BY DEF RowJob, Look
<1>2. CASE j.kind = "seed"
  <2>1. s.change = User \/ s.change = Admin
    BY <1>2 DEF ScriptOK, Both
  <2> QED
    BY <1>1, <1>2, <2>1, DemoWishes DEF AA!Roles
<1>3. CASE j.kind # "seed"
  <2>1. WishOK(j, s.change) /\ (j.kind = "update" => s.old # None)
    BY <1>3 DEF ScriptOK, One
  <2> QED
    BY <1>1, <1>3, <2>1 DEF WishOK, RowJob, Kinds, AA!Roles
<1> QED
    BY <1>2, <1>3

LEMMA Written ==
    ASSUME AccountsInv, NEW p \in Procs, AA!Writes(p)
    PROVE  /\ job[p] \in RowJob /\ job[p].pc = "writes" /\ ScriptOK(job[p], DOMAIN account, lapses.torn)
           /\ DOMAIN account' = DOMAIN account \cup {s.change.email : s \in job[p].seen}
           /\ \A e \in DOMAIN account :
                 (\A s \in job[p].seen : s.change.email # e) => account'[e] = account[e]
           /\ \A s \in job[p].seen :
                 /\ AA!Fits(s)
                 /\ account'[s.change.email] =
                      IF s.old = None THEN AA!NewAccount(s.change.role, s.change.demo, TRUE, {})
                      ELSE AA!Changed(job[p], account[s.change.email], s.change, s.old)
<1> USE DEF mode, account, record, cookie, job, flows, commands, logins, refused, led, lapses
<1> DEFINE j == job[p]
           SeenOf(e) == CHOOSE s \in j.seen : s.change.email = e
           touched == {s.change.email : s \in j.seen}
           after == [e \in DOMAIN account \cup touched |->
                       IF e \notin touched THEN account[e]
                       ELSE IF SeenOf(e).old = None
                       THEN AA!NewAccount(SeenOf(e).change.role, SeenOf(e).change.demo, TRUE, {})
                       ELSE AA!Changed(j, account[e], SeenOf(e).change, SeenOf(e).old)]
<1>1. j.pc = "writes" /\ (\A s \in j.seen : AA!Fits(s)) /\ account' = after
    BY DEF AA!Writes, AA!At
<1>2. j \in RowJob /\ ScriptOK(j, DOMAIN account, lapses.torn)
    BY <1>1, MyJob, Disjoint DEF JobOK, Scripted
<1>3. ASSUME NEW s \in j.seen PROVE SeenOf(s.change.email) = s
  <2>1. \E r \in j.seen : r.change.email = s.change.email
    OBVIOUS
  <2>2. SeenOf(s.change.email) \in j.seen /\ SeenOf(s.change.email).change.email = s.change.email
    BY <2>1, Zenon
  <2> QED
    BY <1>2, <2>2, OneLook
<1> HIDE DEF SeenOf
<1>4. \A s \in j.seen : s.change.email \in touched
    OBVIOUS
<1>5. \A e \in DOMAIN account : (\A s \in j.seen : s.change.email # e) => e \notin touched
    OBVIOUS
<1> HIDE DEF touched
<1>6. /\ DOMAIN account' = DOMAIN account \cup touched
      /\ \A e \in DOMAIN account \ touched : account'[e] = account[e]
    BY <1>1
<1>7. ASSUME NEW s \in j.seen
      PROVE  account'[s.change.email] =
               IF s.old = None THEN AA!NewAccount(s.change.role, s.change.demo, TRUE, {})
               ELSE AA!Changed(j, account[s.change.email], s.change, s.old)
    BY <1>1, <1>3, <1>4
<1> QED
    BY <1>1, <1>2, <1>5, <1>6, <1>7 DEF touched

LEMMA WrittenOne ==
    ASSUME AccountsInv, NEW p \in Procs, AA!Writes(p), NEW s \in job[p].seen
    PROVE  /\ s.change.email \in Emails /\ account'[s.change.email] \in AA!Account
           /\ IF s.old = None
              THEN s.change.email \notin DOMAIN account /\ account'[s.change.email].subjects = {}
              ELSE /\ s.change.email \in DOMAIN account
                   /\ account'[s.change.email].subjects = account[s.change.email].subjects
           /\ s.change.email \notin lapses.torn =>
                account'[s.change.email].scopes = AA!ScopesOf(account'[s.change.email].role)
<1> USE DEF account, lapses
<1> DEFINE e == s.change.email
           now == account[e]
<1>1. /\ job[p] \in RowJob /\ job[p].pc = "writes" /\ ScriptOK(job[p], DOMAIN account, lapses.torn)
      /\ AA!Fits(s)
      /\ account'[e] = IF s.old = None THEN AA!NewAccount(s.change.role, s.change.demo, TRUE, {})
                       ELSE AA!Changed(job[p], now, s.change, s.old)
    BY Written
<1>2. /\ s \in Look /\ s.change \in Wish /\ e \in Emails
      /\ s.old = None => s.change.role \in AA!Roles /\ s.change.demo \in BOOLEAN
    BY <1>1, Wished DEF Wish
<1>3. LookOK(s, DOMAIN account, lapses.torn)
    BY <1>1 DEF ScriptOK
<1>4. CASE s.old = None
  <2> DEFINE a == AA!NewAccount(s.change.role, s.change.demo, TRUE, {})
  <2>1. a \in AA!Account /\ a.role = s.change.role /\ a.scopes = AA!ScopesOf(s.change.role) /\ a.subjects = {}
    BY <1>2, <1>4 DEF AA!NewAccount, AA!Account, AA!ScopesOf, AA!Scopes
  <2>2. e \notin DOMAIN account /\ account'[e] = a
    BY <1>1, <1>4 DEF AA!Fits
  <2> QED
    BY <1>2, <1>4, <2>1, <2>2
<1>5. CASE s.old # None
  <2> DEFINE a == AA!Changed(job[p], now, s.change, s.old)
  <2>1. /\ e \in DOMAIN account /\ (e \notin lapses.torn => s.old.scopes = AA!ScopesOf(s.old.role))
        /\ account'[e] = a /\ s.old \in AA!Account
    BY <1>1, <1>2, <1>3, <1>5 DEF LookOK, Look
  <2>2. now \in AA!Account
    BY <2>1 DEF AccountsInv, AccountsType
  <2>3. a \in AA!Account /\ a.subjects = now.subjects
    BY <1>2, <2>1, <2>2, ChangedFields
  <2>4. ASSUME e \notin lapses.torn PROVE a.scopes = AA!ScopesOf(a.role)
    <3>1. now.scopes = AA!ScopesOf(now.role)
      BY <2>1, <2>4 DEF AccountsInv, AA!RolesHaveTheirScopes
    <3>2. (AA!Wanted(s.change, s.old) \ s.old.scopes) \cap now.scopes = {}
      BY <1>1, <1>5 DEF AA!Fits
    <3> QED
      BY <1>2, <2>1, <2>2, <2>4, <3>1, <3>2, ChangedScopes
  <2> HIDE DEF a, now
  <2> QED
    BY <1>2, <1>5, <2>1, <2>3, <2>4 DEF now
<1> QED
    BY <1>4, <1>5

\* Who changes another is not changed, and a script makes an administrator.
LEMMA AdminWritten ==
    ASSUME AccountsInv, NEW p \in Procs, AA!Writes(p), ~AA!Outdated(job[p])
    PROVE  \E e \in DOMAIN account' : AA!CanWrite(account'[e])
<1> USE DEF account, lapses
<1> DEFINE j == job[p]
<1>1. /\ j \in RowJob /\ j.pc = "writes" /\ ScriptOK(j, DOMAIN account, lapses.torn)
      /\ DOMAIN account' = DOMAIN account \cup {s.change.email : s \in j.seen}
      /\ \A e \in DOMAIN account :
            (\A s \in j.seen : s.change.email # e) => account'[e] = account[e]
      /\ \A s \in j.seen :
            account'[s.change.email] =
              IF s.old = None THEN AA!NewAccount(s.change.role, s.change.demo, TRUE, {})
              ELSE AA!Changed(j, account[s.change.email], s.change, s.old)
    BY Written
<1> HIDE DEF j
<1>2. CASE j.kind = "update"
  <2>1. AA!CanWrite(account[j.by]) /\ j.by \in DOMAIN account
    BY <1>1, <1>2 DEF AA!Outdated, ScriptOK, j
  <2>2. \A s \in j.seen : s.change.email # j.by
    BY <1>1, <1>2, Wished
  <2> QED
    BY <1>1, <2>1, <2>2
<1>3. CASE j.kind # "update"
  <2>1. PICK s \in j.seen : s.change.role = "admin" /\ s.change.active = TRUE
    <3>1. CASE j.kind = "seed"
      BY <1>1, <3>1, DemoWishes DEF ScriptOK, Both
    <3>2. CASE j.kind # "seed"
      <4>1. j.kind = "bootstrap"
        BY <1>1, <1>3, <3>2 DEF RowJob, Kinds
      <4> QED
        BY <1>1, <3>2, <4>1 DEF ScriptOK, One, WishOK
    <3> QED
      BY <3>1, <3>2
  <2>2. s \in Look /\ s.change \in Wish
    BY <1>1, Wished
  <2>3. CASE s.old = None
    <3>1. account'[s.change.email] = AA!NewAccount("admin", s.change.demo, TRUE, {})
      BY <1>1, <2>1, <2>3
    <3>2. AA!CanWrite(account'[s.change.email])
      BY <3>1 DEF AA!CanWrite, AA!NewAccount, AA!ScopesOf, AA!Scopes
    <3> QED
      BY <1>1, <3>2
  <2>4. CASE s.old # None
    <3>1. s.change.email \in DOMAIN account /\ s.old \in AA!Account
      BY <1>1, <2>2, <2>4 DEF ScriptOK, LookOK, Look
    <3>2. account[s.change.email] \in AA!Account
      BY <3>1 DEF AccountsInv, AccountsType
    <3>3. AA!SameAccess(s.old, account[s.change.email])
      BY <1>3, <2>4 DEF AA!Outdated, j
    <3>4. AA!CanWrite(AA!Changed(j, account[s.change.email], s.change, s.old))
      BY <2>1, <2>2, <3>1, <3>2, <3>3, MadeAdmin
    <3>5. AA!CanWrite(account'[s.change.email])
      BY <1>1, <2>4, <3>4
    <3> QED
      BY <1>1, <3>5
  <2> QED
    BY <2>3, <2>4
<1> QED
    BY <1>2, <1>3

LEMMA WritesStep == ASSUME AccountsInv, NEW p \in Procs, AA!Writes(p) PROVE AccountsInv'
<1> USE DEF mode, account, record, cookie, job, flows, commands, logins, refused, led, lapses
<1> DEFINE j == job[p]
<1>1. /\ j \in RowJob /\ ScriptOK(j, DOMAIN account, lapses.torn) /\ Scripted(j)
      /\ DOMAIN account' = DOMAIN account \cup {s.change.email : s \in j.seen}
      /\ \A e \in DOMAIN account :
            (\A s \in j.seen : s.change.email # e) => account'[e] = account[e]
    BY Written DEF Scripted
<1>2. /\ job' = [job EXCEPT ![p] = AA!Idle] /\ lapses' = [lapses EXCEPT !.stale = @ \/ AA!Outdated(j)]
      /\ UNCHANGED <<mode, record, cookie, flows, commands, logins, refused>>
    BY DEF AA!Writes, AA!Goes
<1>3. led' = (led \/ \E e \in DOMAIN account' : AA!CanWrite(account'[e]))
    BY DEF AA!Writes
<1>4. AA!Outdated(j) \in BOOLEAN
    BY DEF AA!Outdated
<1>5. /\ lapses' \in Lapses /\ lapses'.torn = lapses.torn /\ lapses'.raced = lapses.raced
      /\ lapses'.linked = lapses.linked
      /\ lapses'.stale = FALSE => lapses.stale = FALSE /\ ~AA!Outdated(j)
    BY <1>2, <1>4 DEF AccountsInv, AccountsType, Lapses
<1>6. led' \in BOOLEAN
    BY <1>3 DEF AccountsInv, AccountsType
<1>7. AA!Idle \in Job /\ ~Past(AA!Idle) /\ ~Scripted(AA!Idle) /\ flows \in Nat
    BY IdleJob, AccountFacts DEF AccountsInv, AccountsType
<1>8. Grows
    BY <1>1, <1>2, <1>5, <1>7 DEF Grows
<1>9. /\ job' \in [Procs -> Job] /\ JobsOK' /\ job'[p] = AA!Idle
      /\ \A q \in Procs \ {p} : job'[q] = job[q]
    BY <1>2, <1>7, <1>8, IdleJob, JobStep
<1>10. /\ OneScript'
       /\ \A k \in {"bootstrap", "seed"}, q \in Procs : Runs(job'[q], k) => Runs(job[q], k)
    BY <1>2, <1>7, <1>9, ScriptStep DEF Runs
<1>11. FlowsOK'
    BY <1>2, <1>5, <1>7, <1>9, PastStep
<1>12. \A e \in DOMAIN account' :
         \/ e \in DOMAIN account /\ account'[e] = account[e]
         \/ \E s \in j.seen : s.change.email = e
    BY <1>1
<1>13. \A e \in DOMAIN account' : e \in Emails /\ account'[e] \in AA!Account
    BY <1>12, WrittenOne DEF AccountsInv, AccountsType
<1>14. account' \in [DOMAIN account' -> AA!Account]
    BY <1>13 DEF AA!Writes
<1>15. AccountsType'
    BY <1>2, <1>5, <1>6, <1>9, <1>13, <1>14 DEF AccountsInv, AccountsType
<1>16. \A e \in DOMAIN account' :
          \/ e \in DOMAIN account /\ account'[e].subjects = account[e].subjects
          \/ account'[e].subjects = {}
    BY <1>12, WrittenOne
<1>17. OneSubject'
    BY <1>5, <1>16 DEF AccountsInv, OneSubject
<1>18. AA!RolesHaveTheirScopes'
  <2>1. ASSUME NEW e \in DOMAIN account', e \notin lapses.torn
        PROVE  account'[e].scopes = AA!ScopesOf(account'[e].role)
    BY <1>12, <2>1, WrittenOne DEF AccountsInv, AA!RolesHaveTheirScopes
  <2> QED
    BY <1>5, <2>1 DEF AA!RolesHaveTheirScopes
<1>19. AdminStays'
    BY <1>5, AdminWritten DEF AdminStays
<1>20. NobodyYet'
  <2>1. SUFFICES ASSUME lapses'.stale = FALSE, NEW q \in Procs, Runs(job'[q], "bootstrap")
                 PROVE  FALSE
    BY DEF NobodyYet
  <2>2. Runs(job[q], "bootstrap") /\ q # p
    BY <1>7, <1>9, <1>10, <2>1 DEF Runs
  <2>3. \A e \in DOMAIN account : account[e].role # "admin"
    BY <1>5, <2>1, <2>2 DEF AccountsInv, NobodyYet
  <2>4. j.kind = "update"
    BY <1>1, <2>2 DEF AccountsInv, OneScript, Runs, RowJob, Kinds
  <2>5. j.by \in DOMAIN account /\ AA!CanWrite(account[j.by])
    BY <1>1, <1>5, <2>1, <2>4 DEF ScriptOK, AA!Outdated
  <2> QED
    BY <2>3, <2>5 DEF AA!CanWrite
<1> QED
    BY <1>9, <1>10, <1>11, <1>15, <1>17, <1>18, <1>19, <1>20 DEF AccountsInv

-----------------------------------------------------------------------------
(* The theorem. *)

LEMMA AccountsStep == AccountsInv /\ [AA!Next]_(AA!vars) => AccountsInv'
<1> SUFFICES ASSUME AccountsInv, [AA!Next]_(AA!vars) PROVE AccountsInv'
    OBVIOUS
<1>1. CASE UNCHANGED AA!vars
  <2> USE DEF mode, account, record, cookie, job, flows, commands, logins, refused, led, lapses
  <2>1. UNCHANGED <<mode, account, record, cookie, job, flows, commands, logins, refused, led, lapses>>
    BY <1>1 DEF AA!vars
  <2>2. AccountsType' /\ JobsOK' /\ OneScript' /\ FlowsOK'
    BY <2>1 DEF AccountsInv, AccountsType, JobsOK, OneScript, FlowsOK, PastOK, CountsOK
  <2> QED
    BY <2>1, <2>2, SameAccounts, SameNobody DEF AccountsInv
<1>2. CASE AA!OAuthStart \/ AA!CookieExpires
    BY <1>2, CookieStep
<1>3. ASSUME NEW e \in Emails, AA!Register(e) PROVE AccountsInv'
    BY <1>3, RegisterStep
<1>4. ASSUME NEW p \in Procs,
             \/ AA!Callback(p) \/ AA!FindsReplay(p) \/ AA!FindsUnused(p) \/ AA!Consumes(p)
             \/ AA!ConsumeFails(p) \/ AA!Authenticated(p) \/ AA!FindsIdentity(p)
             \/ AA!FindsNoIdentity(p) \/ AA!FindsEmail(p) \/ AA!FindsNoEmail(p)
             \/ AA!SignsIn(p) \/ AA!SignInFails(p)
      PROVE  AccountsInv'
    BY <1>4, CallbackStep, FindsReplayStep, FindsUnusedStep, ConsumesStep, ConsumeFailsStep,
       AuthenticatedStep, FindsNoIdentityStep, LooksUpStep, SignsInStep, GivesUpStep
<1>5. ASSUME NEW p \in Procs,
             \/ AA!UpdateUserAccess(p) \/ AA!BootstrapAdmin(p) \/ AA!EnsureDemoAccounts(p)
             \/ AA!ReadsRow(p) \/ AA!ReadsScopes(p) \/ AA!Writes(p) \/ AA!Abandon(p)
      PROVE  AccountsInv'
    BY <1>5, UpdateUserAccessStep, BootstrapAdminStep, EnsureDemoAccountsStep, ReadsRowStep,
       ReadsScopesStep, WritesStep, GivesUpStep
<1> QED
    BY <1>1, <1>2, <1>3, <1>4, <1>5 DEF AA!Next

\* Of the invariant's sets, the least have at most one member.
LEMMA AtMostOne == ASSUME NEW S, \A s, r \in S : s = r PROVE Cardinality(S) <= 1
<1>1. CASE S = {}
    BY <1>1, FS_EmptySet
<1>2. CASE S # {}
  <2>1. PICK s \in S : S = {s}
    BY <1>2
  <2> QED
    BY <2>1, FS_Singleton
<1> QED
    BY <1>1, <1>2

LEMMA InvHolds ==
    AccountsInv => /\ AA!RolesHaveTheirScopes /\ AA!AdminRemains /\ AA!BootstrapIsFirst
                   /\ AA!OneIdentity /\ AA!ConsumedOnce
<1> SUFFICES ASSUME AccountsInv
             PROVE  /\ AA!RolesHaveTheirScopes /\ AA!AdminRemains /\ AA!BootstrapIsFirst
                    /\ AA!OneIdentity /\ AA!ConsumedOnce
    OBVIOUS
<1> USE DEF mode, account, record, cookie, job, flows, commands, logins, refused, led, lapses
<1>1. led \in BOOLEAN /\ lapses.stale \in BOOLEAN
    BY DEF AccountsInv, AccountsType, Lapses
<1>2. AA!AdminRemains
    BY <1>1 DEF AccountsInv, AdminStays, AA!AdminRemains
<1>3. AA!BootstrapIsFirst
  <2>1. SUFFICES ASSUME NEW p \in Procs, job[p].pc \in {"row", "scopes", "writes"},
                        job[p].kind = "bootstrap", ~lapses.stale
                 PROVE  \A e \in DOMAIN account : account[e].role # "admin"
    BY DEF AA!BootstrapIsFirst, AA!Running
  <2>2. Runs(job[p], "bootstrap")
    BY <2>1, MyJob, Disjoint DEF Runs, Scripted
  <2> QED
    BY <1>1, <2>1, <2>2 DEF AccountsInv, NobodyYet
<1>4. AA!OneIdentity
  <2>1. ASSUME NEW e \in DOMAIN account, e \notin lapses.linked
        PROVE  Cardinality(account[e].subjects) <= 1
    BY <2>1, AtMostOne DEF AccountsInv, OneSubject
  <2>2. ASSUME NEW e \in DOMAIN account, NEW s \in account[e].subjects PROVE AA!Owners(s) = {e}
    <3>1. s \in Subjects
      BY <2>2 DEF AccountsInv, AccountsType, AA!Account
    <3> QED
      BY <2>2, <3>1 DEF AccountsInv, OneSubject, AA!Owners
  <2> QED
    BY <2>1, <2>2, Zenon DEF AA!OneIdentity, AA!Cardinality, Cardinality
<1>5. AA!ConsumedOnce
    BY AccountFacts DEF AccountsInv, AccountsType, FlowsOK, CountsOK, Flow, AA!ConsumedOnce
<1> QED
    BY <1>2, <1>3, <1>4, <1>5 DEF AccountsInv

\* Accounts: the roles and scopes, the administrator who stays, the bootstrap,
\* the identities and the OAuth transactions.
THEOREM AccountsAlwaysHold == Spec => []AccountsHold
<1> DEFINE I == part = "accounts" => AccountsInv
<1>1. Init => I
    BY AccountsInit DEF Init
<1>2. I /\ [Next]_vars => I'
    <2> USE DEF mode, account, record, cookie, job, flows, commands, logins, refused, led, lapses
    <2>1. SUFFICES ASSUME I, [Next]_vars, part' = "accounts" PROVE AccountsInv'
        OBVIOUS
    <2>2. part = "accounts" /\ [AA!Next]_(AA!vars)
        BY <2>1 DEF Next, vars, AA!vars
    <2> QED
        BY <2>1, <2>2, AccountsStep
<1>3. I => AccountsHold
    BY InvHolds DEF AccountsHold
<1> QED
    BY <1>1, <1>2, <1>3, PTL DEF Spec
=============================================================================
