------------------------------ MODULE Frontend ------------------------------
(***************************************************************************)
(* The browser and the accounts people sign in to, one instance of each    *)
(* module.  A behaviour is one of the part its initial state chooses; no   *)
(* two parts run together, so they share the variables v1, v2, ..., and    *)
(* each INSTANCE says which variable of its module is kept in which.       *)
(***************************************************************************)
EXTENDS Integers, Sequences, FiniteSets

CONSTANTS
    Procs,               \* the slots, requests, consoles, tabs, processes of a part
    None, NotUsed,
    Convs, Existing, PageSize, MaxPrompts, MaxAsks,                           \* ChatClient
    MaxTyped, MaxSent, MaxLost,                                               \* ChatSession
    Writers, MaxChanges, MaxFailures,                                         \* AdminConsole
    MaxKeys, MaxLosses, MaxReloads,                                           \* DeviceProof
    Pages, Users, Jobs, DeviceKey, MaxCalls, MaxTokens,                       \* BrowserSession
    Emails, Subjects, DemoUser, DemoAdmin, Databases, MaxFlows, MaxCommands,  \* Accounts
    MaxFaults                                                                 \* ChatClient, BrowserSession

VARIABLES part, v1, v2, v3, v4, v5, v6, v7, v8, v9, v10, v11, v12, v13, v14, v15, v16, v17, v18, v19

CC == INSTANCE ChatClient
     WITH Slots <- Procs, store <- v1, shown <- v2, listed <- v3, cursor <- v4, draft <- v5, sending <- v6,
          retrying <- v7, deleting <- v8, undoing <- v9, loadingMore <- v10, toast <- v11,
          timers <- v12, calls <- v13, typed <- v14, asks <- v15, faults <- v16, chosen <- v17,
          last <- v18, excuses <- v19
CS == INSTANCE ChatSession
     WITH Requests <- Procs, model <- v1, context <- v2,
          view <- v3, rows <- v4, request <- v5, typed <- v6, sent <- v7, lost <- v8, asked <- v9,
          unheard <- v10
AC == INSTANCE AdminConsole
     WITH Consoles <- Procs, stored <- v1,
          console <- v2, query <- v3, changes <- v4, failures <- v5, outdated <- v6
DP == INSTANCE DeviceProof
     WITH Tabs <- Procs, slot <- v1, tab <- v2,
          bound <- v3, keys <- v4, losses <- v5, reloads <- v6, apart <- v7
BS == INSTANCE BrowserSession
     WITH NoUser <- None, NoPage <- NotUsed, Key <- DeviceKey, now <- v1, active <- v2,
          family <- v3, token <- v4, req <- v5, jar <- v6, page <- v7, flow <- v8, call <- v9,
          excused <- v10, faults <- v11
AA == INSTANCE Accounts
     WITH mode <- v1, account <- v2,
          record <- v3, cookie <- v4, job <- v5, flows <- v6, commands <- v7, logins <- v8,
          refused <- v9, led <- v10, lapses <- v11

ASSUME FrontendConstants ==
    /\ CC!ClientConstants /\ CS!SessionConstants /\ AC!AdminConstants
    /\ DP!ProofConstants /\ BS!BrowserConstants /\ AA!AccountConstants

vars == <<part, v1, v2, v3, v4, v5, v6, v7, v8, v9, v10, v11, v12, v13, v14, v15, v16, v17, v18, v19>>

Init ==
    \/ /\ part = "chat" /\ CC!Init
    \/ /\ part = "search" /\ CS!Init
       /\ v11 = NotUsed /\ v12 = NotUsed /\ v13 = NotUsed /\ v14 = NotUsed /\ v15 = NotUsed /\ v16 = NotUsed
       /\ v17 = NotUsed /\ v18 = NotUsed /\ v19 = NotUsed
    \/ /\ part = "admin" /\ AC!Init
       /\ v7 = NotUsed /\ v8 = NotUsed /\ v9 = NotUsed /\ v10 = NotUsed /\ v11 = NotUsed /\ v12 = NotUsed
       /\ v13 = NotUsed /\ v14 = NotUsed /\ v15 = NotUsed /\ v16 = NotUsed /\ v17 = NotUsed /\ v18 = NotUsed
       /\ v19 = NotUsed
    \/ /\ part = "device" /\ DP!Init
       /\ v8 = NotUsed /\ v9 = NotUsed /\ v10 = NotUsed /\ v11 = NotUsed /\ v12 = NotUsed /\ v13 = NotUsed
       /\ v14 = NotUsed /\ v15 = NotUsed /\ v16 = NotUsed /\ v17 = NotUsed /\ v18 = NotUsed /\ v19 = NotUsed
    \/ /\ part = "session" /\ BS!Init
       /\ v12 = NotUsed /\ v13 = NotUsed /\ v14 = NotUsed /\ v15 = NotUsed /\ v16 = NotUsed /\ v17 = NotUsed
       /\ v18 = NotUsed /\ v19 = NotUsed
    \/ /\ part = "accounts" /\ AA!Init
       /\ v12 = NotUsed /\ v13 = NotUsed /\ v14 = NotUsed /\ v15 = NotUsed /\ v16 = NotUsed /\ v17 = NotUsed
       /\ v18 = NotUsed /\ v19 = NotUsed

Next ==
    /\ UNCHANGED part
    /\ \/ part = "chat" /\ CC!Next
       \/ part = "search" /\ CS!Next /\ UNCHANGED <<v11, v12, v13, v14, v15, v16, v17, v18, v19>>
       \/ part = "admin" /\ AC!Next /\ UNCHANGED <<v7, v8, v9, v10, v11, v12, v13, v14, v15, v16, v17, v18, v19>>
       \/ part = "device" /\ DP!Next /\ UNCHANGED <<v8, v9, v10, v11, v12, v13, v14, v15, v16, v17, v18, v19>>
       \/ part = "session" /\ BS!Next /\ UNCHANGED <<v12, v13, v14, v15, v16, v17, v18, v19>>
       \/ part = "accounts" /\ AA!Next /\ UNCHANGED <<v12, v13, v14, v15, v16, v17, v18, v19>>

Spec == Init /\ [][Next]_vars

-----------------------------------------------------------------------------
(* The properties of each part, by their names there. *)

\* Every variable of the part keeps its type.
TypeOK ==
    /\ part = "chat" => CC!TypeOK
    /\ part = "search" => CS!TypeOK
    /\ part = "admin" => AC!TypeOK
    /\ part = "device" => DP!TypeOK
    /\ part = "session" => BS!TypeOK
    /\ part = "accounts" => AA!TypeOK

\* What the user types is stored once, by the chat workspace (ChatClient) and
\* by the search shell (ChatSession).
TypedOnce ==
    /\ part = "chat" => CC!SendsOnce
    /\ part = "search" => CS!StoredOnce
\* The turns on the page are those of the server (ChatClient, ChatSession).
ShownAsStored ==
    /\ part = "chat" => CC!PendingIsBacked
    /\ part = "search" => CS!ShownAsStored
\* The page shows the conversation the user chose last and none that is
\* closed, and the toast offers to undo the last deletion (ChatClient).
PageIsCurrent ==
    part = "chat" => CC!ShownIsChosen /\ CC!NothingDeletedIsShown /\ CC!DeleteOffersUndo
\* The settings shown are the settings in force (AdminConsole).
SettingsAreStored == part = "admin" => AC!SettingsAreStored
\* A tab can use the session: its key is the one the session is bound to
\* (DeviceProof), and the cookie's token is current (BrowserSession).
SessionIsUsable ==
    /\ part = "device" => DP!KeyFits
    /\ part = "session" => BS!JarKeepsUp
\* Accounts have the scopes of their role, somebody stays administrator, the
\* bootstrap is the first, an account has one identity at a provider, and an
\* OAuth transaction signs in once (Accounts).
AccountsHold ==
    part = "accounts" => /\ AA!RolesHaveTheirScopes /\ AA!AdminRemains /\ AA!BootstrapIsFirst
                         /\ AA!OneIdentity /\ AA!ConsumedOnce
\* Nobody is signed out for a replay that was none (BrowserSession).
ReplayIsExcused == part = "session" => BS!ReplayIsExcused
\* "Signed out" is said of a family that is over (BrowserSession).
SignOutEndsCookie == [][part = "session" => BS!SignOutStep]_vars
=============================================================================
