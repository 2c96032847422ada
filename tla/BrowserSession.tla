---------------------------- MODULE BrowserSession ----------------------------
(***************************************************************************)
(* The pages of one browser (frontend/lib/auth-session.ts and              *)
(* AccountAccessShell.tsx) over the refresh families of the server.        *)
(*                                                                         *)
(* Pages share the cookie jar and the device key; each has a controller of *)
(* its own with an access token and at most one refresh in flight.  A page *)
(* runs several flows at once (its restoration, a login, a logout, the     *)
(* requests of the workspace); each flow is one async function, and runs   *)
(* from one await to the next in one step.  The requests that carry        *)
(* cookies are HTTP calls with a life of their own: a reload forgets the   *)
(* flow, not the call.  The others only need an access token, and their    *)
(* answer is one of ok, 401 (a token may expire at any time) or an error.  *)
(*                                                                         *)
(* An access token is named by the refresh token it was issued with.  The  *)
(* CSRF token is read with the cookie it belongs to, so it always fits.    *)
(* The server's clock stands still and accounts stay active: tokens die by *)
(* rotation, replay and logout.  A page has one flow of each kind.         *)
(***************************************************************************)
EXTENDS Naturals, Sequences

CONSTANTS
    Pages, Users, Jobs,   \* Jobs: concurrent requests of a workspace
    NoUser, NoPage,
    Key,                  \* the device key in IndexedDB
    MaxCalls,             \* bound: HTTP calls in flight
    MaxTokens,            \* bound: tokens ever issued
    MaxFaults             \* bound: reloads, lost answers, failures

BrowserConstants ==
    /\ NoUser \notin Users /\ NoPage \notin Pages
    /\ {MaxCalls, MaxTokens, MaxFaults} \subseteq Nat
    /\ Jobs \cap {"restore", "login", "register", "logout"} = {}

VARIABLES
    now, active, family, token, req,      \* the server: RefreshFamilies
    jar,         \* the refresh cookie, 0 for none
    page, flow,
    call,        \* requests that carry cookies, on the wire or in the server
    excused,     \* history: a rotated token may have been presented again
    faults       \* how many there were

server == <<now, active, family, token, req>>
vars == <<now, active, family, token, req, jar, page, flow, call, excused,
          faults>>
history == <<excused, faults>>

Calls == 1..MaxCalls
Flows == {"restore", "login", "register", "logout"} \cup Jobs

Server == INSTANCE RefreshFamilies WITH
            Keys <- {Key}, Requests <- Calls, IdleTtl <- 1, AbsoluteTtl <- 1,
            MaxTime <- 0

States == {"checking", "anonymous", "registered", "authenticated", "expired",
           "core_not_ready"}

(* ShellViewModel; shown is the state React was last told to show; promise *)
(* is the call behind refreshPromise, 0 for null.                          *)
Page == [state: States, shown: States, access: Nat,
         user: Users \cup {NoUser}, ready: BOOLEAN, promise: Nat]

(* "boot": before the first readiness poll; "restoring", "refreshing":     *)
(* awaits refreshPromise; "first", "second": awaits an attempt of a        *)
(* protected request; with is the access token that attempt carries.       *)
Flow == [pc: {"idle", "boot", "restoring", "posting", "first", "refreshing",
              "second"},
         with: Nat]

(* "proving": the DPoP proof is being made, the cookie is not read yet.    *)
Call == [page: Pages \cup {NoPage},
         kind: {"none", "refresh", "login", "logout"},
         user: Users \cup {NoUser},
         phase: {"free", "proving", "sent", "serving", "answered"},
         cookie: Nat, ok: BOOLEAN, sets: Nat]
NoCall == [page |-> NoPage, kind |-> "none", user |-> NoUser,
           phase |-> "free", cookie |-> 0, ok |-> FALSE, sets |-> 0]

NewPage == [state |-> "anonymous", shown |-> "anonymous", access |-> 0,
            user |-> NoUser, ready |-> FALSE, promise |-> 0]
NewFlows == [f \in Flows |->
                [pc |-> IF f = "restore" THEN "boot" ELSE "idle", with |-> 0]]

TypeOK ==
    /\ Server!TypeOK
    /\ jar \in 0..Len(token)
    /\ page \in [Pages -> Page]
    /\ flow \in [Pages -> [Flows -> Flow]]
    /\ call \in [Calls -> Call]
    /\ excused \in BOOLEAN
    /\ faults \in 0..MaxFaults

Init ==
    /\ Server!Init
    /\ jar = 0
    /\ page = [p \in Pages |-> NewPage]
    /\ flow = [p \in Pages |-> NewFlows]
    /\ call = [c \in Calls |-> NoCall]
    /\ excused = FALSE
    /\ faults = 0

-----------------------------------------------------------------------------
(* The controller's helpers, on the model m of one page *)

UserOf(t) == family[token[t].family].user

ClearSession(m) == [m EXCEPT !.access = 0, !.user = NoUser]
SessionEnded(m) == [ClearSession(m) EXCEPT !.state = "expired"]

(* setViewModel(controller.snapshot) *)
Shown(m) == [m EXCEPT !.shown = m.state]

Workspace(p) == page[p].shown = "authenticated"
HasForm(m) == m.shown \in {"anonymous", "expired", "core_not_ready"}

Goes(p, f, pc, with) ==
    flow' = [flow EXCEPT ![p][f] = [pc |-> pc, with |-> with]]
Done(p, f) == Goes(p, f, "idle", 0)
At(p, f, pcs) == flow[p][f].pc \in pcs

Fault == faults < MaxFaults /\ faults' = faults + 1

Free(c) == call[c].phase = "free"
FreeCall == CHOOSE c \in Calls : Free(c) /\ \A d \in Calls : Free(d) => c <= d
StartsForUser(p, kind, u) ==      \* mutant: the arguments of the call swapped
    /\ \E c \in Calls : Free(c)
    /\ call' = [call EXCEPT ![FreeCall] =
                  [NoCall EXCEPT !.page = u, !.kind = kind, !.user = p,
                                 !.phase = "proving"]]

Starts(p, kind, u) ==
    /\ \E c \in Calls : Free(c)
    /\ call' = [call EXCEPT ![FreeCall] =
                  [NoCall EXCEPT !.page = p, !.kind = kind, !.user = u,
                                 !.phase = "proving"]]

AlwaysRefresh(p, m) ==            \* mutant: no refreshPromise
    /\ Starts(p, "refresh", NoUser)
    /\ page' = [page EXCEPT ![p] = [m EXCEPT !.promise = FreeCall]]

(* refreshAccessToken up to its first await: one refresh for all callers.  *)
AwaitRefresh(p, m) ==
    \/ /\ m.promise # 0
       /\ page' = [page EXCEPT ![p] = m]
       /\ UNCHANGED call
    \/ /\ m.promise = 0
       /\ Starts(p, "refresh", NoUser)
       /\ page' = [page EXCEPT ![p] = [m EXCEPT !.promise = FreeCall]]

-----------------------------------------------------------------------------
(* Steps of a page that wait for nothing *)

Readiness(m, ok) ==
    Shown([m EXCEPT !.ready = ok,
                    !.state = IF ok THEN @ ELSE "core_not_ready"])

(* bootstrap: the first poll is answered, restoreSession begins.           *)
Boot(p, ok) ==
    /\ At(p, "restore", {"boot"})
    /\ AwaitRefresh(p, [Readiness(page[p], ok) EXCEPT !.state = "checking"])
    /\ Goes(p, "restore", "restoring", 0)
    /\ IF ok THEN UNCHANGED faults ELSE Fault
    /\ UNCHANGED <<server, jar, excused>>

Poll(p, ok) ==
    /\ ~At(p, "restore", {"boot"})
    /\ page' = [page EXCEPT ![p] = Readiness(@, ok)]
    /\ IF ok THEN UNCHANGED faults ELSE Fault
    /\ UNCHANGED <<server, jar, flow, call, excused>>

Submitting(p) == \E f \in {"login", "register", "logout"} : ~At(p, f, {"idle"})
FormsEnabled(p) == HasForm(page[p]) /\ page[p].ready /\ ~Submitting(p)

SetsAuthMode(m) ==
    Shown([m EXCEPT !.state = IF @ = "registered" THEN @ ELSE "anonymous"])

(* The links between the two forms, and "Continue to sign in".             *)
SwitchMode(p) ==
    /\ HasForm(page[p]) \/ page[p].shown = "registered"
    /\ page' = [page EXCEPT ![p] = SetsAuthMode(@)]
    /\ UNCHANGED <<server, jar, flow, call, history>>

Register(p) ==
    /\ FormsEnabled(p)
    /\ Goes(p, "register", "posting", 0)
    /\ UNCHANGED <<server, jar, page, call, history>>

Registered(p) ==
    /\ At(p, "register", {"posting"})
    /\ page' \in {page, [page EXCEPT ![p] = Shown([@ EXCEPT !.state = "registered"])]}
    /\ Done(p, "register")
    /\ UNCHANGED <<server, jar, call, history>>

Login(p, u) ==
    /\ FormsEnabled(p)
    /\ Starts(p, "login", u)
    /\ Goes(p, "login", "posting", 0)
    /\ UNCHANGED <<server, jar, page, history>>

Logout(p) ==
    /\ Workspace(p) /\ At(p, "logout", {"idle"})
    /\ Starts(p, "logout", NoUser)
    /\ Goes(p, "logout", "posting", 0)
    /\ UNCHANGED <<server, jar, page, history>>

StartJob(p, f) ==
    /\ f \in Jobs
    /\ Workspace(p) /\ At(p, f, {"idle"})
    /\ Goes(p, f, "first", page[p].access)
    /\ UNCHANGED <<server, jar, page, call, history>>

-----------------------------------------------------------------------------
(* Answers to the protected requests of requestWithRefresh *)

Protected(p, f) == At(p, f, {"first", "second"})

Accepted(p, f) ==
    /\ Protected(p, f)
    /\ flow[p][f].with # 0
    /\ page' = IF f \in Jobs THEN page ELSE
                 [page EXCEPT ![p] =
                    Shown([@ EXCEPT !.user = UserOf(flow[p][f].with),
                                    !.state = "authenticated"])]
    /\ Done(p, f)
    /\ UNCHANGED <<server, jar, call, history>>

(* 401 to a first attempt, and no other flow has got a new token since.    *)
Unauthorized(p, f) ==
    /\ At(p, f, {"first"})
    /\ page[p].access \in {0, flow[p][f].with}
    /\ AwaitRefresh(p, page[p])
    /\ Goes(p, f, "refreshing", 0)
    /\ UNCHANGED <<server, jar, history>>

TriesNewToken(p, f) ==
    /\ At(p, f, {"first"})
    /\ page[p].access \notin {0, flow[p][f].with}
    /\ Goes(p, f, "second", page[p].access)
    /\ UNCHANGED <<server, jar, page, call, history>>

(* The catch clause of the flow: loadCurrentUser or handleApiError.        *)
GivesUp(f, m) ==
    CASE f = "restore" /\ m.access = 0 ->
           Shown([ClearSession(m) EXCEPT !.state = "anonymous"])
      [] f \in Jobs -> IF m.state = "expired" THEN Shown(m) ELSE m
      [] OTHER -> Shown(SessionEnded(m))

(* Any error but a first 401, for /me an unknown role or scope as well;    *)
(* or the proof of the attempt cannot be made, which ends the session.     *)
Fails(p, f) ==
    /\ Protected(p, f)
    /\ \E m \in {page[p], SessionEnded(page[p])} :
          page' = [page EXCEPT ![p] = GivesUp(f, m)]
    /\ Fault
    /\ Done(p, f)
    /\ UNCHANGED <<server, jar, call, excused>>

-----------------------------------------------------------------------------
(* Calls on the wire and in the server *)

Carries(c, t) ==
    call[c].phase \in {"sent", "serving", "answered"} /\ call[c].kind = "refresh"
      /\ call[c].cookie = t

Moves(c, phase) == call' = [call EXCEPT ![c].phase = phase]
Answers(c, ok, sets) ==
    call' = [call EXCEPT ![c].phase = "answered", ![c].ok = ok, ![c].sets = sets]

Sends(c) ==
    /\ call[c].phase = "proving"
    /\ call' = [call EXCEPT ![c].phase = "sent", ![c].cookie = jar]
    /\ excused' = \/ excused
                  \/ /\ call[c].kind = "refresh" /\ jar # 0
                     /\ \E d \in Calls : Carries(d, jar) /\ call[d].page # call[c].page
    /\ UNCHANGED <<server, jar, page, flow, faults>>

(* proofHeaders throws: the device key cannot be read or cannot sign.      *)
ProofFails(c) ==
    /\ Fault
    /\ call[c].phase = "proving"
    /\ page' = [page EXCEPT ![call[c].page] = SessionEnded(@)]
    /\ Answers(c, FALSE, 0)
    /\ UNCHANGED <<server, jar, flow, excused>>

Refreshes(c) ==
    /\ call[c].kind = "refresh"
    /\ \/ /\ call[c].phase = "sent" /\ call[c].cookie = 0
          /\ Answers(c, FALSE, 0)
          /\ UNCHANGED server
       \/ /\ call[c].phase = "sent" /\ call[c].cookie # 0
          /\ Server!RefreshArrives(c, call[c].cookie, Key)
          /\ Moves(c, "serving")
       \/ /\ call[c].phase = "serving"
          /\ Server!RefreshGranted(c)
          /\ UNCHANGED call
       \/ /\ call[c].phase = "serving"
          /\ Server!RefreshRefused(c) \/ Server!RefreshReplayed(c)
          /\ Answers(c, FALSE, 0)
       \/ /\ call[c].phase = "serving"
          /\ Server!RefreshCommits(c)
          /\ Answers(c, TRUE, Len(token) + 1)
    /\ UNCHANGED <<jar, page, flow, history>>

LogsIn(c) ==
    /\ call[c].kind = "login"
    /\ \/ /\ call[c].phase = "sent"
          /\ Answers(c, FALSE, 0)                   \* wrong password
          /\ UNCHANGED server
       \/ /\ call[c].phase = "sent"
          /\ Server!LoginChecks(c, call[c].user, Key)
          /\ Moves(c, "serving")
       \/ /\ call[c].phase = "serving"
          /\ Server!LoginCommits(c)
          /\ Answers(c, TRUE, Len(token) + 1)
    /\ UNCHANGED <<jar, page, flow, history>>

LogsOut(c) ==
    /\ call[c].kind = "logout" /\ call[c].phase = "sent"
    /\ \/ call[c].cookie # 0 /\ Server!Logout(call[c].cookie, Key)
       \/ /\ call[c].cookie # 0 => ~Server!Live(token[call[c].cookie].family)
          /\ UNCHANGED server
    /\ Answers(c, TRUE, 0)
    /\ UNCHANGED <<jar, page, flow, history>>

(* The request or the answer is lost, or the handler dies: fetch rejects,  *)
(* or the answer is 500.                                                   *)
Lost(c) ==
    /\ Fault
    /\ \/ call[c].phase = "sent" /\ UNCHANGED server
       \/ call[c].phase = "serving" /\ Server!Abandon(c)
       \/ call[c].phase = "answered" /\ call[c].ok /\ UNCHANGED server
    /\ Answers(c, FALSE, 0)
    /\ excused' = (excused \/ call[c].ok)
    /\ UNCHANGED <<jar, page, flow>>

-----------------------------------------------------------------------------
(* Answers to calls *)

Answered(c, p, kind) ==
    call[c].phase = "answered" /\ call[c].page = p /\ call[c].kind = kind
Frees(c) == call' = [call EXCEPT ![c] = NoCall]

SetsCookie(c) == IF call[c].ok THEN call[c].sets ELSE jar

Waiting(p) == {f \in Flows : At(p, f, {"restoring", "refreshing"})}

Refreshed(p, c) ==
    /\ Answered(c, p, "refresh") /\ call[c].ok
    /\ jar' = SetsCookie(c)
    /\ page' = [page EXCEPT ![p].access = call[c].sets, ![p].promise = 0]
    /\ flow' = [flow EXCEPT ![p] =
                  [f \in Flows |->
                     IF f \notin Waiting(p) THEN flow[p][f]
                     ELSE [pc |-> IF At(p, f, {"restoring"}) THEN "first"
                                                              ELSE "second",
                           with |-> call[c].sets]]]
    /\ Frees(c)
    /\ UNCHANGED <<server, history>>

(* Every flow that waits ends; the last of them decides what is shown.     *)
RefreshFailed(p, c) ==
    /\ Answered(c, p, "refresh") /\ ~call[c].ok
    /\ \E last \in Waiting(p) :
         page' = [page EXCEPT ![p] =
                    [GivesUp(last, IF last = "restore" THEN ClearSession(@)
                                                       ELSE SessionEnded(@))
                       EXCEPT !.promise = 0]]
    /\ flow' = [flow EXCEPT ![p] =
                  [f \in Flows |-> IF f \in Waiting(p)
                                     THEN [pc |-> "idle", with |-> 0]
                                     ELSE flow[p][f]]]
    /\ Frees(c)
    /\ UNCHANGED <<server, jar, history>>

LoginAnswered(p, c) ==
    /\ Answered(c, p, "login")
    /\ jar' = SetsCookie(c)
    /\ IF call[c].ok
         THEN /\ page' = [page EXCEPT ![p].access = call[c].sets]
              /\ Goes(p, "login", "first", call[c].sets)
         ELSE Done(p, "login") /\ UNCHANGED page
    /\ Frees(c)
    /\ UNCHANGED <<server, history>>

SignsOutAnyway(p, c) ==           \* mutant: the catch clause falls through
    /\ Answered(c, p, "logout")
    /\ jar' = SetsCookie(c)
    /\ page' = [page EXCEPT ![p] =
                  Shown([ClearSession(@) EXCEPT !.state = "anonymous"])]
    /\ Done(p, "logout")
    /\ Frees(c)
    /\ UNCHANGED <<server, history>>

LogoutAnswered(p, c) ==
    /\ Answered(c, p, "logout")
    /\ jar' = SetsCookie(c)
    /\ page' = [page EXCEPT ![p] =
                  Shown(IF call[c].ok
                          THEN [ClearSession(@) EXCEPT !.state = "anonymous"]
                          ELSE @)]
    /\ Done(p, "logout")
    /\ Frees(c)
    /\ UNCHANGED <<server, history>>

(* The page is loaded again; what it has sent goes on without it.          *)
Reload(p) ==
    /\ Fault
    /\ ~At(p, "restore", {"boot"})
    /\ page' = [page EXCEPT ![p] = NewPage]
    /\ flow' = [flow EXCEPT ![p] = NewFlows]
    /\ call' = [c \in Calls |->
                  IF Free(c) \/ call[c].page # p THEN call[c]
                  ELSE IF call[c].phase = "proving" THEN NoCall
                  ELSE [call[c] EXCEPT !.page = NoPage]]
    /\ UNCHANGED <<server, jar, excused>>

(* Nobody waits for the answer; the browser may still take its cookies.    *)
OrphanEnds(c) ==
    /\ ~Free(c) /\ call[c].page = NoPage /\ call[c].phase = "answered"
    /\ \/ jar' = SetsCookie(c) /\ UNCHANGED excused
       \/ UNCHANGED jar /\ excused' = (excused \/ call[c].ok)
    /\ Frees(c)
    /\ UNCHANGED <<server, page, flow, faults>>

-----------------------------------------------------------------------------
PageStep(p) ==
    \/ \E ok \in BOOLEAN : Boot(p, ok) \/ Poll(p, ok)
    \/ SwitchMode(p)
    \/ Register(p)
    \/ Registered(p)
    \/ \E u \in Users : Login(p, u)
    \/ Logout(p)
    \/ \E f \in Flows :
         \/ StartJob(p, f)
         \/ Accepted(p, f)
         \/ Unauthorized(p, f)
         \/ TriesNewToken(p, f)
         \/ Fails(p, f)
    \/ Reload(p)

ServerStep(c) == Refreshes(c) \/ LogsIn(c) \/ LogsOut(c)

Delivers(p, c) ==
    \/ Refreshed(p, c)
    \/ RefreshFailed(p, c)
    \/ LoginAnswered(p, c)
    \/ LogoutAnswered(p, c)

Next ==
    \/ \E p \in Pages : PageStep(p)
    \/ \E c \in Calls :
         \/ Sends(c)
         \/ ProofFails(c)
         \/ ServerStep(c)
         \/ Lost(c)
         \/ \E p \in Pages : Delivers(p, c)
         \/ OrphanEnds(c)

Spec == Init /\ [][Next]_vars
-----------------------------------------------------------------------------
(* PROPERTIES *)

(* The jar keeps up with the server, whatever pages, reloads and logins    *)
(* overlap: its token is current, or its family is over, or the answer     *)
(* that replaces it is on its way - unless an answer was lost.             *)
JarKeepsUp ==
    jar # 0 /\ token[jar].used /\ ~excused =>
        \/ ~Server!Live(token[jar].family)
        \/ \E c \in Calls : ~Free(c) /\ Carries(c, jar)

(* Nobody is signed out for a replay that was none: the families revoked   *)
(* for reuse saw an answer lost, or two pages refresh at the same time.    *)
ReplayIsExcused ==
    \A f \in DOMAIN family : family[f].revoked = "refresh_reuse" => excused

(* A page says "signed out" only when the family of the cookie it sent is  *)
(* over, also if a rotation or another logout of it was under way.         *)
SignOutStep ==
    \A c \in Calls, p \in Pages :
         /\ Answered(c, p, "logout") /\ Free(c)' /\ call[c].cookie # 0
         /\ page'[p].state = "anonymous" /\ page'[p] # page[p]
         => ~Server!Live(token[call[c].cookie].family)
SignOutEndsCookie == [][SignOutStep]_vars

(* 01-UI-SPEC, registration_accepted: "Generic acceptance message plus     *)
(* return-to-login action".  The action brings a sign-in form back.        *)
ReturnsToLogin ==
    \A p \in Pages :
        page[p].shown = "registered" => HasForm(SetsAuthMode(page[p]))
=============================================================================
