------------------------------ MODULE Accounts ------------------------------
(***************************************************************************)
(* The accounts of the database and who changes them: registration, a     *)
(* sign-in at an OAuth provider, which links an identity or makes an       *)
(* account, administrators who change each other's access, the bootstrap   *)
(* of the first administrator and the demo seed.  Each is a transaction    *)
(* that reads without locks and writes what differs from what it read.     *)
(* Passwords, families and tokens are in RefreshFamilies.                  *)
(***************************************************************************)
EXTENDS Integers, FiniteSets, Sequences

CONSTANTS Procs, None,
          Emails,         \* addresses; accounts are never removed and keep theirs
          Subjects,       \* who can sign in at the provider
          DemoUser, DemoAdmin,
          Databases,      \* the accounts to begin with
          MaxFlows,       \* bound: OAuth transactions issued
          MaxCommands     \* bound: requests and scripts started

VARIABLES
    mode,      \* app_env
    account,   \* users with their scopes and identities
    record,    \* security_replay_records: the replays of each consumed transaction
    cookie,    \* the OAuth transaction in the browser's state cookie, 0 for none
    job,       \* what each process runs
    flows, commands,
    logins,    \* history: the sign-ins each transaction ended in
    refused,   \* history: the callbacks refused because of it
    led,       \* history: whether there ever was an administrator
    lapses     \* history: what came between a look and a write

vars == <<mode, account, record, cookie, job, flows, commands, logins, refused, led, lapses>>

Roles == {"user", "admin"}
Scopes == {"standard", "admin"}
ScopesOf(role) == IF role = "admin" THEN Scopes ELSE {"standard"}
Account == [role : Roles, scopes : SUBSET Scopes, active : BOOLEAN, demo : BOOLEAN, local : BOOLEAN,
            subjects : SUBSET Subjects]
NewAccount(role, demo, local, subjects) ==
    [role |-> role, scopes |-> ScopesOf(role), active |-> TRUE, demo |-> demo, local |-> local,
     subjects |-> subjects]
CanWrite(a) == a.active /\ a.role = "admin" /\ "admin" \in a.scopes

\* As registration and the scripts leave them: each account has the scopes of
\* its role, and at most one subject, which no other has.
Consistent(d) ==
    /\ DOMAIN d \subseteq Emails /\ d \in [DOMAIN d -> Account]
    /\ \A e \in DOMAIN d : /\ d[e].scopes = ScopesOf(d[e].role)
                           /\ \A s, r \in d[e].subjects : s = r
    /\ \A e, f \in DOMAIN d, s \in Subjects :
          s \in d[e].subjects /\ s \in d[f].subjects => e = f

AccountConstants ==
    /\ None \notin Roles /\ None \notin BOOLEAN /\ None \notin Account
    /\ {DemoUser, DemoAdmin} \subseteq Emails /\ DemoUser # DemoAdmin
    /\ \A d \in Databases : Consistent(d)
    /\ MaxFlows \in Nat /\ MaxCommands \in Nat

Idle == [pc |-> "idle"]
NoLapse == [torn |-> {}, stale |-> FALSE, raced |-> {}, linked |-> {}]

Init ==
    /\ mode \in {"development", "production"}
    /\ account \in Databases
    /\ record = <<>> /\ cookie = 0
    /\ job = [p \in Procs |-> Idle]
    /\ flows = 0 /\ commands = 0
    /\ logins = [t \in 1..MaxFlows |-> 0] /\ refused = logins
    /\ led = \E e \in DOMAIN account : CanWrite(account[e])
    /\ lapses = NoLapse

Starts(p, j) ==
    /\ job[p] = Idle /\ commands < MaxCommands
    /\ commands' = commands + 1
    /\ job' = [job EXCEPT ![p] = j]
Goes(p, j) == job' = [job EXCEPT ![p] = j]
At(p, pc) == job[p].pc = pc
Put(e, a) == account' = [x \in DOMAIN account \cup {e} |-> IF x = e THEN a ELSE account[x]]

-----------------------------------------------------------------------------
(* Registration: an insert, or nothing when the address is taken. *)

Register(e) ==
    /\ e \notin DOMAIN account /\ commands < MaxCommands
    /\ Put(e, NewAccount("user", FALSE, TRUE, {}))
    /\ commands' = commands + 1
    /\ UNCHANGED <<mode, record, cookie, job, flows, logins, refused, led, lapses>>

-----------------------------------------------------------------------------
(* OAuth: the transaction is consumed and committed before the provider is *)
(* asked who signs in.                                                     *)

OAuthStart ==
    /\ flows < MaxFlows
    /\ flows' = flows + 1 /\ cookie' = flows + 1
    /\ UNCHANGED <<mode, account, record, job, commands, logins, refused, led, lapses>>
CookieExpires ==
    /\ cookie # 0 /\ cookie' = 0
    /\ UNCHANGED <<mode, account, record, job, flows, commands, logins, refused, led, lapses>>

\* A callback whose state is not the cookie's is refused before it reads a row.
Callback(p) ==
    /\ cookie # 0
    /\ Starts(p, [pc |-> "looks", flow |-> cookie])
    /\ UNCHANGED <<mode, account, record, cookie, flows, logins, refused, led, lapses>>

Unrecorded == UNCHANGED <<mode, account, record, cookie, flows, commands, logins, refused, led, lapses>>
Refuses(t) == refused' = [refused EXCEPT ![t] = @ + 1]

FindsReplay(p) ==
    /\ At(p, "looks") /\ job[p].flow \in DOMAIN record
    /\ record' = [record EXCEPT ![job[p].flow] = @ + 1]
    /\ Refuses(job[p].flow) /\ Goes(p, Idle)
    /\ UNCHANGED <<mode, account, cookie, flows, commands, logins, led, lapses>>
FindsUnused(p) ==
    /\ At(p, "looks") /\ job[p].flow \notin DOMAIN record
    /\ Goes(p, [job[p] EXCEPT !.pc = "inserts"])
    /\ Unrecorded
Consumes(p) ==
    /\ At(p, "inserts") /\ job[p].flow \notin DOMAIN record
    /\ record' = [t \in DOMAIN record \cup {job[p].flow} |-> IF t \in DOMAIN record THEN record[t] ELSE 0]
    /\ Goes(p, [job[p] EXCEPT !.pc = "authenticates"])
    /\ UNCHANGED <<mode, account, cookie, flows, commands, logins, refused, led, lapses>>
\* The unique index refuses the second of two first uses.
ConsumeFails(p) ==
    /\ At(p, "inserts") /\ job[p].flow \in DOMAIN record
    /\ Refuses(job[p].flow) /\ Goes(p, Idle)
    /\ lapses' = [lapses EXCEPT !.raced = @ \cup {job[p].flow}]
    /\ UNCHANGED <<mode, account, record, cookie, flows, commands, logins, led>>

\* The provider vouches for a subject and the address it has now.
Authenticated(p) ==
    /\ At(p, "authenticates")
    /\ \E s \in Subjects, e \in Emails :
          Goes(p, [pc |-> "identity", flow |-> job[p].flow, subject |-> s, email |-> e])
    /\ Unrecorded

Owners(s) == {e \in DOMAIN account : s \in account[e].subjects}
\* complete_login: what is to be written is known before anything is.
Login(p, pc, e, had) ==
    Goes(p, [pc |-> pc, flow |-> job[p].flow, subject |-> job[p].subject, email |-> e, had |-> had,
             active |-> e \notin DOMAIN account \/ account[e].active])
FindsIdentity(p) ==
    /\ At(p, "identity")
    /\ \E e \in Owners(job[p].subject) : Login(p, "known", e, {job[p].subject})
    /\ Unrecorded
FindsNoIdentity(p) ==
    /\ At(p, "identity") /\ Owners(job[p].subject) = {}
    /\ Goes(p, [job[p] EXCEPT !.pc = "email"])
    /\ Unrecorded
Conflicts(a, s) == \E other \in a.subjects : other # s
FindsEmail(p) ==
    /\ At(p, "email") /\ job[p].email \in DOMAIN account
    /\ IF Conflicts(account[job[p].email], job[p].subject)
       THEN Goes(p, Idle)
       ELSE Login(p, "links", job[p].email, account[job[p].email].subjects)
    /\ Unrecorded
FindsNoEmail(p) ==
    /\ At(p, "email") /\ job[p].email \notin DOMAIN account
    /\ Login(p, "creates", job[p].email, {})
    /\ Unrecorded

\* What the unique indexes on addresses and on subjects let through.
Insertable(j) ==
    /\ j.pc = "creates" => j.email \notin DOMAIN account
    /\ j.pc \in {"links", "creates"} => Owners(j.subject) = {}
SignsIn(p) ==
    LET j == job[p]
    IN  /\ j.pc \in {"known", "links", "creates"} /\ j.active /\ Insertable(j)
        /\ \/ j.pc = "known" /\ UNCHANGED account
           \/ j.pc = "links" /\ Put(j.email, [account[j.email] EXCEPT !.subjects = @ \cup {j.subject}])
           \/ j.pc = "creates" /\ Put(j.email, NewAccount("user", FALSE, FALSE, {j.subject}))
        /\ logins' = [logins EXCEPT ![j.flow] = @ + 1]
        /\ cookie' \in {cookie, 0}
        /\ lapses' = IF j.pc = "links" /\ account[j.email].subjects # j.had
                     THEN [lapses EXCEPT !.linked = @ \cup {j.email}] ELSE lapses
        /\ Goes(p, Idle)
        /\ UNCHANGED <<mode, record, flows, commands, refused, led>>
SignInFails(p) ==
    /\ job[p].pc \in {"known", "links", "creates"} /\ ~(job[p].active /\ Insertable(job[p]))
    /\ Goes(p, Idle)
    /\ Unrecorded

-----------------------------------------------------------------------------
(* Roles and scopes.  A transaction is a list of accounts with what each   *)
(* shall be; it reads the row of one and then its scopes, in another       *)
(* statement, and writes when all are read.                                *)

Change(e, role, active, demo) == [email |-> e, role |-> role, active |-> active, demo |-> demo]
Reads(kind, by, changes) == [pc |-> "row", kind |-> kind, by |-> by, left |-> changes, seen |-> {}]
Kept == UNCHANGED <<mode, account, record, cookie, flows, logins, refused, led, lapses>>
Running(kind) == \E p \in Procs : job[p].pc \in {"row", "scopes", "writes"} /\ job[p].kind = kind

UpdateUserAccess(p) ==
    /\ \E a, e \in DOMAIN account, role \in Roles \cup {None}, active \in BOOLEAN \cup {None} :
          /\ CanWrite(account[a]) /\ a # e
          /\ role # None \/ active # None
          /\ Starts(p, Reads("update", a, <<Change(e, role, active, None)>>))
    /\ Kept
\* An advisory lock keeps a second bootstrap, and a second seed, waiting.
BootstrapAdmin(p) ==
    /\ mode = "production" /\ ~Running("bootstrap")
    /\ \A e \in DOMAIN account : account[e].role # "admin"
    /\ \E e \in Emails : Starts(p, Reads("bootstrap", None, <<Change(e, "admin", TRUE, FALSE)>>))
    /\ Kept
EnsureDemoAccounts(p) ==
    /\ mode = "development" /\ ~Running("seed")
    /\ Starts(p, Reads("seed", None, <<Change(DemoUser, "user", TRUE, TRUE),
                                       Change(DemoAdmin, "admin", TRUE, TRUE)>>))
    /\ Kept

Seen(j, old) ==
    [j EXCEPT !.pc = IF Len(j.left) = 1 THEN "writes" ELSE "row", !.left = Tail(@),
              !.seen = @ \cup {[change |-> Head(j.left), old |-> old]}]
ReadsRow(p) ==
    /\ At(p, "row")
    /\ LET e == Head(job[p].left).email
       IN  Goes(p, IF e \notin DOMAIN account THEN Seen(job[p], None)
                   ELSE [pc |-> "scopes", kind |-> job[p].kind, by |-> job[p].by, left |-> job[p].left,
                         seen |-> job[p].seen, row |-> account[e]])
    /\ UNCHANGED commands /\ Kept
ReadsScopes(p) ==
    /\ At(p, "scopes")
    /\ LET j == job[p]
           now == account[Head(j.left).email]
           read == [pc |-> "scopes", kind |-> j.kind, by |-> j.by, left |-> j.left, seen |-> j.seen]
       IN  /\ Goes(p, Seen(read, [j.row EXCEPT !.scopes = now.scopes, !.local = now.local]))
           /\ lapses' = IF now.role = j.row.role THEN lapses
                        ELSE [lapses EXCEPT !.torn = @ \cup {Head(j.left).email}]
    /\ UNCHANGED <<mode, account, record, cookie, flows, commands, logins, refused, led>>

\* A column is written when it shall be another than was read; scopes are
\* deleted and inserted one by one.
Set(now, old, wanted) == IF wanted \in {None, old} THEN now ELSE wanted
SameAccess(a, b) == a.role = b.role /\ a.scopes = b.scopes /\ a.active = b.active
Wanted(c, old) == IF c.role = None THEN old.scopes ELSE ScopesOf(c.role)
ScopesAdded(now, old, wanted) == now \cup (wanted \ old)      \* mutant: no scope is deleted
ScopesSet(now, old, wanted) == (now \ (old \ wanted)) \cup (wanted \ old)
Changed(j, now, c, old) ==
    [now EXCEPT !.role = Set(@, old.role, c.role), !.active = Set(@, old.active, c.active),
                !.demo = Set(@, old.demo, c.demo), !.local = @ \/ j.kind # "update",
                !.scopes = ScopesSet(@, old.scopes, Wanted(c, old))]
Fits(s) ==
    IF s.old = None THEN s.change.email \notin DOMAIN account
    ELSE (Wanted(s.change, s.old) \ s.old.scopes) \cap account[s.change.email].scopes = {}
\* Its administrator may not write any more, or rows a script read have changed.
Outdated(j) ==
    IF j.kind = "update" THEN ~CanWrite(account[j.by])
    ELSE \E s \in j.seen : s.old # None /\ ~SameAccess(s.old, account[s.change.email])
Writes(p) ==
    LET j == job[p]
        SeenOf(e) == CHOOSE s \in j.seen : s.change.email = e
        touched == {s.change.email : s \in j.seen}
        after == [e \in DOMAIN account \cup touched |->
                    IF e \notin touched THEN account[e]
                    ELSE IF SeenOf(e).old = None
                    THEN NewAccount(SeenOf(e).change.role, SeenOf(e).change.demo, TRUE, {})
                    ELSE Changed(j, account[e], SeenOf(e).change, SeenOf(e).old)]
    IN  /\ At(p, "writes") /\ \A s \in j.seen : Fits(s)
        /\ account' = after
        /\ led' = (led \/ \E e \in DOMAIN after : CanWrite(after[e]))
        /\ lapses' = [lapses EXCEPT !.stale = @ \/ Outdated(j)]
        /\ Goes(p, Idle)
        /\ UNCHANGED <<mode, record, cookie, flows, commands, logins, refused>>

\* A key that is taken, an error, a process that ends: the transaction is rolled back.
Abandon(p) == job[p] # Idle /\ Goes(p, Idle) /\ Unrecorded

-----------------------------------------------------------------------------
Next ==
    \/ OAuthStart \/ CookieExpires
    \/ \E e \in Emails : Register(e)
    \/ \E p \in Procs :
        \/ Callback(p) \/ FindsReplay(p) \/ FindsUnused(p) \/ Consumes(p) \/ ConsumeFails(p)
        \/ Authenticated(p) \/ FindsIdentity(p) \/ FindsNoIdentity(p) \/ FindsEmail(p) \/ FindsNoEmail(p)
        \/ SignsIn(p) \/ SignInFails(p)
        \/ UpdateUserAccess(p) \/ BootstrapAdmin(p) \/ EnsureDemoAccounts(p)
        \/ ReadsRow(p) \/ ReadsScopes(p) \/ Writes(p) \/ Abandon(p)

Spec == Init /\ [][Next]_vars

-----------------------------------------------------------------------------
(* Properties *)

\* The rows keep their types, whatever transactions wrote.
TypeOK ==
    /\ mode \in {"development", "production"}
    /\ DOMAIN account \subseteq Emails /\ \A e \in DOMAIN account : account[e] \in Account
    /\ DOMAIN record \subseteq 1..flows /\ cookie \in 0..flows
    /\ flows \in 0..MaxFlows /\ commands \in 0..MaxCommands
    /\ \A p \in Procs : job[p].pc \in {"idle", "looks", "inserts", "authenticates", "identity", "email",
                                       "known", "links", "creates", "row", "scopes", "writes"}

\* An account has the scopes of its role, however the changes of several
\* administrators interleave, unless one read its row before another's commit
\* and its scopes after (accounts.py, get_user_bundle_by_id).
RolesHaveTheirScopes ==
    \A e \in DOMAIN account \ lapses.torn : account[e].scopes = ScopesOf(account[e].role)

\* Administrators cannot lock everybody out: once there was one who can
\* change access, there is one, unless a change was committed for somebody who
\* lost that right meanwhile, or a script wrote from rows changed meanwhile
\* (admin_evidence.py, update_user_access).
AdminRemains ==
    led /\ ~lapses.stale => \E e \in DOMAIN account : CanWrite(account[e])

\* The bootstrap runs only as long as nobody is an administrator
\* (provisioning.py, bootstrap_admin).
BootstrapIsFirst ==
    Running("bootstrap") /\ ~lapses.stale => \A e \in DOMAIN account : account[e].role # "admin"

\* An account is linked to one subject of the provider, and a subject to one
\* account, unless two callbacks linked it at once (oauth_service.py).
OneIdentity ==
    \A e \in DOMAIN account :
        /\ e \notin lapses.linked => Cardinality(account[e].subjects) <= 1
        /\ \A s \in account[e].subjects : Owners(s) = {e}

\* An OAuth transaction signs in once, and every other use of it is recorded
\* as a replay, unless it was at the same time as the first (sessions.py,
\* consume_security_artifact_once).
ConsumedOnce ==
    \A t \in 1..flows :
        /\ logins[t] <= 1
        /\ t \in DOMAIN record /\ t \notin lapses.raced => record[t] = refused[t]
=============================================================================
