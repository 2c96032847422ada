--------------------------- MODULE RefreshFamilies ---------------------------
(***************************************************************************)
(* The refresh-token families of backend/app/services/sessions.py and      *)
(* authentication.py, as the database sees them: login starts a family,    *)
(* refresh rotates its current token, replay of a rotated token, logout,   *)
(* a deactivated owner or a password reset revoke it for good.             *)
(*                                                                         *)
(* A refresh computes its clock value when it arrives, then waits for the  *)
(* row locks of its token and its family; between the locks and the commit *)
(* it reads the account, so the account may change under it.  The CSRF and *)
(* Origin checks refuse without touching a row and are left out; the DPoP  *)
(* key of the request is kept.  Token secrets and hashes are identities:   *)
(* a token is its index.                                                   *)
(***************************************************************************)
EXTENDS Naturals, Sequences

CONSTANTS
    Users,
    Keys,            \* DPoP key thumbprints
    Requests,        \* request handlers that may run at the same time
    IdleTtl,         \* refresh_idle_ttl_seconds
    AbsoluteTtl,     \* refresh_absolute_ttl_seconds
    MaxTokens,       \* bound: tokens ever issued
    MaxTime          \* bound: the clock

ASSUME TtlAssumption == IdleTtl \in Nat /\ AbsoluteTtl \in Nat
ASSUME BoundsAssumption == MaxTokens \in Nat /\ MaxTime \in Nat

VARIABLES
    now,
    active,          \* users.is_active
    family,          \* refresh_token_families, in order of creation
    token,           \* refresh_tokens, in order of creation
    req

vars == <<now, active, family, token, req>>

Reasons == {"no", "logout", "refresh_reuse", "inactive_user", "password_changed"}

(* parent_token_id is 0 for the token a login issues; used stands for      *)
(* used_at and replaced_by_id, which are always written together.          *)
Family == [user: Users, key: Keys, absolute: Nat, revoked: Reasons]
Token == [family: Nat, parent: Nat, expires: Nat, used: BOOLEAN]

(* "verified": login has read the account; "waiting": a refresh wants its  *)
(* row locks; "rotating": it has them and every check has passed.          *)
Request ==
    [pc: {"verified"}, user: Users, key: Keys, at: Nat]
      \cup [pc: {"waiting", "rotating"}, token: Nat, key: Keys, at: Nat]
      \cup [pc: {"idle"}]

Idle == [pc |-> "idle"]

TypeOK ==
    /\ now \in Nat
    /\ active \in [Users -> BOOLEAN]
    /\ family \in Seq(Family)
    /\ token \in Seq(Token)
    /\ req \in [Requests -> Request]

-----------------------------------------------------------------------------
Live(f) == family[f].revoked = "no"
Room == Len(token) < MaxTokens

UncappedExpiry(at, absolute) ==   \* mutant: no absolute_expires_at
    at + IdleTtl
Expiry(at, absolute) ==
    IF at + IdleTtl <= absolute THEN at + IdleTtl ELSE absolute

(* SELECT ... FOR UPDATE on the family, held until commit or rollback.     *)
FamilyLocked(f) ==
    \E h \in Requests : req[h].pc = "rotating" /\ token[req[h].token].family = f

Revoke(f, reason) == family' = [family EXCEPT ![f].revoked = reason]

Ends(h) == req' = [req EXCEPT ![h] = Idle]

Init ==
    /\ now = 0
    /\ active = [u \in Users |-> TRUE]
    /\ family = <<>>
    /\ token = <<>>
    /\ req = [h \in Requests |-> Idle]

-----------------------------------------------------------------------------
LoginSwapsOwner(h, u, k) ==       \* mutant: the arguments of create_family swapped
    /\ req[h].pc = "idle"
    /\ active[u]
    /\ req' = [req EXCEPT ![h] =
                 [pc |-> "verified", user |-> k, key |-> u, at |-> now]]
    /\ UNCHANGED <<now, active, family, token>>

LoginChecks(h, u, k) ==
    /\ req[h].pc = "idle"
    /\ active[u]
    /\ req' = [req EXCEPT ![h] =
                 [pc |-> "verified", user |-> u, key |-> k, at |-> now]]
    /\ UNCHANGED <<now, active, family, token>>

LoginCommits(h) ==
    /\ req[h].pc = "verified" /\ Room
    /\ LET absolute == req[h].at + AbsoluteTtl
       IN  /\ family' = Append(family,
                [user |-> req[h].user, key |-> req[h].key,
                 absolute |-> absolute, revoked |-> "no"])
           /\ token' = Append(token,
                [family |-> Len(family) + 1, parent |-> 0,
                 expires |-> Expiry(req[h].at, absolute), used |-> FALSE])
    /\ Ends(h)
    /\ UNCHANGED <<now, active>>

RefreshArrives(h, t, k) ==
    /\ req[h].pc = "idle"
    /\ req' = [req EXCEPT ![h] =
                 [pc |-> "waiting", token |-> t, key |-> k, at |-> now]]
    /\ UNCHANGED <<now, active, family, token>>

(* The locks are granted and the rows are read.                            *)
Locks(h) == req[h].pc = "waiting" /\ ~FamilyLocked(token[req[h].token].family)

BoundToNothing(h) == TRUE         \* mutant: no _validate_family_binding
Bound(h) == family[token[req[h].token].family].key = req[h].key

Dead(h) ==
    LET f == token[req[h].token].family
    IN  ~Live(f) \/ family[f].absolute <= req[h].at

Expired(h) == token[req[h].token].expires <= req[h].at

OwnerActive(h) == active[family[token[req[h].token].family].user]

RefreshRefused(h) ==
    /\ Locks(h)
    /\ \/ ~Bound(h)
       \/ Dead(h)
       \/ ~token[req[h].token].used /\ Expired(h)
    /\ Ends(h)
    /\ UNCHANGED <<now, active, family, token>>

RefreshReplayed(h) ==
    /\ Locks(h)
    /\ Bound(h) /\ ~Dead(h)
    /\ token[req[h].token].used
    /\ Revoke(token[req[h].token].family, "refresh_reuse")
    /\ Ends(h)
    /\ UNCHANGED <<now, active, token>>

InactiveBeforeDead(h) ==          \* mutant: the account is looked at first
    /\ Locks(h)
    /\ Bound(h)
    /\ ~token[req[h].token].used /\ ~Expired(h)
    /\ ~OwnerActive(h)
    /\ Revoke(token[req[h].token].family, "inactive_user")
    /\ Ends(h)
    /\ UNCHANGED <<now, active, token>>

RefreshInactive(h) ==
    /\ Locks(h)
    /\ Bound(h) /\ ~Dead(h)
    /\ ~token[req[h].token].used /\ ~Expired(h)
    /\ ~OwnerActive(h)
    /\ Revoke(token[req[h].token].family, "inactive_user")
    /\ Ends(h)
    /\ UNCHANGED <<now, active, token>>

RefreshGranted(h) ==
    /\ Locks(h)
    /\ Bound(h) /\ ~Dead(h)
    /\ ~token[req[h].token].used /\ ~Expired(h)
    /\ OwnerActive(h)
    /\ req' = [req EXCEPT ![h].pc = "rotating"]
    /\ UNCHANGED <<now, active, family, token>>

Child(h) ==
    LET t == req[h].token
        f == token[t].family
    IN  [family |-> f, parent |-> t, used |-> FALSE,
         expires |-> Expiry(req[h].at, family[f].absolute)]

RefreshCommitsUnmarked(h) ==      \* mutant: no mark_token_used
    /\ req[h].pc = "rotating" /\ Room
    /\ token' = Append(token, Child(h))
    /\ Ends(h)
    /\ UNCHANGED <<now, active, family>>

RefreshCommits(h) ==
    /\ req[h].pc = "rotating" /\ Room
    /\ token' = Append([token EXCEPT ![req[h].token].used = TRUE], Child(h))
    /\ Ends(h)
    /\ UNCHANGED <<now, active, family>>

(* The handler dies or its client goes away: the transaction is undone.    *)
Abandon(h) ==
    /\ req[h].pc # "idle"
    /\ Ends(h)
    /\ UNCHANGED <<now, active, family, token>>

(* Any token of the family will do, a rotated one too; a foreign key is    *)
(* answered alike and changes nothing.                                     *)

Logout(t, k) ==
    LET f == token[t].family
    IN  /\ ~FamilyLocked(f)
        /\ family[f].key = k /\ Live(f)
        /\ Revoke(f, "logout")
        /\ UNCHANGED <<now, active, token, req>>

(* Provisioning writes a new password: the account is active again and     *)
(* every family of it that is not yet revoked is.                          *)
ResetPassword(u) ==
    /\ \A f \in DOMAIN family :
          family[f].user = u /\ Live(f) => ~FamilyLocked(f)
    /\ active' = [active EXCEPT ![u] = TRUE]
    /\ family' = [f \in DOMAIN family |->
                    IF family[f].user = u /\ Live(f)
                      THEN [family[f] EXCEPT !.revoked = "password_changed"]
                      ELSE family[f]]
    /\ UNCHANGED <<now, token, req>>

(* An administrator's switch; families are left for the next refresh.      *)
SetActive(u) ==
    /\ active' = [active EXCEPT ![u] = ~@]
    /\ UNCHANGED <<now, family, token, req>>

Tick ==
    /\ now < MaxTime
    /\ now' = now + 1
    /\ UNCHANGED <<active, family, token, req>>

RefreshStep(h) ==
    \/ RefreshRefused(h)
    \/ RefreshReplayed(h)
    \/ RefreshInactive(h)
    \/ RefreshGranted(h)
    \/ RefreshCommits(h)

Next ==
    \/ \E h \in Requests :
         \/ \E u \in Users, k \in Keys : LoginChecks(h, u, k)
         \/ LoginCommits(h)
         \/ \E t \in DOMAIN token, k \in Keys : RefreshArrives(h, t, k)
         \/ RefreshStep(h)
         \/ Abandon(h)
    \/ \E t \in DOMAIN token, k \in Keys : Logout(t, k)
    \/ \E u \in Users : ResetPassword(u) \/ SetActive(u)
    \/ Tick

Spec == Init /\ [][Next]_vars
-----------------------------------------------------------------------------
(* PROPERTIES *)

(* However many refreshes race, a family has one token that may still be   *)
(* rotated: two browsers never both hold a current token of one login.     *)
OneCurrentToken ==
    \A s, t \in DOMAIN token :
        token[s].family = token[t].family /\ ~token[s].used /\ ~token[t].used
            => s = t

(* A token is exchanged at most once, and exactly when it is marked used:  *)
(* a family is one chain back to its login.                                *)
ChainIsLinear ==
    \A s \in DOMAIN token :
        /\ token[s].used <=> \E t \in DOMAIN token : token[t].parent = s
        /\ \A t \in DOMAIN token :
              token[t].parent = token[s].parent /\ token[s].parent # 0 => s = t
        /\ token[s].parent # 0 =>
              /\ token[s].parent < s
              /\ token[token[s].parent].family = token[s].family

(* The two together: a family is one chain with one end to rotate.         *)
FamiliesAreChains == OneCurrentToken /\ ChainIsLinear

(* No chain of refreshes carries a session beyond 30 days from its login.  *)
ExpiryNested ==
    \A t \in DOMAIN token : token[t].expires <= family[token[t].family].absolute

(* A revoked family stays revoked, for the reason it was, and never gets   *)
(* another token: not from a refresh that was under way either.            *)
RevokedIsFinal ==
    [][\A f \in DOMAIN family :
         ~Live(f) =>
            /\ family'[f] = family[f]
            /\ \A t \in DOMAIN token' \ DOMAIN token : token'[t].family # f]_vars

(* What the checks of refresh found is still true when it commits: a new   *)
(* token replaces an unused one of a family that is live and whose key the *)
(* request held.                                                           *)
RotationIsEarned ==
    [][\A t \in DOMAIN token' \ DOMAIN token :
         token'[t].parent # 0 =>
            /\ ~token[token'[t].parent].used
            /\ Live(token'[t].family)
            /\ \E h \in Requests :
                  /\ req[h].pc = "rotating" /\ req[h].token = token'[t].parent
                  /\ req[h].key = family[token'[t].family].key]_vars
=============================================================================
