----------------------- MODULE RefreshFamiliesProofs -----------------------
(***************************************************************************)
(* RefreshFamilies for any number of users, keys, handlers, tokens and any *)
(* lifetimes.                                                              *)
(***************************************************************************)
EXTENDS RefreshFamilies, TLAPS, SequenceTheorems

(* Rows refer to rows, and a handler past its checks holds the only lock   *)
(* on a family that is as it found it.                                     *)
RowsOK ==
    /\ \A t \in DOMAIN token : token[t].family \in DOMAIN family
    /\ \A h \in Requests :
          req[h].pc \in {"waiting", "rotating"} => req[h].token \in DOMAIN token

LocksOK ==
    \A h \in Requests : req[h].pc = "rotating" =>
        /\ ~token[req[h].token].used
        /\ Live(token[req[h].token].family)
        /\ family[token[req[h].token].family].key = req[h].key
        /\ \A g \in Requests :
              req[g].pc = "rotating"
                 /\ token[req[g].token].family = token[req[h].token].family => g = h

IInv ==
    /\ TypeOK
    /\ RowsOK
    /\ LocksOK
    /\ OneCurrentToken
    /\ ChainIsLinear
    /\ ExpiryNested

-----------------------------------------------------------------------------
(* A lifetime never exceeds the family's.                                  *)
LEMMA ExpiryLemma ==
    ASSUME NEW at \in Nat, NEW absolute \in Nat
    PROVE  Expiry(at, absolute) \in Nat /\ Expiry(at, absolute) <= absolute
BY TtlAssumption DEF Expiry

LEMMA TypeFacts ==
    ASSUME TypeOK
    PROVE  /\ Len(family) \in Nat /\ DOMAIN family = 1..Len(family)
           /\ Len(token) \in Nat /\ DOMAIN token = 1..Len(token)
           /\ \A f \in DOMAIN family : family[f] \in Family
           /\ \A t \in DOMAIN token : token[t] \in Token
           /\ \A h \in Requests : req[h] \in Request
BY LenProperties, ElementOfSeq DEF TypeOK

(* A step that writes no token and no family but keeps the locks.          *)
LEMMA QuietLemma ==
    ASSUME IInv, TypeOK', UNCHANGED <<family, token>>,
           NEW h \in Requests, NEW e, req' = [req EXCEPT ![h] = e],
           e.pc \in {"waiting", "rotating"} => e.token \in DOMAIN token,
           e.pc = "rotating" =>
              /\ ~token[e.token].used
              /\ Live(token[e.token].family)
              /\ family[token[e.token].family].key = e.key
              /\ ~FamilyLocked(token[e.token].family)
    PROVE  IInv'
<1>1. /\ req'[h] = e
      /\ \A g \in Requests : g # h => req'[g] = req[g]
  BY DEF IInv, TypeOK
<1>2. RowsOK'
  BY <1>1 DEF IInv, RowsOK
<1>3. LocksOK'
  BY <1>1 DEF IInv, LocksOK, FamilyLocked, Live
<1>4. OneCurrentToken' /\ ChainIsLinear' /\ ExpiryNested'
  BY DEF IInv, OneCurrentToken, ChainIsLinear, ExpiryNested
<1> QED BY <1>2, <1>3, <1>4 DEF IInv

(* A step that revokes families none of which is locked.                   *)
LEMMA RevokeLemma ==
    ASSUME IInv, TypeOK', UNCHANGED token,
           DOMAIN family' = DOMAIN family,
           \A f \in DOMAIN family :
              /\ family'[f].key = family[f].key
              /\ family'[f].absolute = family[f].absolute
              /\ family'[f] = family[f] \/ ~FamilyLocked(f),
           \A h \in Requests : req'[h] = req[h] \/ req'[h] = Idle
    PROVE  IInv'
<1>1. RowsOK'
  BY DEF IInv, RowsOK, Idle
<1>2. LocksOK'
  <2> SUFFICES ASSUME NEW h \in Requests, req'[h].pc = "rotating"
               PROVE  /\ ~token[req'[h].token].used
                      /\ family'[token[req'[h].token].family].revoked = "no"
                      /\ family'[token[req'[h].token].family].key = req'[h].key
                      /\ \A g \in Requests :
                            req'[g].pc = "rotating"
                               /\ token[req'[g].token].family = token[req'[h].token].family
                            => g = h
    BY DEF LocksOK, Live
  <2>1. req'[h] = req[h]
    BY DEF Idle
  <2> DEFINE f == token[req[h].token].family
  <2>2. f \in DOMAIN family /\ FamilyLocked(f)
    BY <2>1 DEF IInv, RowsOK, FamilyLocked
  <2>3. family'[f] = family[f]
    BY <2>2
  <2>4. \A g \in Requests : req'[g].pc = "rotating" => req'[g] = req[g]
    BY DEF Idle
  <2> QED BY SMTT(40), <2>1, <2>3, <2>4 DEF IInv, LocksOK, Live
<1>3. OneCurrentToken' /\ ChainIsLinear'
  BY DEF IInv, OneCurrentToken, ChainIsLinear
<1>4. ExpiryNested'
  BY DEF IInv, RowsOK, ExpiryNested
<1> QED BY <1>1, <1>2, <1>3, <1>4 DEF IInv

(* A step that issues token c: the first of a new family (p = 0), or the   *)
(* child of an unused token p, which is marked used.                       *)
Grows(p, c) ==
    /\ p \in Nat
    /\ c.parent = p /\ c.used = FALSE
    /\ DOMAIN token' = 1..(Len(token) + 1)
    /\ token'[Len(token) + 1] = c
    /\ \A t \in DOMAIN token :
          /\ token'[t].family = token[t].family
          /\ token'[t].parent = token[t].parent
          /\ token'[t].used <=> token[t].used \/ t = p
    /\ p = 0 => \A t \in DOMAIN token : token[t].family # c.family
    /\ p # 0 => /\ p \in DOMAIN token
                /\ ~token[p].used
                /\ token[p].family = c.family

LEMMA GrowLemma ==
    ASSUME IInv, NEW p, NEW c, Grows(p, c)
    PROVE  OneCurrentToken' /\ ChainIsLinear'
<1> USE TypeFacts DEF IInv, Grows
<1> DEFINE n == Len(token) + 1
<1>1. /\ \A t \in DOMAIN token' : t \in DOMAIN token \/ t = n
      /\ \A t \in DOMAIN token : t \in DOMAIN token' /\ t # n /\ t \in Nat /\ t # 0
      /\ n \in DOMAIN token' /\ n \in Nat /\ p < n
  OBVIOUS
<1>2. \A t \in DOMAIN token :
        /\ token[t].parent \in Nat
        /\ token[t].parent # 0 => token[t].parent \in DOMAIN token /\ token[t].parent < t
        /\ token[t].parent < n
  BY DEF ChainIsLinear, Token
<1>3. OneCurrentToken'
  <2> SUFFICES ASSUME NEW s \in DOMAIN token', NEW t \in DOMAIN token',
                      token'[s].family = token'[t].family,
                      ~token'[s].used, ~token'[t].used
               PROVE  s = t
    BY DEF OneCurrentToken
  <2>1. CASE s \in DOMAIN token /\ t \in DOMAIN token
    BY <2>1 DEF OneCurrentToken
  <2>2. ASSUME NEW r \in DOMAIN token, token[r].family = c.family, ~token'[r].used
        PROVE  FALSE
    BY <2>2 DEF OneCurrentToken
  <2> QED BY <2>1, <2>2, <1>1
<1>4. ASSUME NEW s \in DOMAIN token'
      PROVE  token'[s].used <=> \E t \in DOMAIN token' : token'[t].parent = s
  <2>1. CASE s = n
    <3>1. \A t \in DOMAIN token' : token'[t].parent # n
      BY <1>1, <1>2
    <3> QED BY <2>1, <3>1
  <2>2. CASE s \in DOMAIN token /\ s = p
    BY <2>2, <1>1
  <2>3. CASE s \in DOMAIN token /\ s # p
    <3>1. token'[s].used <=> token[s].used
      BY <2>3
    <3>2. token[s].used <=> \E t \in DOMAIN token : token[t].parent = s
      BY <2>3 DEF ChainIsLinear
    <3>3. (\E t \in DOMAIN token : token[t].parent = s)
             <=> \E t \in DOMAIN token' : token'[t].parent = s
      BY <2>3, <1>1
    <3> QED BY <3>1, <3>2, <3>3
  <2> QED BY <2>1, <2>2, <2>3, <1>1
<1>5. ASSUME NEW s \in DOMAIN token', NEW t \in DOMAIN token',
             token'[t].parent = token'[s].parent, token'[s].parent # 0
      PROVE  s = t
  <2>1. CASE s \in DOMAIN token /\ t \in DOMAIN token
    BY <2>1, <1>5 DEF ChainIsLinear
  <2>2. ASSUME NEW r \in DOMAIN token, token[r].parent = p, p # 0
        PROVE  FALSE
    BY <2>2 DEF ChainIsLinear
  <2> QED BY <2>1, <2>2, <1>1, <1>5
<1>6. ASSUME NEW s \in DOMAIN token', token'[s].parent # 0
      PROVE  /\ token'[s].parent < s
             /\ token'[token'[s].parent].family = token'[s].family
  <2>1. CASE s = n
    BY <2>1, <1>1, <1>6
  <2>2. CASE s \in DOMAIN token
    <3>1. token[s].parent # 0 /\ token'[s].parent = token[s].parent
      BY <2>2, <1>6
    <3>2. /\ token[s].parent < s
          /\ token[token[s].parent].family = token[s].family
      BY <2>2, <3>1 DEF ChainIsLinear
    <3> QED BY <2>2, <3>1, <3>2, <1>2
  <2> QED BY <2>1, <2>2, <1>1
<1> QED BY <1>3, <1>4, <1>5, <1>6 DEF ChainIsLinear

LEMMA LoginLemma ==
    ASSUME IInv, NEW h \in Requests, LoginCommits(h)
    PROVE  IInv'
<1> USE TypeFacts DEF IInv
<1> DEFINE absolute == req[h].at + AbsoluteTtl
           f0 == [user |-> req[h].user, key |-> req[h].key,
                  absolute |-> absolute, revoked |-> "no"]
           t0 == [family |-> Len(family) + 1, parent |-> 0,
                  expires |-> Expiry(req[h].at, absolute), used |-> FALSE]
           n == Len(token) + 1
           m == Len(family) + 1
<1>1. /\ req[h].user \in Users /\ req[h].key \in Keys /\ req[h].at \in Nat
      /\ absolute \in Nat
  BY TtlAssumption DEF LoginCommits, Request
<1>2. /\ f0 \in Family /\ t0 \in Token
      /\ t0.expires <= f0.absolute /\ t0.family = m
      /\ t0.parent = 0 /\ t0.used = FALSE
  <2>1. Expiry(req[h].at, absolute) \in Nat /\ Expiry(req[h].at, absolute) <= absolute
    BY <1>1, ExpiryLemma
  <2> HIDE DEF absolute
  <2>2. f0 \in Family
    BY <1>1 DEF Family, Reasons
  <2>3. t0 \in Token
    BY <2>1 DEF Token
  <2> QED BY <2>1, <2>2, <2>3
<1>3. family' = Append(family, f0) /\ token' = Append(token, t0)
  BY DEF LoginCommits
<1> HIDE DEF f0, t0, absolute
<1>4. /\ family' \in Seq(Family) /\ DOMAIN family' = 1..m
      /\ \A f \in DOMAIN family : family'[f] = family[f]
      /\ family'[m] = f0
  BY <1>2, <1>3, LenProperties DEF TypeOK
<1>5. /\ token' \in Seq(Token) /\ DOMAIN token' = 1..n
      /\ \A t \in DOMAIN token : token'[t] = token[t]
      /\ token'[n] = t0
  BY <1>2, <1>3, LenProperties DEF TypeOK
<1>6. /\ req'[h] = Idle
      /\ \A g \in Requests : g # h => req'[g] = req[g]
      /\ req' \in [Requests -> Request]
  BY DEF LoginCommits, Ends, TypeOK, Idle, Request
<1>7. TypeOK'
  BY <1>4, <1>5, <1>6 DEF TypeOK, LoginCommits
<1>8. /\ \A t \in DOMAIN token' : t \in DOMAIN token \/ t = n
      /\ \A t \in DOMAIN token :
            /\ t \in DOMAIN token'
            /\ token[t].family \in DOMAIN family
            /\ token[t].family # m
      /\ \A f \in DOMAIN family : f \in DOMAIN family'
      /\ m \in DOMAIN family' /\ n \in DOMAIN token'
  BY <1>4, <1>5 DEF RowsOK
<1> HIDE DEF m
<1>9. \A g \in Requests : req'[g].pc # "idle" =>
         /\ req'[g] = req[g]
         /\ req[g].pc \in {"waiting", "rotating"} => req[g].token \in DOMAIN token
  BY <1>6 DEF RowsOK, Idle
<1>10. RowsOK'
  BY <1>2, <1>5, <1>8, <1>9 DEF RowsOK
<1>11. LocksOK'
  <2> SUFFICES ASSUME NEW g \in Requests, req'[g].pc = "rotating"
               PROVE  /\ ~token'[req'[g].token].used
                      /\ family'[token'[req'[g].token].family].revoked = "no"
                      /\ family'[token'[req'[g].token].family].key = req'[g].key
                      /\ \A k \in Requests :
                            req'[k].pc = "rotating"
                               /\ token'[req'[k].token].family = token'[req'[g].token].family
                            => k = g
    BY DEF LocksOK, Live
  <2>1. \A k \in Requests : req'[k].pc = "rotating" =>
           /\ req'[k] = req[k] /\ req[k].token \in DOMAIN token
           /\ token'[req[k].token] = token[req[k].token]
           /\ family'[token[req[k].token].family] = family[token[req[k].token].family]
    BY <1>4, <1>5, <1>8, <1>9
  <2> QED BY SMTT(40), <2>1 DEF LocksOK, Live
<1>12. OneCurrentToken' /\ ChainIsLinear'
  <2>1. \A t \in DOMAIN token :
           /\ token'[t].family = token[t].family
           /\ token'[t].parent = token[t].parent
           /\ token'[t].used <=> token[t].used \/ t = 0
           /\ token[t].family # t0.family
    BY <1>2, <1>5, <1>8
  <2>2. Grows(0, t0)
    BY <2>1, <1>2, <1>5 DEF Grows
  <2> QED BY <2>2, GrowLemma
<1>13. ExpiryNested'
  BY <1>2, <1>4, <1>5, <1>8 DEF ExpiryNested
<1> QED BY <1>7, <1>10, <1>11, <1>12, <1>13

LEMMA RotationLemma ==
    ASSUME IInv, NEW h \in Requests, RefreshCommits(h)
    PROVE  IInv'
<1> USE TypeFacts DEF IInv
<1> DEFINE p == req[h].token
           f == token[p].family
           c == Child(h)
           n == Len(token) + 1
           marked == [token EXCEPT ![p].used = TRUE]
<1>1. /\ p \in DOMAIN token /\ p \in Nat /\ p # 0
      /\ ~token[p].used
      /\ f \in DOMAIN family /\ f \in Nat
      /\ req[h].at \in Nat /\ family[f].absolute \in Nat
  BY DEF RefreshCommits, RowsOK, LocksOK, Request, Family
<1>2. /\ c \in Token /\ c.family = f /\ c.parent = p /\ c.used = FALSE
      /\ c.expires <= family[f].absolute
  <2>1. /\ Expiry(req[h].at, family[f].absolute) \in Nat
        /\ Expiry(req[h].at, family[f].absolute) <= family[f].absolute
    BY <1>1, ExpiryLemma
  <2> QED BY <1>1, <2>1 DEF Child, Token
<1>3. token' = Append(marked, c) /\ family' = family
  BY DEF RefreshCommits
<1> HIDE DEF c
<1>4. /\ marked \in Seq(Token) /\ Len(marked) = Len(token)
      /\ DOMAIN marked = DOMAIN token
      /\ \A t \in DOMAIN token :
            /\ marked[t].family = token[t].family
            /\ marked[t].parent = token[t].parent
            /\ marked[t].expires = token[t].expires
            /\ marked[t].used <=> token[t].used \/ t = p
  <2>1. [token[p] EXCEPT !.used = TRUE] \in Token
    BY <1>1 DEF Token
  <2>2. marked = [token EXCEPT ![p] = [token[p] EXCEPT !.used = TRUE]]
    OBVIOUS
  <2>3. /\ marked \in Seq(Token) /\ Len(marked) = Len(token)
        /\ DOMAIN marked = DOMAIN token
    BY <1>1, <2>1, <2>2, ExceptSeq DEF TypeOK
  <2>4. \A t \in DOMAIN token : token[t] \in Token
    OBVIOUS
  <2> QED BY <1>1, <2>3, <2>4 DEF Token
<1> HIDE DEF marked
<1>5. /\ token' \in Seq(Token) /\ DOMAIN token' = 1..n
      /\ \A t \in DOMAIN token : token'[t] = marked[t]
      /\ token'[n] = c
  BY <1>2, <1>3, <1>4, LenProperties
<1>6. /\ req'[h] = Idle
      /\ \A g \in Requests : g # h => req'[g] = req[g]
      /\ req' \in [Requests -> Request]
  BY DEF RefreshCommits, Ends, TypeOK, Idle, Request
<1>7. TypeOK'
  BY <1>3, <1>5, <1>6 DEF TypeOK, RefreshCommits
<1>8. /\ \A t \in DOMAIN token' : t \in DOMAIN token \/ t = n
      /\ \A t \in DOMAIN token : t \in DOMAIN token'
  BY <1>5
<1>9. \A g \in Requests : req'[g].pc # "idle" =>
         /\ g # h
         /\ req'[g] = req[g]
         /\ req[g].pc \in {"waiting", "rotating"} => req[g].token \in DOMAIN token
  BY <1>6 DEF RowsOK, Idle
<1>10. RowsOK'
  BY <1>1, <1>2, <1>3, <1>4, <1>5, <1>8, <1>9 DEF RowsOK
<1>11. LocksOK'
  <2> SUFFICES ASSUME NEW g \in Requests, req'[g].pc = "rotating"
               PROVE  /\ ~token'[req'[g].token].used
                      /\ family'[token'[req'[g].token].family].revoked = "no"
                      /\ family'[token'[req'[g].token].family].key = req'[g].key
                      /\ \A k \in Requests :
                            req'[k].pc = "rotating"
                               /\ token'[req'[k].token].family = token'[req'[g].token].family
                            => k = g
    BY DEF LocksOK, Live
  <2>1. \A k \in Requests : req'[k].pc = "rotating" =>
           /\ req'[k] = req[k] /\ req[k].pc = "rotating" /\ k # h
           /\ req[k].token \in DOMAIN token
           /\ token'[req[k].token].family = token[req[k].token].family
    BY <1>4, <1>5, <1>9
  <2>2. req[g].token # p
    BY <2>1 DEF RefreshCommits, LocksOK
  <2>3. token'[req[g].token].used <=> token[req[g].token].used
    BY <2>1, <2>2, <1>4, <1>5
  <2>4. /\ ~token[req[g].token].used
        /\ family[token[req[g].token].family].revoked = "no"
        /\ family[token[req[g].token].family].key = req[g].key
    BY <2>1 DEF LocksOK, Live
  <2>5. \A k \in Requests :
           req'[k].pc = "rotating"
              /\ token[req[k].token].family = token[req[g].token].family
           => k = g
    BY <2>1 DEF LocksOK
  <2>6. /\ req'[g] = req[g]
        /\ token'[req[g].token].family = token[req[g].token].family
        /\ family' = family
    BY <2>1, <1>3
  <2>7. ~token'[req'[g].token].used
    BY <2>3, <2>4, <2>6
  <2>8. /\ family'[token'[req'[g].token].family].revoked = "no"
        /\ family'[token'[req'[g].token].family].key = req'[g].key
    BY <2>4, <2>6
  <2>9. ASSUME NEW k \in Requests, req'[k].pc = "rotating",
               token'[req'[k].token].family = token'[req'[g].token].family
        PROVE  k = g
    <3>1. /\ req'[k] = req[k]
          /\ token'[req[k].token].family = token[req[k].token].family
      BY <2>1, <2>9
    <3>2. token[req[k].token].family = token[req[g].token].family
      BY <3>1, <2>6, <2>9
    <3> QED BY <3>2, <2>5, <2>9
  <2> HIDE DEF IInv
  <2> QED BY <2>7, <2>8, <2>9
<1>12. OneCurrentToken' /\ ChainIsLinear'
  <2>1. \A t \in DOMAIN token :
           /\ token'[t].family = token[t].family
           /\ token'[t].parent = token[t].parent
           /\ token'[t].used <=> token[t].used \/ t = p
    BY <1>4, <1>5
  <2>2. Grows(p, c)
    BY <2>1, <1>1, <1>2, <1>5 DEF Grows
  <2> QED BY <2>2, GrowLemma
<1>13. ExpiryNested'
  BY <1>2, <1>3, <1>4, <1>5, <1>8 DEF ExpiryNested
<1> QED BY <1>7, <1>10, <1>11, <1>12, <1>13

-----------------------------------------------------------------------------
LEMMA InitIInv == Init => IInv
<1> SUFFICES ASSUME Init PROVE IInv
  OBVIOUS
<1>1. /\ family \in Seq(Family) /\ token \in Seq(Token)
      /\ DOMAIN token = {} /\ DOMAIN family = {}
  BY EmptySeq, LenProperties DEF Init
<1>2. Idle \in Request /\ Idle.pc = "idle"
  BY DEF Idle, Request
<1>3. TypeOK
  BY <1>1, <1>2 DEF Init, TypeOK
<1> QED
  BY <1>1, <1>2, <1>3
  DEF Init, IInv, RowsOK, LocksOK, OneCurrentToken, ChainIsLinear, ExpiryNested

LEMMA NextIInv == IInv /\ [Next]_vars => IInv'
<1> SUFFICES ASSUME IInv, [Next]_vars PROVE IInv'
  OBVIOUS
<1> USE TypeFacts
<1>0. TypeOK /\ Idle \in Request /\ Idle.pc = "idle"
  BY DEF IInv, Idle, Request
<1>1. ASSUME NEW h \in Requests, UNCHANGED <<now, active, family, token>>, Ends(h)
      PROVE  IInv'
  <2>1. TypeOK'
    BY <1>0, <1>1 DEF TypeOK, Ends
  <2> QED BY <1>0, <1>1, <2>1, QuietLemma DEF Ends
<1>2. ASSUME NEW h \in Requests, NEW u \in Users, NEW k \in Keys, LoginChecks(h, u, k)
      PROVE  IInv'
  <2> DEFINE e == [pc |-> "verified", user |-> u, key |-> k, at |-> now]
  <2>1. e \in Request /\ e.pc = "verified"
    BY <1>0 DEF TypeOK, Request
  <2>2. req' = [req EXCEPT ![h] = e] /\ UNCHANGED <<now, active, family, token>>
    BY <1>2 DEF LoginChecks
  <2> HIDE DEF e
  <2>3. TypeOK'
    BY <1>0, <2>1, <2>2 DEF TypeOK
  <2> QED BY <2>1, <2>2, <2>3, QuietLemma
<1>3. ASSUME NEW h \in Requests, LoginCommits(h) PROVE IInv'
  BY <1>3, LoginLemma
<1>4. ASSUME NEW h \in Requests, NEW t \in DOMAIN token, NEW k \in Keys,
             RefreshArrives(h, t, k)
      PROVE  IInv'
  <2> DEFINE e == [pc |-> "waiting", token |-> t, key |-> k, at |-> now]
  <2>1. t \in Nat
    BY <1>0
  <2>2. e \in Request /\ e.pc = "waiting" /\ e.token = t
    BY <1>0, <2>1 DEF TypeOK, Request
  <2>3. req' = [req EXCEPT ![h] = e] /\ UNCHANGED <<now, active, family, token>>
    BY <1>4 DEF RefreshArrives
  <2> HIDE DEF e
  <2>4. TypeOK'
    BY <1>0, <2>2, <2>3 DEF TypeOK
  <2> QED BY <2>2, <2>3, <2>4, QuietLemma
<1>5. ASSUME NEW h \in Requests, RefreshRefused(h) \/ Abandon(h) PROVE IInv'
  BY <1>1, <1>5 DEF RefreshRefused, Abandon
<1>6. ASSUME NEW h \in Requests, RefreshReplayed(h) \/ RefreshInactive(h)
      PROVE  IInv'
  <2> DEFINE f == token[req[h].token].family
  <2>1. PICK reason \in Reasons : Revoke(f, reason)
    BY <1>6 DEF RefreshReplayed, RefreshInactive, Reasons
  <2>2. f \in DOMAIN family /\ ~FamilyLocked(f)
    BY <1>6 DEF RefreshReplayed, RefreshInactive, Locks, IInv, RowsOK
  <2>3. Ends(h) /\ UNCHANGED <<now, active, token>>
    BY <1>6 DEF RefreshReplayed, RefreshInactive
  <2> HIDE DEF f
  <2>4. /\ DOMAIN family' = DOMAIN family
        /\ family' \in Seq(Family)
        /\ \A g \in DOMAIN family :
              /\ family'[g].key = family[g].key
              /\ family'[g].absolute = family[g].absolute
              /\ family'[g] = family[g] \/ g = f
    <3> DEFINE e == [family[f] EXCEPT !.revoked = reason]
    <3>1. e \in Family /\ e.key = family[f].key /\ e.absolute = family[f].absolute
      BY <1>0, <2>1, <2>2 DEF Family
    <3>2. family' = [family EXCEPT ![f] = e]
      BY <2>1 DEF Revoke
    <3> HIDE DEF e
    <3> QED BY <1>0, <2>2, <3>1, <3>2, ExceptSeq DEF TypeOK
  <2>5. TypeOK'
    BY <1>0, <2>3, <2>4 DEF TypeOK, Ends
  <2>6. \A g \in Requests : req'[g] = req[g] \/ req'[g] = Idle
    BY <1>0, <2>3 DEF TypeOK, Ends
  <2> QED BY <2>2, <2>3, <2>4, <2>5, <2>6, RevokeLemma
<1>7. ASSUME NEW h \in Requests, RefreshGranted(h) PROVE IInv'
  <2> DEFINE e == [req[h] EXCEPT !.pc = "rotating"]
  <2>1. /\ e \in Request /\ e.pc = "rotating"
        /\ e.token = req[h].token /\ e.key = req[h].key
    BY <1>0, <1>7 DEF RefreshGranted, Locks, Request
  <2>2. req' = [req EXCEPT ![h] = e] /\ UNCHANGED <<now, active, family, token>>
    BY <1>7 DEF RefreshGranted
  <2> HIDE DEF e
  <2>3. TypeOK'
    BY <1>0, <2>1, <2>2 DEF TypeOK
  <2>4. /\ e.token \in DOMAIN token
        /\ ~token[e.token].used
        /\ Live(token[e.token].family)
        /\ family[token[e.token].family].key = e.key
        /\ ~FamilyLocked(token[e.token].family)
    BY <1>7, <2>1 DEF RefreshGranted, Locks, Dead, Bound, IInv, RowsOK
  <2> QED BY <2>2, <2>3, <2>4, QuietLemma
<1>8. ASSUME NEW h \in Requests, RefreshCommits(h) PROVE IInv'
  BY <1>8, RotationLemma
<1>9. ASSUME NEW t \in DOMAIN token, NEW k \in Keys, Logout(t, k) PROVE IInv'
  <2> DEFINE f == token[t].family
  <2>1. /\ Revoke(f, "logout") /\ ~FamilyLocked(f)
        /\ UNCHANGED <<now, active, token, req>>
    BY <1>9 DEF Logout
  <2>2. f \in DOMAIN family
    BY DEF IInv, RowsOK
  <2> HIDE DEF f
  <2>3. /\ DOMAIN family' = DOMAIN family
        /\ family' \in Seq(Family)
        /\ \A g \in DOMAIN family :
              /\ family'[g].key = family[g].key
              /\ family'[g].absolute = family[g].absolute
              /\ family'[g] = family[g] \/ g = f
    <3> DEFINE e == [family[f] EXCEPT !.revoked = "logout"]
    <3>1. e \in Family /\ e.key = family[f].key /\ e.absolute = family[f].absolute
      BY <1>0, <2>2 DEF Family, Reasons
    <3>2. family' = [family EXCEPT ![f] = e]
      BY <2>1 DEF Revoke
    <3> HIDE DEF e
    <3> QED BY <1>0, <2>2, <3>1, <3>2, ExceptSeq DEF TypeOK
  <2>4. TypeOK'
    BY <1>0, <2>1, <2>3 DEF TypeOK
  <2> QED BY <2>1, <2>3, <2>4, RevokeLemma
<1>10. ASSUME NEW u \in Users, ResetPassword(u) PROVE IInv'
  <2>1. /\ DOMAIN family' = DOMAIN family
        /\ \A f \in DOMAIN family :
              /\ family'[f] \in Family
              /\ family'[f].key = family[f].key
              /\ family'[f].absolute = family[f].absolute
              /\ family'[f] = family[f] \/ ~FamilyLocked(f)
    BY <1>0, <1>10 DEF ResetPassword, Family, Reasons
  <2>2. family' \in Seq(Family)
    BY <1>0, <1>10, <2>1, SeqDef DEF ResetPassword
  <2>3. TypeOK'
    BY <1>0, <1>10, <2>2 DEF ResetPassword, TypeOK
  <2> QED BY <1>10, <2>1, <2>3, RevokeLemma DEF ResetPassword
<1>11. ASSUME UNCHANGED <<family, token, req>>, TypeOK' PROVE IInv'
  BY <1>11 DEF IInv, RowsOK, LocksOK, Live, OneCurrentToken, ChainIsLinear, ExpiryNested
<1>12. ASSUME NEW u \in Users, SetActive(u) PROVE IInv'
  <2>1. TypeOK'
    BY <1>0, <1>12 DEF SetActive, TypeOK
  <2> QED BY <1>11, <1>12, <2>1 DEF SetActive
<1>13. ASSUME Tick \/ UNCHANGED vars PROVE IInv'
  <2>1. TypeOK'
    BY <1>0, <1>13 DEF Tick, vars, TypeOK
  <2> QED BY <1>11, <1>13, <2>1 DEF Tick, vars
<1> QED
  BY <1>2, <1>3, <1>4, <1>5, <1>6, <1>7, <1>8, <1>9, <1>10, <1>12, <1>13
  DEF Next, RefreshStep

-----------------------------------------------------------------------------
(* Logins, refreshes, logouts, resets, in any order and number, keep IInv. *)
THEOREM Invariant == Spec => []IInv
BY InitIInv, NextIInv, PTL DEF Spec

(* Types, and with them that expiry arithmetic never leaves the numbers.   *)
THEOREM TypeCorrect == Spec => []TypeOK
<1>1. IInv => TypeOK
  BY DEF IInv
<1> QED BY <1>1, Invariant, PTL

(* FamiliesAreChains: racing refreshes never leave two tokens to rotate,   *)
(* and a refresh token is exchanged at most once.                          *)
THEOREM OneChain == Spec => []FamiliesAreChains
<1>1. IInv => FamiliesAreChains
  BY DEF IInv, FamiliesAreChains
<1> QED BY <1>1, Invariant, PTL

(* ExpiryNested: no session outlives refresh_absolute_ttl_seconds.         *)
THEOREM NestedExpiry == Spec => []ExpiryNested
<1>1. IInv => ExpiryNested
  BY DEF IInv
<1> QED BY <1>1, Invariant, PTL

(* A rotation adds one token, the child.                                   *)
LEMMA NewestIsChild ==
    ASSUME IInv, NEW h \in Requests, RefreshCommits(h), NEW t \in DOMAIN token' \ DOMAIN token
    PROVE  token'[t] = Child(h)
<1> USE TypeFacts DEF IInv
<1> DEFINE marked == [token EXCEPT ![req[h].token].used = TRUE]
<1>1. token' = Append(marked, Child(h)) /\ DOMAIN marked = DOMAIN token
  BY DEF RefreshCommits
<1>2. marked \in Seq(Token) /\ Len(marked) = Len(token)
  <2>1. [token[req[h].token] EXCEPT !.used = TRUE] \in Token /\ req[h].token \in DOMAIN token
    BY DEF RefreshCommits, RowsOK, Token
  <2> QED BY <2>1, ExceptSeq DEF TypeOK
<1> HIDE DEF marked
<1>3. DOMAIN token' = 1..(Len(token) + 1) /\ token'[Len(token) + 1] = Child(h)
  BY <1>1, <1>2
<1> QED BY <1>3

LEMMA StepRotationEarned ==
    ASSUME IInv, [Next]_vars
    PROVE  \A t \in DOMAIN token' \ DOMAIN token :
             token'[t].parent # 0 =>
                /\ ~token[token'[t].parent].used
                /\ Live(token'[t].family)
                /\ \E h \in Requests :
                      /\ req[h].pc = "rotating" /\ req[h].token = token'[t].parent
                      /\ req[h].key = family[token'[t].family].key
<1> USE TypeFacts
<1> SUFFICES ASSUME NEW t \in DOMAIN token', t \notin DOMAIN token, token'[t].parent # 0
             PROVE  /\ ~token[token'[t].parent].used
                    /\ family[token'[t].family].revoked = "no"
                    /\ \E h \in Requests :
                          /\ req[h].pc = "rotating" /\ req[h].token = token'[t].parent
                          /\ req[h].key = family[token'[t].family].key
  BY DEF Live
<1>0. IInv'
  BY NextIInv
<1>1. ASSUME NEW h \in Requests, LoginCommits(h) PROVE FALSE
  <2>1. /\ DOMAIN token' = 1..(Len(token) + 1)
        /\ token'[Len(token) + 1].parent = 0
    BY <1>0, <1>1, LenProperties DEF IInv, TypeOK, LoginCommits
  <2> QED BY <2>1 DEF IInv
<1>2. ASSUME NEW h \in Requests, RefreshCommits(h)
      PROVE  token'[t] = Child(h) /\ req[h].pc = "rotating"
  BY <1>2, NewestIsChild DEF RefreshCommits
<1>3. (\E h \in Requests : LoginCommits(h) \/ RefreshCommits(h)) \/ token' = token
  BY DEF Next, RefreshStep, LoginChecks, RefreshArrives, RefreshRefused, RefreshReplayed,
         RefreshInactive, RefreshGranted, Abandon, Logout, ResetPassword, SetActive, Tick, vars
<1>4. PICK h \in Requests : RefreshCommits(h)
  BY <1>1, <1>3
<1>5. /\ req[h].pc = "rotating" /\ token'[t].parent = req[h].token
      /\ token'[t].family = token[req[h].token].family
  BY <1>2, <1>4 DEF Child
<1> QED BY <1>5 DEF IInv, LocksOK, Live

(* RotationIsEarned: what refresh checked still holds when it commits.     *)
THEOREM EarnedRotation == Spec => RotationIsEarned
<1>1. IInv /\ [Next]_vars =>
        [\A t \in DOMAIN token' \ DOMAIN token :
           token'[t].parent # 0 =>
              /\ ~token[token'[t].parent].used
              /\ Live(token'[t].family)
              /\ \E h \in Requests :
                    /\ req[h].pc = "rotating" /\ req[h].token = token'[t].parent
                    /\ req[h].key = family[token'[t].family].key]_vars
  BY StepRotationEarned
<1> QED BY <1>1, Invariant, PTL DEF Spec, RotationIsEarned

LEMMA StepRevokedFinal ==
    ASSUME IInv, [Next]_vars
    PROVE  \A f \in DOMAIN family :
             ~Live(f) =>
                /\ family'[f] = family[f]
                /\ \A t \in DOMAIN token' \ DOMAIN token : token'[t].family # f
<1> USE TypeFacts DEF IInv
<1> SUFFICES ASSUME NEW f \in DOMAIN family, ~Live(f)
             PROVE  /\ family'[f] = family[f]
                    /\ \A t \in DOMAIN token' \ DOMAIN token : token'[t].family # f
  OBVIOUS
<1>1. ASSUME NEW h \in Requests, LoginCommits(h)
      PROVE  /\ family'[f] = family[f]
             /\ \A t \in DOMAIN token' \ DOMAIN token : token'[t].family = Len(family) + 1
  <2>1. family \in Seq(Family) /\ token \in Seq(Token)
    BY DEF TypeOK
  <2>2. family'[f] = family[f]
    BY <1>1, <2>1 DEF LoginCommits
  <2>3. /\ DOMAIN token' = 1..(Len(token) + 1)
        /\ token'[Len(token) + 1].family = Len(family) + 1
    BY <1>1, <2>1 DEF LoginCommits
  <2> QED BY <2>2, <2>3
<1>2. ASSUME NEW g, NEW reason, Live(g), Revoke(g, reason)
      PROVE  family'[f] = family[f]
  BY <1>2 DEF Revoke
<1>3. ASSUME NEW h \in Requests, RefreshReplayed(h) \/ RefreshInactive(h)
      PROVE  family'[f] = family[f]
  BY <1>2, <1>3 DEF RefreshReplayed, RefreshInactive, Dead
<1>4. ASSUME NEW t \in DOMAIN token, NEW k \in Keys, Logout(t, k)
      PROVE  family'[f] = family[f]
  BY <1>2, <1>4 DEF Logout
<1>5. ASSUME NEW u \in Users, ResetPassword(u)
      PROVE  family'[f] = family[f]
  BY <1>5 DEF ResetPassword
<1>6. \/ \E h \in Requests : LoginCommits(h) \/ RefreshReplayed(h) \/ RefreshInactive(h)
      \/ \E t \in DOMAIN token, k \in Keys : Logout(t, k)
      \/ \E u \in Users : ResetPassword(u)
      \/ family' = family
  BY DEF Next, RefreshStep, LoginChecks, RefreshArrives, RefreshRefused, RefreshGranted,
         RefreshCommits, Abandon, SetActive, Tick, vars
<1>7. family'[f] = family[f]
  BY <1>1, <1>3, <1>4, <1>5, <1>6
<1>8. ASSUME NEW t \in DOMAIN token' \ DOMAIN token
      PROVE  token'[t].family # f
  <2>1. CASE \E h \in Requests : LoginCommits(h)
    BY <1>1, <1>8, <2>1
  <2>2. CASE \E h \in Requests : RefreshCommits(h)
    <3>1. PICK h \in Requests : RefreshCommits(h)
      BY <2>2
    <3>2. token'[t] = Child(h)
      BY <1>8, <3>1, NewestIsChild
    <3> QED BY SMTT(40), <3>1, <3>2 DEF RefreshCommits, Child, LocksOK
  <2>3. (\E h \in Requests : LoginCommits(h) \/ RefreshCommits(h)) \/ token' = token
    BY DEF Next, RefreshStep, LoginChecks, RefreshArrives, RefreshRefused, RefreshReplayed,
           RefreshInactive, RefreshGranted, Abandon, Logout, ResetPassword, SetActive, Tick, vars
  <2> QED BY <1>8, <2>1, <2>2, <2>3
<1> QED BY <1>7, <1>8

(* RevokedIsFinal: nothing reopens a revoked family, and a refresh that was  *)
(* under way when it was revoked issues no token for it.                   *)
THEOREM RevokedForGood == Spec => RevokedIsFinal
<1>1. IInv /\ [Next]_vars =>
        [\A f \in DOMAIN family :
           ~Live(f) =>
              /\ family'[f] = family[f]
              /\ \A t \in DOMAIN token' \ DOMAIN token : token'[t].family # f]_vars
  BY StepRevokedFinal
<1> QED BY <1>1, Invariant, PTL DEF Spec, RevokedIsFinal

=============================================================================
