----------------------- MODULE PythonExecutionsProofs -----------------------
(***************************************************************************)
(* PythonExecutions for any number of requests, executions and artifacts,  *)
(* any lifetime and any clock: code runs once, evidence is final, and what *)
(* is kept of a run is backed by it and expires as one.                    *)
(***************************************************************************)
EXTENDS PythonExecutions, TLAPS, SequenceTheorems

(* What is true of a handler in each of its states: of the execution it    *)
(* owns, of the clock value it goes by, and of the row it has deleted.     *)
HandlerOK(x) ==
    /\ x.pc \in {"idle", "planning"} => x.exec = 0
    /\ x.pc \notin {"idle", "planning", "sweeping"} => x.exec # 0
    /\ x.exec # 0 => x.exec \in DOMAIN exec /\ exec[x.exec].status \in Open
    /\ x.pc \in {"queued", "running"} => x.outcome = "none"
    /\ x.pc = "answered" => x.outcome # "none"
    /\ x.pc = "sweeping" /\ x.exec # 0 => x.outcome # "none"
    /\ x.pc \in {"persisting", "blocked", "storing"} => x.outcome \in Accepted
    /\ x.outcome \in Accepted => x.exec # 0 /\ exec[x.exec].ran > 0
    /\ x.at <= now
    /\ x.sweeps => /\ x.pc \in {"planning", "persisting", "storing"}
                   /\ Exists /\ session.expires <= x.at

(* An execution has one handler, and the session row one that holds it.    *)
HandlersOK ==
    /\ \A r \in Requests : HandlerOK(req[r])
    /\ \A r, q \in Requests :
          /\ req[r].exec = req[q].exec /\ req[r].exec # 0 => r = q
          /\ Holds(r) /\ Holds(q) => r = q

(* Code has run only if the supervisor remembers it or was restarted.      *)
RanOK ==
    \A e \in DOMAIN exec :
        \/ exec[e].forgot
        \/ exec[e].ran = 0
        \/ exec[e].ran = 1 /\ e \in consumed

KeptOK ==
    /\ Exists => session.by \in DOMAIN exec
    /\ \A a \in DOMAIN artifact : artifact[a].by \in DOMAIN exec

IInv ==
    /\ TypeOK
    /\ HandlersOK
    /\ RanOK
    /\ KeptOK
    /\ KeptIsAccepted
    /\ SharedWindow

-----------------------------------------------------------------------------
LEMMA TypeFacts ==
    ASSUME TypeOK
    PROVE  /\ Len(exec) \in Nat /\ DOMAIN exec = 1..Len(exec)
           /\ Len(artifact) \in Nat /\ DOMAIN artifact = 1..Len(artifact)
           /\ \A e \in DOMAIN exec :
                 /\ exec[e] \in Execution
                 /\ exec[e].ran \in Nat
           /\ \A a \in DOMAIN artifact :
                 /\ artifact[a] \in Artifact
                 /\ artifact[a].expires \in Nat
           /\ session.expires \in Nat /\ now \in Nat
           /\ \A r \in Requests :
                 /\ req[r] \in Request
                 /\ req[r].exec \in Nat /\ req[r].at \in Nat /\ req[r].row \in Nat
<1>1. Len(exec) \in Nat /\ DOMAIN exec = 1..Len(exec)
  BY LenProperties DEF TypeOK
<1>2. Len(artifact) \in Nat /\ DOMAIN artifact = 1..Len(artifact)
  BY LenProperties DEF TypeOK
<1>3. \A e \in DOMAIN exec : exec[e] \in Execution
  BY <1>1, ElementOfSeq DEF TypeOK
<1>4. \A e \in DOMAIN exec : exec[e].ran \in Nat
  BY <1>3 DEF Execution
<1>5. \A a \in DOMAIN artifact : artifact[a] \in Artifact
  BY <1>2, ElementOfSeq DEF TypeOK
<1>6. \A a \in DOMAIN artifact : artifact[a].expires \in Nat
  BY <1>5 DEF Artifact
<1>7. session.expires \in Nat /\ now \in Nat
  BY DEF TypeOK, Session
<1>8. \A r \in Requests : req[r] \in Request
  BY DEF TypeOK
<1>9. \A r \in Requests :
        req[r].exec \in Nat /\ req[r].at \in Nat /\ req[r].row \in Nat
  BY <1>8 DEF Request
<1> QED BY <1>1, <1>2, <1>3, <1>4, <1>5, <1>6, <1>7, <1>8, <1>9

(* The evidence only grows: executions are added, a closed one is left as  *)
(* it is, and what has run has run.                                        *)
Grows ==
    \A e \in DOMAIN exec :
        /\ e \in DOMAIN exec'
        /\ exec[e].status \notin Open => exec'[e].status = exec[e].status
        /\ exec'[e].ran \in Nat /\ exec'[e].ran >= exec[e].ran

(* A handler r that moves to x and writes no execution but its own leaves  *)
(* the others as they were, if those that hold the row keep it.            *)
OthersKept(r) ==
    /\ now' = now
    /\ \A e \in DOMAIN exec :
          /\ e \in DOMAIN exec'
          /\ exec'[e].status = exec[e].status \/ req[r].exec = e
          /\ exec'[e].ran \in Nat /\ exec'[e].ran >= exec[e].ran
    /\ \A q \in Requests \ {r} : req[q].sweeps => session' = session

HoldsRow(x) == x.sweeps \/ (x.pc = "storing" /\ x.row # 0)

LEMMA HandlerLemma ==
    ASSUME IInv, NEW r \in Requests, NEW x,
           req' = [req EXCEPT ![r] = x],
           OthersKept(r), HandlerOK(x)',
           x.exec \in {0, req[r].exec} \/ x.exec \notin DOMAIN exec,
           HoldsRow(x) => ~LockedFor(r)
    PROVE  HandlersOK'
<1> USE DEF IInv
<1>1. req'[r] = x /\ \A q \in Requests \ {r} : req'[q] = req[q]
  BY DEF TypeOK
<1>2. ASSUME NEW q \in Requests \ {r} PROVE HandlerOK(req[q])'
  <2>1. HandlerOK(req[q]) /\ req'[q] = req[q]
    BY <1>1 DEF HandlersOK
  <2>2. req[q].exec # 0 =>
          /\ req[q].exec \in DOMAIN exec /\ req[q].exec \in DOMAIN exec'
          /\ exec'[req[q].exec].status = exec[req[q].exec].status
          /\ exec[req[q].exec].ran \in Nat
          /\ exec'[req[q].exec].ran \in Nat
          /\ exec'[req[q].exec].ran >= exec[req[q].exec].ran
    BY <2>1, <1>2, TypeFacts DEF OthersKept, HandlerOK, HandlersOK
  <2>3. req[q].sweeps => session' = session
    BY DEF OthersKept
  <2> HIDE DEF IInv
  <2>4. req[q].outcome \in Accepted => exec'[req[q].exec].ran > 0
    BY <2>1, <2>2 DEF HandlerOK
  <2>5. req[q].sweeps => Exists' /\ session'.expires <= req[q].at
    BY <2>1, <2>3 DEF HandlerOK, Exists
  <2> QED BY <2>1, <2>2, <2>4, <2>5 DEF HandlerOK, OthersKept
<1>3. \A q \in Requests : HandlerOK(req[q])'
  BY <1>1, <1>2
<1>4. ASSUME NEW p \in Requests, NEW q \in Requests,
             req'[p].exec = req'[q].exec, req'[p].exec # 0
      PROVE  p = q
  <2>1. \A s \in Requests : req[s].exec # 0 => req[s].exec \in DOMAIN exec
    BY DEF HandlersOK, HandlerOK
  <2> QED BY <2>1, <1>1, <1>4 DEF HandlersOK
<1>5. ASSUME NEW p \in Requests, NEW q \in Requests, Holds(p)', Holds(q)'
      PROVE  p = q
  <2>1. \A s \in Requests \ {r} : Holds(s)' <=> Holds(s)
    BY <1>1 DEF Holds
  <2>2. Holds(r)' => \A s \in Requests \ {r} : ~Holds(s)
    BY <1>1 DEF Holds, HoldsRow, LockedFor
  <2> QED BY <2>1, <2>2, <1>5 DEF HandlersOK
<1> QED BY <1>3, <1>4, <1>5 DEF HandlersOK

(* What was kept stays backed as the evidence grows.                       *)
LEMMA KeptLemma ==
    ASSUME IInv, Grows,
           session' \in {session, NoSession},
           \A a \in DOMAIN artifact' : a \in DOMAIN artifact /\ artifact'[a].by = artifact[a].by
    PROVE  KeptOK' /\ KeptIsAccepted'
<1> USE DEF IInv
<1>1. Exists' => Exists /\ session' = session
  BY DEF Exists
<1>2. \A e \in DOMAIN exec :
        exec[e].status \in Accepted /\ exec[e].ran > 0 =>
           e \in DOMAIN exec' /\ exec'[e].status \in Accepted /\ exec'[e].ran > 0
  <2>1. \A s \in Accepted : s \notin Open
    BY DEF Accepted, Open
  <2> QED BY <2>1, TypeFacts DEF Grows
<1>3. KeptOK'
  BY <1>1 DEF KeptOK, Grows
<1>4. KeptIsAccepted'
  BY <1>1, <1>2 DEF KeptOK, KeptIsAccepted
<1> QED BY <1>3, <1>4

(* A step that leaves session and artifacts but for their files.           *)
LEMMA QuietLemma ==
    ASSUME IInv, TypeOK', Grows, HandlersOK', RanOK', now' = now, session' = session,
           DOMAIN artifact' = DOMAIN artifact,
           \A a \in DOMAIN artifact : /\ artifact'[a].by = artifact[a].by
                                      /\ artifact'[a].expires = artifact[a].expires
    PROVE  IInv'
<1>1. KeptOK' /\ KeptIsAccepted'
  BY KeptLemma
<1>2. SharedWindow'
  BY DEF IInv, SharedWindow, Expired, Exists
<1> QED BY <1>1, <1>2 DEF IInv

(* A step that deletes an expired session row.                             *)
LEMMA SweepLemma ==
    ASSUME IInv, TypeOK', Grows, HandlersOK', RanOK', UNCHANGED <<now, artifact>>,
           session' = NoSession, Exists => session.expires <= now
    PROVE  IInv'
<1>1. KeptOK' /\ KeptIsAccepted'
  BY KeptLemma
<1>2. SharedWindow'
  BY TypeFacts DEF IInv, SharedWindow, Expired
<1> QED BY <1>1, <1>2 DEF IInv

-----------------------------------------------------------------------------
(* How a step writes the evidence and the artifacts. *)

LEMMA ExecLemma ==
    ASSUME TypeOK, NEW e \in DOMAIN exec, NEW x \in Execution,
           exec' = [exec EXCEPT ![e] = x]
    PROVE  /\ exec' \in Seq(Execution)
           /\ DOMAIN exec' = DOMAIN exec
           /\ exec'[e] = x
           /\ \A d \in DOMAIN exec : d # e => exec'[d] = exec[d]
BY TypeFacts, ExceptSeq DEF TypeOK

LEMMA RecordLemma ==
    ASSUME TypeOK, NEW status \in {"denied", "queued"}, Record(status)
    PROVE  /\ exec' \in Seq(Execution)
           /\ DOMAIN exec \subseteq DOMAIN exec'
           /\ DOMAIN exec' = DOMAIN exec \cup {Len(exec) + 1}
           /\ Len(exec) + 1 \notin DOMAIN exec
           /\ exec'[Len(exec) + 1] = [status |-> status, ran |-> 0, forgot |-> FALSE]
           /\ \A d \in DOMAIN exec : exec'[d] = exec[d]
<1>1. [status |-> status, ran |-> 0, forgot |-> FALSE] \in Execution
  BY DEF Execution, Open
<1> QED
  BY <1>1, TypeFacts, AppendProperties DEF TypeOK, Record

LEMMA SweptLemma ==
    ASSUME TypeOK
    PROVE  /\ Swept \in Seq(Artifact)
           /\ DOMAIN Swept = DOMAIN artifact
           /\ \A a \in DOMAIN artifact : /\ Swept[a].by = artifact[a].by
                                         /\ Swept[a].expires = artifact[a].expires
<1>1. /\ DOMAIN Swept = DOMAIN artifact
      /\ \A a \in DOMAIN artifact :
            Swept[a] = [artifact[a] EXCEPT !.payload = @ /\ ~Expired(artifact[a], now)]
  BY DEF Swept
<1>2. ASSUME NEW a \in DOMAIN artifact
      PROVE  /\ Swept[a] \in Artifact
             /\ Swept[a].by = artifact[a].by
             /\ Swept[a].expires = artifact[a].expires
  <2>1. artifact[a] \in Artifact
    BY TypeFacts
  <2>2. \A b \in BOOLEAN : [artifact[a] EXCEPT !.payload = b] \in Artifact
    BY <2>1 DEF Artifact
  <2>3. (artifact[a].payload /\ ~Expired(artifact[a], now)) \in BOOLEAN
    OBVIOUS
  <2> QED BY <1>1, <2>1, <2>2, <2>3 DEF Artifact
<1>3. Swept \in [1..Len(artifact) -> Artifact]
  BY <1>1, <1>2, TypeFacts DEF Swept
<1>4. Swept \in Seq(Artifact)
  BY <1>3, TypeFacts, SeqDef
<1> QED BY <1>1, <1>2, <1>4

LEMMA SameRange == \A m, n \in Nat : 1..m = 1..n => m = n
<1> SUFFICES ASSUME NEW m \in Nat, NEW n \in Nat, 1..m = 1..n PROVE m = n
  OBVIOUS
<1>1. m <= n
  <2>1. CASE m = 0 BY <2>1
  <2>2. CASE m # 0
    <3>1. m \in 1..m BY <2>2
    <3> QED BY <3>1
  <2> QED BY <2>1, <2>2
<1>2. n <= m
  <2>1. CASE n = 0 BY <2>1
  <2>2. CASE n # 0
    <3>1. n \in 1..n BY <2>2
    <3> QED BY <3>1
  <2> QED BY <2>1, <2>2
<1> QED BY <1>1, <1>2

LEMMA ExtendedLemma ==
    ASSUME TypeOK, NEW at \in Nat, NEW expires \in Nat
    PROVE  /\ Extended(at, expires) \in Seq(Artifact)
           /\ Len(Extended(at, expires)) = Len(artifact)
           /\ \A a \in DOMAIN artifact :
                 /\ Extended(at, expires)[a].by = artifact[a].by
                 /\ Extended(at, expires)[a].expires =
                       IF artifact[a].expires <= at THEN artifact[a].expires ELSE expires
<1> DEFINE f == Extended(at, expires)
<1>1. ASSUME NEW a \in DOMAIN artifact
      PROVE  /\ f[a] \in Artifact
             /\ f[a].by = artifact[a].by
             /\ f[a].expires = IF artifact[a].expires <= at THEN artifact[a].expires
                                                            ELSE expires
  <2>1. artifact[a] \in Artifact
    BY TypeFacts
  <2>2. f[a] = IF Expired(artifact[a], at) THEN artifact[a]
               ELSE [artifact[a] EXCEPT !.expires = expires]
    BY DEF Extended
  <2> QED BY <2>1, <2>2 DEF Artifact, Expired
<1>2. f \in [1..Len(artifact) -> Artifact]
  BY <1>1, TypeFacts DEF Extended
<1>3. f \in Seq(Artifact) /\ Len(f) = Len(artifact)
  <2>1. f \in Seq(Artifact)
    BY <1>2, TypeFacts, SeqDef
  <2>2. DOMAIN f = 1..Len(f) /\ Len(f) \in Nat /\ DOMAIN f = 1..Len(artifact)
    BY <1>2, <2>1, LenProperties
  <2> HIDE DEF f
  <2>3. Len(f) = Len(artifact)
    BY <2>2, TypeFacts, SameRange
  <2> QED BY <2>1, <2>3
<1> QED BY <1>1, <1>3

LEMMA RequestLemma ==
    ASSUME TypeOK, NEW r \in Requests, NEW x \in Request, req' = [req EXCEPT ![r] = x]
    PROVE  req' \in [Requests -> Request]
BY DEF TypeOK

(* A handler is idle again.                                                *)
LEMMA IdleLemma == Idle \in Request /\ ~HoldsRow(Idle) /\ Idle.exec = 0
BY DEF Idle, HoldsRow, Request, Outcomes

(* Whoever holds the row, a handler that holds it too is the same one.     *)
LEMMA SweepsAlone ==
    ASSUME IInv, NEW r \in Requests, NEW q \in Requests, req[q].sweeps,
           req[r].sweeps \/ ~LockedFor(r)
    PROVE  q = r
BY DEF IInv, HandlersOK, Holds, LockedFor

-----------------------------------------------------------------------------
(* The steps, but for the one that stores. *)

(* The evidence of r's step: executions are added, and r writes only its   *)
(* own.                                                                    *)
WritesOwn(r) ==
    \A e \in DOMAIN exec :
        /\ e \in DOMAIN exec'
        /\ exec'[e].status = exec[e].status \/ req[r].exec = e
        /\ exec'[e].ran \in Nat /\ exec'[e].ran >= exec[e].ran

(* ... and of the session, which it may delete as the one that sweeps.     *)
DropsExpired(r) ==
    \/ session' = session
    \/ /\ session' = NoSession
       /\ Exists => session.expires <= now
       /\ \A q \in Requests \ {r} : ~req[q].sweeps

SameArtifacts ==
    /\ artifact' \in Seq(Artifact)
    /\ DOMAIN artifact' = DOMAIN artifact
    /\ \A a \in DOMAIN artifact : /\ artifact'[a].by = artifact[a].by
                                  /\ artifact'[a].expires = artifact[a].expires

LEMMA GrowsLemma ==
    ASSUME IInv, NEW r \in Requests, WritesOwn(r)
    PROVE  Grows
BY TypeFacts DEF IInv, WritesOwn, Grows, HandlersOK, HandlerOK

LEMMA StepLemma ==
    ASSUME IInv, NEW r \in Requests, NEW x \in Request,
           req' = [req EXCEPT ![r] = x], now' = now,
           DropsExpired(r), SameArtifacts,
           exec' \in Seq(Execution), consumed' \subseteq DOMAIN exec',
           WritesOwn(r), RanOK', HandlerOK(x)',
           x.exec \in {0, req[r].exec} \/ x.exec \notin DOMAIN exec,
           HoldsRow(x) => ~LockedFor(r)
    PROVE  IInv' /\ Grows
<1>1. Grows
  BY GrowsLemma
<1>2. TypeOK'
  <2>1. req' \in [Requests -> Request]
    BY RequestLemma DEF IInv
  <2>2. session' \in Session
    BY DEF IInv, TypeOK, DropsExpired, NoSession, Session
  <2> QED BY <2>1, <2>2 DEF IInv, TypeOK, SameArtifacts
<1>3. OthersKept(r)
  BY DEF OthersKept, WritesOwn, DropsExpired
<1>4. HandlersOK'
  BY <1>3, HandlerLemma
<1>5. KeptOK' /\ KeptIsAccepted'
  <2>1. session' \in {session, NoSession}
    BY DEF DropsExpired
  <2> QED BY <1>1, <2>1, KeptLemma DEF SameArtifacts
<1>6. SharedWindow'
  <2>1. \A a \in DOMAIN artifact' :
          a \in DOMAIN artifact /\ artifact'[a].expires = artifact[a].expires
    BY DEF SameArtifacts
  <2>2. \A a \in DOMAIN artifact : /\ artifact[a].expires \in Nat
                                   /\ session.expires \in Nat /\ now \in Nat
    BY TypeFacts DEF IInv
  <2>3. ASSUME NEW a \in DOMAIN artifact', ~(artifact'[a].expires <= now')
        PROVE  Exists' /\ artifact'[a].expires = session'.expires
    <3>1. Exists /\ artifact[a].expires = session.expires /\ ~(session.expires <= now)
      BY <2>1, <2>3 DEF IInv, SharedWindow, Expired
    <3>2. session' = session
      BY <3>1 DEF DropsExpired
    <3> QED BY <2>1, <3>1, <3>2 DEF Exists
  <2> QED BY <2>3 DEF SharedWindow, Expired
<1> QED BY <1>1, <1>2, <1>4, <1>5, <1>6 DEF IInv

(* A step that writes no evidence.                                         *)
LEMMA MoveLemma ==
    ASSUME IInv, NEW r \in Requests, NEW x \in Request,
           req' = [req EXCEPT ![r] = x], UNCHANGED <<now, exec, consumed>>,
           DropsExpired(r), SameArtifacts, HandlerOK(x)',
           x.exec \in {0, req[r].exec}, HoldsRow(x) => ~LockedFor(r)
    PROVE  IInv' /\ Grows
<1>1. RanOK'
  BY DEF IInv, RanOK
<1>2. WritesOwn(r)
  BY TypeFacts DEF IInv, WritesOwn
<1>3. exec' \in Seq(Execution) /\ consumed' \subseteq DOMAIN exec'
  BY DEF IInv, TypeOK
<1> QED BY <1>1, <1>2, <1>3, StepLemma

LEMMA StayLemma ==
    ASSUME IInv
    PROVE  /\ UNCHANGED artifact => SameArtifacts
           /\ artifact' = Swept => SameArtifacts
           /\ \A r \in Requests : UNCHANGED session => DropsExpired(r)
<1>1. artifact' = Swept => SameArtifacts
  BY SweptLemma DEF IInv, SameArtifacts
<1> QED BY <1>1 DEF IInv, TypeOK, SameArtifacts, DropsExpired

(* The facts of one handler.                                               *)
LEMMA MyFacts ==
    ASSUME IInv, NEW r \in Requests
    PROVE  /\ req[r] \in Request
           /\ HandlerOK(req[r])
           /\ req[r].exec \in Nat /\ req[r].at \in Nat /\ now \in Nat
           /\ req[r].exec # 0 => /\ exec[req[r].exec] \in Execution
                                 /\ exec[req[r].exec].ran \in Nat
BY TypeFacts DEF IInv, HandlersOK, HandlerOK

LEMMA UnlinkStep ==
    ASSUME IInv, NEW r \in Requests, Unlink(r) PROVE IInv' /\ Grows
<1> USE MyFacts
<1>1. PICK x : x = [req[r] EXCEPT !.pc = "sweeping", !.at = now]
  OBVIOUS
<1>2. x \in Request
  BY <1>1 DEF Request
<1>3. HandlerOK(x)'
  BY <1>1 DEF Unlink, HandlerOK, Request
<1>4. x.exec = req[r].exec /\ ~HoldsRow(x)
  BY <1>1 DEF Unlink, HandlerOK, HoldsRow, Request
<1> QED BY <1>1, <1>2, <1>3, <1>4, MoveLemma, StayLemma DEF Unlink

LEMMA PlanStep ==
    ASSUME IInv, NEW r \in Requests, Plan(r) PROVE IInv' /\ Grows
<1> USE MyFacts
<1>1. PICK x : x = [req[r] EXCEPT !.pc = "planning", !.sweeps = Deletes(r)]
  OBVIOUS
<1>2. x \in Request
  BY <1>1 DEF Request, Deletes, Expired, Exists
<1>3. HandlerOK(x)'
  BY <1>1 DEF Plan, DeleteReady, Deletes, Expired, Exists, HandlerOK, Request, Accepted
<1>4. x.exec = req[r].exec /\ (HoldsRow(x) => ~LockedFor(r))
  BY <1>1 DEF Plan, DeleteReady, HoldsRow, Request
<1> QED BY <1>1, <1>2, <1>3, <1>4, MoveLemma, StayLemma DEF Plan

(* Committing a handler's sweep deletes an expired row.                    *)
LEMMA CommitLemma ==
    ASSUME IInv, NEW r \in Requests, session' = Committed(r)
    PROVE  DropsExpired(r)
<1>1. CASE req[r].sweeps
  <2>1. \A q \in Requests \ {r} : ~req[q].sweeps
    BY <1>1, SweepsAlone
  <2>2. session.expires <= now
    BY <1>1, MyFacts, TypeFacts DEF HandlerOK, IInv
  <2> QED BY <1>1, <2>1, <2>2 DEF Committed, DropsExpired
<1>2. CASE ~req[r].sweeps
  BY <1>2 DEF Committed, DropsExpired
<1> QED BY <1>1, <1>2

(* A new execution has not run.                                            *)
LEMMA RecordStep ==
    ASSUME IInv, NEW r \in Requests, NEW status \in {"denied", "queued"},
           Record(status), UNCHANGED consumed
    PROVE  /\ RanOK' /\ WritesOwn(r)
           /\ exec' \in Seq(Execution) /\ consumed' \subseteq DOMAIN exec'
<1> USE RecordLemma, TypeFacts DEF IInv
<1>1. RanOK'
  <2>1. exec'[Len(exec) + 1].ran = 0
    OBVIOUS
  <2>2. \A e \in DOMAIN exec' : e = Len(exec) + 1 \/ (e \in DOMAIN exec /\ exec'[e] = exec[e])
    OBVIOUS
  <2> QED BY <2>1, <2>2 DEF RanOK
<1>2. WritesOwn(r)
  BY DEF WritesOwn
<1>3. consumed' \subseteq DOMAIN exec'
  BY DEF TypeOK
<1> QED BY <1>1, <1>2, <1>3

LEMMA DenyStep ==
    ASSUME IInv, NEW r \in Requests, Deny(r) PROVE IInv' /\ Grows
<1>1. RanOK' /\ WritesOwn(r) /\ exec' \in Seq(Execution) /\ consumed' \subseteq DOMAIN exec'
  BY RecordStep DEF Deny
<1>2. DropsExpired(r) /\ SameArtifacts
  BY CommitLemma, StayLemma DEF Deny
<1>3. now' \in Nat
  BY TypeFacts DEF Deny, IInv
<1>4. HandlerOK(Idle)'
  BY <1>3 DEF Idle, HandlerOK, Accepted
<1> QED BY <1>1, <1>2, <1>4, StepLemma, IdleLemma DEF Deny, Ends

LEMMA QueueStep ==
    ASSUME IInv, NEW r \in Requests, Queue(r) PROVE IInv' /\ Grows
<1>1. RanOK' /\ WritesOwn(r) /\ exec' \in Seq(Execution) /\ consumed' \subseteq DOMAIN exec'
  BY RecordStep DEF Queue
<1>2. DropsExpired(r) /\ SameArtifacts
  BY CommitLemma, StayLemma DEF Queue
<1>3. now' \in Nat /\ Len(exec) \in Nat
  BY TypeFacts DEF Queue, IInv
<1>4. PICK x : x = [Idle EXCEPT !.pc = "queued", !.exec = Len(exec) + 1]
  OBVIOUS
<1>5. x \in Request
  <2>1. Idle \in Request
    BY IdleLemma
  <2>2. [Idle EXCEPT !.exec = Len(exec) + 1] \in Request
    BY <1>3, <2>1 DEF Request
  <2>3. \A z \in Request : [z EXCEPT !.pc = "queued"] \in Request
    BY DEF Request
  <2>4. x = [[Idle EXCEPT !.exec = Len(exec) + 1] EXCEPT !.pc = "queued"]
    BY <1>4 DEF Idle
  <2> QED BY <2>2, <2>3, <2>4
<1>6. /\ Len(exec) + 1 \in DOMAIN exec' /\ Len(exec) + 1 \notin DOMAIN exec
      /\ exec'[Len(exec) + 1].status = "queued"
  BY RecordLemma DEF Queue, IInv
<1>7. HandlerOK(x)'
  BY <1>3, <1>4, <1>6 DEF Idle, HandlerOK, Accepted, Open
<1>8. x.exec \notin DOMAIN exec /\ ~HoldsRow(x)
  BY <1>4, <1>6 DEF Idle, HoldsRow
<1> QED BY <1>1, <1>2, <1>4, <1>5, <1>7, <1>8, StepLemma DEF Queue

(* What r writes to its own execution.                                     *)
LEMMA OwnLemma ==
    ASSUME IInv, NEW r \in Requests, req[r].exec # 0,
           NEW y \in Execution, exec' = [exec EXCEPT ![req[r].exec] = y],
           y.ran >= exec[req[r].exec].ran,
           \/ y.forgot
           \/ y.ran = 0
           \/ y.ran = 1 /\ req[r].exec \in consumed',
           consumed \subseteq consumed', consumed' \subseteq DOMAIN exec
    PROVE  /\ RanOK' /\ WritesOwn(r)
           /\ exec' \in Seq(Execution) /\ consumed' \subseteq DOMAIN exec'
           /\ exec'[req[r].exec] = y
<1>1. req[r].exec \in DOMAIN exec
  BY MyFacts DEF HandlerOK
<1>2. PICK e \in DOMAIN exec : e = req[r].exec
  BY <1>1
<1>3. /\ exec' \in Seq(Execution)
      /\ DOMAIN exec' = DOMAIN exec
      /\ exec'[e] = y
      /\ \A d \in DOMAIN exec : d # e => exec'[d] = exec[d]
  BY <1>2, ExecLemma DEF IInv
<1>4. RanOK'
  BY <1>2, <1>3 DEF RanOK, IInv
<1>5. WritesOwn(r)
  <2>1. y.ran \in Nat
    BY DEF Execution
  <2> QED BY <2>1, <1>2, <1>3, TypeFacts DEF WritesOwn, IInv
<1> QED BY <1>2, <1>3, <1>4, <1>5

LEMMA LaunchStep ==
    ASSUME IInv, NEW r \in Requests, Launch(r) PROVE IInv' /\ Grows
<1> USE MyFacts
<1> DEFINE e == req[r].exec
           y == [exec[e] EXCEPT !.status = "running"]
<1>1. e # 0 /\ e \in DOMAIN exec /\ req[r].outcome = "none"
  BY DEF Launch, HandlerOK
<1>2. /\ y \in Execution /\ y.ran = exec[e].ran /\ y.forgot = exec[e].forgot
      /\ y.status = "running" /\ y.ran >= exec[e].ran
  BY <1>1 DEF Execution, Open
<1>3. exec' = [exec EXCEPT ![e] = y]
  BY DEF Launch
<1>4. consumed' = consumed /\ consumed \subseteq DOMAIN exec
  BY DEF Launch, IInv, TypeOK
<1>5. y.forgot \/ y.ran = 0 \/ (y.ran = 1 /\ e \in consumed')
  BY <1>1, <1>2, <1>4 DEF IInv, RanOK
<1> HIDE DEF y
<1>6. /\ RanOK' /\ WritesOwn(r)
      /\ exec' \in Seq(Execution) /\ consumed' \subseteq DOMAIN exec'
      /\ exec'[e] = y
  BY <1>1, <1>2, <1>3, <1>4, <1>5, OwnLemma
<1>7. PICK x : x = [req[r] EXCEPT !.pc = "running", !.tries = 1]
  OBVIOUS
<1>8. x \in Request
  <2>1. \A z \in Request, n \in 0..2 : [z EXCEPT !.tries = n] \in Request
    BY DEF Request
  <2>2. \A z \in Request : [z EXCEPT !.pc = "running"] \in Request
    BY DEF Request
  <2>3. x = [[req[r] EXCEPT !.pc = "running"] EXCEPT !.tries = 1]
    BY <1>7 DEF Request
  <2>4. 1 \in 0..2
    OBVIOUS
  <2> QED BY <2>1, <2>2, <2>3, <2>4
<1>9. HandlerOK(x)'
  <2>1. e \in DOMAIN exec' /\ exec'[e].status \in Open
    BY <1>1, <1>2, <1>6 DEF WritesOwn, Open
  <2> QED BY <1>1, <1>7, <2>1 DEF Launch, HandlerOK, Request, Accepted
<1>10. x.exec = e /\ ~HoldsRow(x)
  BY <1>7 DEF Launch, HandlerOK, HoldsRow, Request
<1> HIDE DEF e
<1> QED BY <1>6, <1>7, <1>8, <1>9, <1>10, StepLemma, StayLemma DEF Launch, e

(* The supervisor admits a jti it does not remember, so the code has not   *)
(* run, unless the jti was forgotten.                                      *)
LEMMA AdmitsLemma ==
    ASSUME IInv, NEW r \in Requests, Admits(r), Ran(r) \/ UNCHANGED exec
    PROVE  /\ RanOK' /\ WritesOwn(r)
           /\ exec' \in Seq(Execution) /\ consumed' \subseteq DOMAIN exec'
           /\ exec'[req[r].exec].status = exec[req[r].exec].status
           /\ Ran(r) => exec'[req[r].exec].ran > 0
<1> USE MyFacts
<1> DEFINE e == req[r].exec
           y == [exec[e] EXCEPT !.ran = @ + 1]
<1>1. e # 0 /\ e \in DOMAIN exec
  BY DEF Admits, HandlerOK
<1>2. consumed' = consumed \cup {e} /\ consumed \subseteq DOMAIN exec
  BY DEF Admits, IInv, TypeOK
<1>3. exec[e].forgot \/ exec[e].ran = 0
  BY <1>1 DEF Admits, Fresh, IInv, RanOK
<1>4. CASE Ran(r)
  <2>1. /\ y \in Execution /\ y.ran = exec[e].ran + 1
        /\ y.forgot = exec[e].forgot /\ y.status = exec[e].status
    BY <1>1 DEF Execution
  <2>2. exec' = [exec EXCEPT ![e] = y]
    BY <1>4 DEF Ran
  <2>3. y.ran >= exec[e].ran /\ y.ran > 0
    BY <1>1, <2>1
  <2>4. y.forgot \/ y.ran = 0 \/ (y.ran = 1 /\ e \in consumed')
    BY <1>2, <1>3, <2>1
  <2>5. consumed \subseteq consumed' /\ consumed' \subseteq DOMAIN exec
    BY <1>1, <1>2
  <2> HIDE DEF y
  <2>6. /\ RanOK' /\ WritesOwn(r)
        /\ exec' \in Seq(Execution) /\ consumed' \subseteq DOMAIN exec'
        /\ exec'[e] = y
    BY <1>1, <2>1, <2>2, <2>3, <2>4, <2>5, OwnLemma
  <2> QED BY <2>1, <2>3, <2>6
<1>5. CASE UNCHANGED exec /\ ~Ran(r)
  <2>1. RanOK'
    BY <1>2, <1>5 DEF IInv, RanOK
  <2>2. WritesOwn(r)
    BY <1>5, TypeFacts DEF IInv, WritesOwn
  <2> QED BY <1>1, <1>2, <1>5, <2>1, <2>2 DEF IInv, TypeOK
<1> QED BY <1>4, <1>5

(* An answer that accepts an execution comes from code that ran.           *)
LEMMA AnswerLemma ==
    ASSUME IInv, NEW r \in Requests, NEW outcome \in Outcomes \cup {"refused"},
           req[r].pc = "running", Answered(r, outcome),
           UNCHANGED <<now, session, artifact>>,
           RanOK', WritesOwn(r),
           exec' \in Seq(Execution), consumed' \subseteq DOMAIN exec',
           exec'[req[r].exec].status = exec[req[r].exec].status,
           outcome \in Accepted => exec'[req[r].exec].ran > 0
    PROVE  IInv' /\ Grows
<1> USE MyFacts
<1>1. PICK x : x = [req[r] EXCEPT !.pc = "answered", !.outcome = outcome]
  OBVIOUS
<1>2. x \in Request
  BY <1>1 DEF Request
<1>3. req[r].exec # 0 /\ req[r].exec \in DOMAIN exec'
  BY DEF HandlerOK, WritesOwn
<1>4. outcome # "none"
  BY DEF Outcomes, Accepted
<1>5. HandlerOK(x)'
  <2>1. /\ x.pc = "answered" /\ x.outcome = outcome /\ x.exec = req[r].exec
        /\ x.at = req[r].at /\ x.sweeps = req[r].sweeps
    BY <1>1 DEF Request
  <2>2. exec'[x.exec].status \in Open /\ x.at <= now' /\ ~x.sweeps
    BY <2>1, <1>3 DEF HandlerOK
  <2> QED BY <1>3, <1>4, <2>1, <2>2 DEF HandlerOK
<1>6. x.exec = req[r].exec /\ ~HoldsRow(x)
  BY <1>1 DEF HandlerOK, HoldsRow, Request
<1> QED BY <1>1, <1>2, <1>5, <1>6, StepLemma, StayLemma DEF Answered

LEMMA SupervisorStep ==
    ASSUME IInv, NEW r \in Requests, SupervisorAnswers(r) PROVE IInv' /\ Grows
<1> USE MyFacts
<1>0. ASSUME UNCHANGED <<exec, consumed>>
      PROVE  /\ RanOK' /\ WritesOwn(r)
             /\ exec' \in Seq(Execution) /\ consumed' \subseteq DOMAIN exec'
             /\ exec'[req[r].exec].status = exec[req[r].exec].status
  BY <1>0, TypeFacts DEF IInv, TypeOK, RanOK, WritesOwn
<1>1. ASSUME NEW outcome \in Accepted \cup {"policy_error"}, RunsCode(r, outcome)
      PROVE  IInv' /\ Grows
  BY <1>1, AdmitsLemma, AnswerLemma DEF RunsCode, Admits, Outcomes
<1>2. ASSUME StartFails(r) PROVE IInv' /\ Grows
  <2>1. /\ RanOK' /\ WritesOwn(r)
        /\ exec' \in Seq(Execution) /\ consumed' \subseteq DOMAIN exec'
        /\ exec'[req[r].exec].status = exec[req[r].exec].status
    BY <1>2, AdmitsLemma DEF StartFails
  <2>2. CASE Answered(r, "infra_failure")
    <3>1. "infra_failure" \in Outcomes /\ "infra_failure" \notin Accepted
      BY DEF Outcomes, Accepted
    <3> QED BY <1>2, <2>1, <2>2, <3>1, AnswerLemma DEF StartFails, Admits
  <2>3. CASE req' = [req EXCEPT ![r].tries = 2]
    <3>1. PICK x : x = [req[r] EXCEPT !.tries = 2]
      OBVIOUS
    <3>2. x \in Request
      BY <3>1 DEF Request
    <3>3. HandlerOK(x)'
      <4>1. /\ x.pc = req[r].pc /\ x.outcome = req[r].outcome /\ x.exec = req[r].exec
            /\ x.at = req[r].at /\ x.sweeps = req[r].sweeps
        BY <3>1 DEF Request
      <4>2. req[r].pc = "running" /\ now' = now
        BY <1>2 DEF StartFails, Admits
      <4>3. req[r].exec # 0 /\ req[r].exec \in DOMAIN exec' /\ exec'[req[r].exec].status \in Open
        BY <2>1, <4>2 DEF HandlerOK, WritesOwn
      <4> QED BY <4>1, <4>2, <4>3 DEF HandlerOK, Accepted
    <3>4. x.exec = req[r].exec /\ ~HoldsRow(x)
      BY <1>2, <3>1 DEF StartFails, Admits, HandlerOK, HoldsRow, Request
    <3> QED BY <1>2, <2>1, <2>3, <3>1, <3>2, <3>3, <3>4, StepLemma, StayLemma DEF StartFails
  <2> QED BY <1>2, <2>2, <2>3 DEF StartFails
<1>3. ASSUME Refused(r) PROVE IInv' /\ Grows
  <2>1. "refused" \notin Accepted
    BY DEF Accepted
  <2> QED BY <1>0, <1>3, <2>1, AnswerLemma DEF Refused
<1>4. ASSUME Unanswered(r) PROVE IInv' /\ Grows
  <2>1. "infra_failure" \in Outcomes /\ "infra_failure" \notin Accepted
    BY DEF Outcomes, Accepted
  <2>2. /\ RanOK' /\ WritesOwn(r)
        /\ exec' \in Seq(Execution) /\ consumed' \subseteq DOMAIN exec'
        /\ exec'[req[r].exec].status = exec[req[r].exec].status
    BY <1>0, <1>4, AdmitsLemma DEF Unanswered
  <2> QED BY <1>4, <2>1, <2>2, AnswerLemma DEF Unanswered
<1> QED BY <1>1, <1>2, <1>3, <1>4 DEF SupervisorAnswers

(* Nothing is kept: the outcome is recorded with the sweep.                *)
LEMMA FinishStep ==
    ASSUME IInv, NEW r \in Requests, Finish(r) PROVE IInv' /\ Grows
<1> USE MyFacts
<1> DEFINE e == req[r].exec
           y == [exec[e] EXCEPT !.status = Recorded(r)]
<1>1. e # 0 /\ e \in DOMAIN exec
  BY DEF Finish, HandlerOK
<1>2. Recorded(r) \in Outcomes
  <2>1. req[r].outcome # "none"
    BY DEF Finish, DeleteReady, HandlerOK
  <2> QED BY <2>1 DEF Recorded, Request, Outcomes
<1>3. /\ y \in Execution /\ y.ran = exec[e].ran /\ y.forgot = exec[e].forgot
      /\ y.ran >= exec[e].ran
  BY <1>1, <1>2 DEF Execution
<1>4. exec' = [exec EXCEPT ![e] = y]
  BY DEF Finish
<1>5. consumed' = consumed /\ consumed \subseteq DOMAIN exec
  BY DEF Finish, IInv, TypeOK
<1>6. y.forgot \/ y.ran = 0 \/ (y.ran = 1 /\ e \in consumed')
  BY <1>1, <1>3, <1>5 DEF IInv, RanOK
<1> HIDE DEF y
<1>7. /\ RanOK' /\ WritesOwn(r)
      /\ exec' \in Seq(Execution) /\ consumed' \subseteq DOMAIN exec'
  BY <1>1, <1>3, <1>4, <1>5, <1>6, OwnLemma
<1>8. DropsExpired(r)
  <2>1. CASE Deletes(r)
    <3>1. \A q \in Requests \ {r} : ~req[q].sweeps
      BY <2>1 DEF Finish, DeleteReady, LockedFor, Holds
    <3>2. session.expires <= now
      BY <2>1, TypeFacts DEF Deletes, Expired, HandlerOK, IInv
    <3> QED BY <2>1, <3>1, <3>2 DEF Finish, DropsExpired
  <2>2. CASE ~Deletes(r)
    BY <2>2 DEF Finish, DropsExpired
  <2> QED BY <2>1, <2>2
<1>9. now' \in Nat
  BY DEF Finish
<1>10. HandlerOK(Idle)'
  BY <1>9 DEF Idle, HandlerOK, Accepted
<1> QED BY <1>7, <1>8, <1>10, StepLemma, StayLemma, IdleLemma DEF Finish, Ends

LEMMA PlannerFailsStep ==
    ASSUME IInv, NEW r \in Requests, PlannerFails(r) PROVE IInv' /\ Grows
<1>1. DropsExpired(r) /\ SameArtifacts
  BY CommitLemma, StayLemma DEF PlannerFails
<1>2. now' \in Nat
  BY MyFacts DEF PlannerFails
<1>3. HandlerOK(Idle)'
  BY <1>2 DEF Idle, HandlerOK, Accepted
<1> QED BY <1>1, <1>3, MoveLemma, IdleLemma DEF PlannerFails, Ends

(* A handler that dies or fails leaves everything as it was committed.     *)
LEMMA GivesUpStep ==
    ASSUME IInv, NEW r \in Requests, Abandon(r) \/ StoreConflict(r) PROVE IInv' /\ Grows
<1>1. Ends(r) /\ UNCHANGED <<now, session, artifact, exec, consumed>>
  BY DEF Abandon, StoreConflict
<1>2. now' \in Nat
  BY <1>1, MyFacts
<1>3. HandlerOK(Idle)'
  BY <1>2 DEF Idle, HandlerOK, Accepted
<1> QED BY <1>1, <1>3, MoveLemma, StayLemma, IdleLemma DEF Ends

LEMMA PersistStep ==
    ASSUME IInv, NEW r \in Requests, Persist(r) PROVE IInv' /\ Grows
<1> USE MyFacts
<1>1. PICK x : x = [req[r] EXCEPT !.pc = "persisting", !.at = now, !.sweeps = Deletes(r)]
  OBVIOUS
<1>2. x \in Request
  BY <1>1 DEF Request, Deletes, Expired, Exists
<1>3. Deletes(r) => Exists /\ session.expires <= now
  BY TypeFacts DEF Deletes, Expired, HandlerOK, IInv
<1>4. HandlerOK(x)'
  <2>1. /\ x.pc = "persisting" /\ x.outcome = req[r].outcome /\ x.exec = req[r].exec
        /\ x.at = now /\ (x.sweeps <=> Deletes(r))
    BY <1>1 DEF Request
  <2>2. now' = now /\ exec' = exec /\ session' = session
    BY DEF Persist
  <2>3. x.sweeps => Exists' /\ session'.expires <= x.at
    BY <1>3, <2>1, <2>2 DEF Exists
  <2>4. req[r].exec # 0 /\ req[r].outcome \in Accepted
    BY DEF Persist
  <2>5. x.outcome \in Accepted /\ x.exec # 0 /\ x.at <= now'
    BY <2>1, <2>2, <2>4
  <2> QED BY <2>1, <2>2, <2>3, <2>4, <2>5 DEF HandlerOK, Accepted
<1>5. x.exec = req[r].exec /\ (HoldsRow(x) => ~LockedFor(r))
  BY <1>1 DEF Persist, DeleteReady, HoldsRow, Request
<1> QED BY <1>1, <1>2, <1>4, <1>5, MoveLemma, StayLemma DEF Persist

(* A handler that waits for the row, or gets it.                           *)
LEMMA RowLemma ==
    ASSUME IInv, NEW r \in Requests, req[r].pc \in {"persisting", "blocked"},
           NEW pc \in {"blocked", "storing"}, NEW row \in Nat,
           req' = [req EXCEPT ![r].pc = pc, ![r].row = row],
           UNCHANGED <<now, session, artifact, exec, consumed>>,
           IF pc = "storing" THEN ~LockedFor(r) ELSE ~req[r].sweeps
    PROVE  IInv' /\ Grows
<1> USE MyFacts
<1>1. PICK x : x = [req[r] EXCEPT !.pc = pc, !.row = row]
  OBVIOUS
<1>2. x \in Request
  BY <1>1 DEF Request
<1>3. /\ x.pc = pc /\ x.outcome = req[r].outcome /\ x.exec = req[r].exec
      /\ x.at = req[r].at /\ x.sweeps = req[r].sweeps /\ x.row = row
  BY <1>1 DEF Request
<1>4. HandlerOK(x)'
  <2>1. x.sweeps => pc = "storing"
    BY <1>3
  <2>2. x.outcome \in Accepted /\ x.exec # 0
    BY <1>3 DEF HandlerOK
  <2> QED BY <1>3, <2>1, <2>2 DEF HandlerOK, Accepted, Exists
<1>5. HoldsRow(x) => ~LockedFor(r)
  BY <1>3 DEF HoldsRow
<1>6. req' = [req EXCEPT ![r] = x]
  BY <1>1
<1> QED BY <1>2, <1>3, <1>4, <1>5, <1>6, MoveLemma, StayLemma

LEMMA RowStep ==
    ASSUME IInv, NEW r \in Requests, LockRow(r) \/ Blocks(r) \/ Unblocks(r)
    PROVE  IInv' /\ Grows
<1> USE MyFacts
<1>1. session.row \in Nat /\ req[r].row \in Nat
  BY DEF IInv, TypeOK, Session, Request
<1>2. CASE LockRow(r)
  <2>1. PICK row \in Nat : row = IF req[r].sweeps THEN 0 ELSE session.row
    BY <1>1
  <2> QED BY <1>2, <2>1, RowLemma DEF LockRow
<1>3. CASE Blocks(r)
  <2>1. ~req[r].sweeps
    BY <1>3, SweepsAlone DEF Blocks
  <2> QED BY <1>1, <1>3, <2>1, RowLemma DEF Blocks
<1>4. CASE Unblocks(r)
  <2>1. PICK row \in Nat : row = IF session.row = req[r].row THEN req[r].row ELSE 0
    BY <1>1
  <2>2. req' = [req EXCEPT ![r].pc = "storing", ![r].row = row]
    BY <1>4, <2>1 DEF Unblocks, IInv, TypeOK
  <2> QED BY <1>4, <2>1, <2>2, RowLemma DEF Unblocks
<1> QED BY <1>2, <1>3, <1>4

LEMMA RestartStep ==
    ASSUME IInv, SupervisorRestarts PROVE IInv' /\ Grows
<1> USE TypeFacts DEF IInv
<1>1. /\ DOMAIN exec' = DOMAIN exec
      /\ \A e \in DOMAIN exec :
            exec'[e] = [exec[e] EXCEPT !.forgot = @ \/ e \in consumed]
  BY DEF SupervisorRestarts
<1>2. ASSUME NEW e \in DOMAIN exec
      PROVE  /\ exec'[e] \in Execution
             /\ exec'[e].status = exec[e].status
             /\ exec'[e].ran = exec[e].ran
             /\ exec'[e].forgot <=> exec[e].forgot \/ e \in consumed
  <2>1. exec[e] \in Execution
    OBVIOUS
  <2>2. \A b \in BOOLEAN :
          /\ [exec[e] EXCEPT !.forgot = b] \in Execution
          /\ [exec[e] EXCEPT !.forgot = b].status = exec[e].status
          /\ [exec[e] EXCEPT !.forgot = b].ran = exec[e].ran
          /\ [exec[e] EXCEPT !.forgot = b].forgot = b
    BY <2>1 DEF Execution
  <2>3. CASE exec[e].forgot \/ e \in consumed
    <3>1. (exec[e].forgot \/ e \in consumed) = TRUE
      BY <2>3
    <3>2. exec'[e] = [exec[e] EXCEPT !.forgot = TRUE]
      BY <1>1, <3>1
    <3> QED BY <2>2, <2>3, <3>2
  <2>4. CASE ~(exec[e].forgot \/ e \in consumed)
    <3>1. (exec[e].forgot \/ e \in consumed) = FALSE
      BY <2>4
    <3>2. exec'[e] = [exec[e] EXCEPT !.forgot = FALSE]
      BY <1>1, <3>1
    <3> QED BY <2>2, <2>4, <3>2
  <2> QED BY <2>3, <2>4
<1>3. exec' \in Seq(Execution)
  <2>1. exec' \in [1..Len(exec) -> Execution]
    BY <1>1, <1>2 DEF SupervisorRestarts
  <2> QED BY <2>1, SeqDef
<1>4. UNCHANGED <<now, session, artifact, req>> /\ consumed' = {}
  BY DEF SupervisorRestarts
<1>5. TypeOK'
  BY <1>3, <1>4 DEF TypeOK
<1>6. RanOK'
  BY <1>1, <1>2, <1>4 DEF RanOK
<1>7. Grows
  <2>1. \A e \in DOMAIN exec : exec'[e].ran \in Nat /\ exec'[e].ran >= exec[e].ran
    BY <1>2
  <2> QED BY <1>1, <1>2, <2>1 DEF Grows
<1>8. HandlersOK'
  <2>1. ASSUME NEW r \in Requests PROVE HandlerOK(req[r])'
    <3>1. HandlerOK(req[r])
      BY DEF HandlersOK
    <3>2. req[r].exec \in DOMAIN exec =>
            /\ req[r].exec \in DOMAIN exec'
            /\ exec'[req[r].exec].status = exec[req[r].exec].status
            /\ exec'[req[r].exec].ran = exec[req[r].exec].ran
      BY <1>1, <1>2
    <3> QED BY <1>4, <3>1, <3>2 DEF HandlerOK, Exists
  <2> QED BY <1>4, <2>1 DEF HandlersOK, Holds
<1>9. IInv'
  <2> HIDE DEF IInv
  <2> QED BY <1>4, <1>5, <1>6, <1>7, <1>8, QuietLemma
<1> QED BY <1>7, <1>9

-----------------------------------------------------------------------------
(* Storing: the run's artifact, the snapshot and the outcome are committed *)
(* with one expiry, which all that has not expired takes over.             *)
LEMMA KeepsLemma ==
    ASSUME IInv, NEW r \in Requests, NEW new \in BOOLEAN, Keeps(r, new)
    PROVE  /\ session' \in Session
           /\ session'.by = req[r].exec /\ session'.expires = req[r].at + Ttl
           /\ artifact' \in Seq(Artifact)
           /\ \A a \in DOMAIN artifact' :
                \/ /\ a \in DOMAIN artifact
                   /\ artifact'[a].by = artifact[a].by
                   /\ artifact'[a].expires = IF artifact[a].expires <= req[r].at
                                             THEN artifact[a].expires
                                             ELSE req[r].at + Ttl
                \/ /\ artifact'[a].by = req[r].exec
                   /\ artifact'[a].expires = req[r].at + Ttl
<1> USE MyFacts
<1> DEFINE expires == req[r].at + Ttl
           old == Extended(req[r].at, expires)
           one == [by |-> req[r].exec, expires |-> expires, payload |-> TRUE]
           added == IF new THEN <<one>> ELSE <<>>
<1>1. expires \in Nat
  BY TtlAssumption
<1>2. /\ session' \in Session
      /\ session'.by = req[r].exec /\ session'.expires = expires
  <2>1. req[r].row \in Nat
    BY DEF Request
  <2> QED BY <1>1, <2>1 DEF Keeps, Session
<1>3. /\ old \in Seq(Artifact)
      /\ Len(old) = Len(artifact)
      /\ \A a \in DOMAIN artifact :
            /\ old[a].by = artifact[a].by
            /\ old[a].expires = IF artifact[a].expires <= req[r].at
                                THEN artifact[a].expires ELSE expires
  BY <1>1, ExtendedLemma DEF IInv
<1>4. one \in Artifact
  BY <1>1 DEF Artifact
<1>5. artifact' = old \o added
  BY DEF Keeps
<1>6. /\ added \in Seq(Artifact)
      /\ \A a \in 1..Len(added) : added[a] = one
      /\ Len(added) \in Nat
  <2>1. CASE new
    <3>1. added = <<one>>
      BY <2>1
    <3> HIDE DEF added, one
    <3> QED BY <1>4, <3>1
  <2>2. CASE ~new
    <3>1. added = <<>>
      BY <2>2
    <3> HIDE DEF added, one
    <3> QED BY <3>1
  <2> QED BY <2>1, <2>2
<1>7. DOMAIN artifact = 1..Len(artifact) /\ Len(artifact) \in Nat
  BY TypeFacts DEF IInv
<1> HIDE DEF expires, old, one, added
<1>8. /\ artifact' \in Seq(Artifact)
      /\ DOMAIN artifact' = 1..(Len(old) + Len(added))
      /\ \A a \in 1..(Len(old) + Len(added)) :
            artifact'[a] = IF a <= Len(old) THEN old[a] ELSE added[a - Len(old)]
  <2>1. /\ old \o added \in Seq(Artifact)
        /\ Len(old \o added) = Len(old) + Len(added)
        /\ \A a \in 1..(Len(old) + Len(added)) :
              (old \o added)[a] = IF a <= Len(old) THEN old[a] ELSE added[a - Len(old)]
    BY <1>3, <1>6, ConcatProperties
  <2>2. DOMAIN (old \o added) = 1..Len(old \o added)
    BY <2>1, LenProperties
  <2> QED BY <1>5, <2>1, <2>2
<1>9. ASSUME NEW a \in DOMAIN artifact'
      PROVE  \/ /\ a \in DOMAIN artifact
                /\ artifact'[a].by = artifact[a].by
                /\ artifact'[a].expires = IF artifact[a].expires <= req[r].at
                                          THEN artifact[a].expires ELSE expires
             \/ /\ artifact'[a].by = req[r].exec
                /\ artifact'[a].expires = expires
  <2>1. CASE a <= Len(old)
    <3>1. a \in DOMAIN artifact /\ artifact'[a] = old[a]
      BY <1>3, <1>6, <1>7, <1>8, <2>1
    <3> QED BY <1>3, <3>1
  <2>2. CASE ~(a <= Len(old))
    <3>1. a - Len(old) \in 1..Len(added)
      BY <1>3, <1>6, <1>7, <1>8, <2>2
    <3>2. artifact'[a] = one
      BY <1>6, <1>8, <2>2, <3>1
    <3> QED BY <3>2 DEF one
  <2> QED BY <2>1, <2>2
<1> QED BY <1>2, <1>8, <1>9 DEF expires

LEMMA StoreStep ==
    ASSUME IInv, NEW r \in Requests, NEW new \in BOOLEAN, Store(r, new)
    PROVE  IInv' /\ Grows
<1> USE MyFacts
<1> DEFINE e == req[r].exec
           y == [exec[e] EXCEPT !.status = Recorded(r)]
<1>1. /\ e # 0 /\ e \in DOMAIN exec /\ req[r].outcome \in Accepted
      /\ exec[e].ran > 0 /\ req[r].at <= now
  BY DEF Store, HandlerOK
<1>2. Recorded(r) \in Accepted /\ Recorded(r) \in Outcomes
  BY <1>1 DEF Recorded, Accepted, Outcomes
<1>3. /\ y \in Execution /\ y.ran = exec[e].ran /\ y.forgot = exec[e].forgot
      /\ y.ran >= exec[e].ran /\ y.status = Recorded(r)
  BY <1>1, <1>2 DEF Execution
<1>4. exec' = [exec EXCEPT ![e] = y]
  BY DEF Store
<1>5. consumed' = consumed /\ consumed \subseteq DOMAIN exec /\ now' = now
  BY DEF Store, IInv, TypeOK
<1>6. y.forgot \/ y.ran = 0 \/ (y.ran = 1 /\ e \in consumed')
  BY <1>1, <1>3, <1>5 DEF IInv, RanOK
<1> HIDE DEF y
<1>7. /\ RanOK' /\ WritesOwn(r)
      /\ exec' \in Seq(Execution) /\ consumed' \subseteq DOMAIN exec'
      /\ exec'[e] = y
  BY <1>1, <1>3, <1>4, <1>5, <1>6, OwnLemma
<1>8. Grows
  BY <1>7, GrowsLemma
<1>9. /\ session' \in Session
      /\ session'.by = e /\ session'.expires = req[r].at + Ttl
      /\ artifact' \in Seq(Artifact)
      /\ \A a \in DOMAIN artifact' :
           \/ /\ a \in DOMAIN artifact
              /\ artifact'[a].by = artifact[a].by
              /\ artifact'[a].expires = IF artifact[a].expires <= req[r].at
                                        THEN artifact[a].expires
                                        ELSE req[r].at + Ttl
           \/ /\ artifact'[a].by = e
              /\ artifact'[a].expires = req[r].at + Ttl
  BY KeepsLemma DEF Store
<1>10. Exists'
  BY <1>1, <1>9 DEF Exists, NoSession
<1>11. req' = [req EXCEPT ![r] = Idle]
  BY DEF Store, Ends
<1>12. TypeOK'
  <2>1. req' \in [Requests -> Request]
    BY <1>11, RequestLemma, IdleLemma DEF IInv
  <2> QED BY <1>5, <1>7, <1>9, <2>1 DEF TypeOK
<1>13. HandlersOK'
  <2>1. \A q \in Requests \ {r} : ~req[q].sweeps
    <3>1. SUFFICES ASSUME NEW q \in Requests \ {r}, req[q].sweeps PROVE FALSE
      OBVIOUS
    <3>2. Exists /\ Holds(q)
      BY <3>1, MyFacts DEF HandlerOK, Holds
    <3>3. Holds(r)
      BY <3>2 DEF Store, Conflicts, Holds
    <3> QED BY <3>1, <3>2, <3>3 DEF IInv, HandlersOK
  <2>2. OthersKept(r)
    BY <1>5, <1>7, <2>1 DEF OthersKept, WritesOwn
  <2>3. HandlerOK(Idle)'
    <3>1. now' \in Nat
      BY <1>5
    <3> QED BY <3>1 DEF Idle, HandlerOK, Accepted
  <2> QED BY <1>11, <2>2, <2>3, HandlerLemma, IdleLemma
<1>14. \A d \in DOMAIN exec :
         exec[d].status \in Accepted /\ exec[d].ran > 0 =>
            d \in DOMAIN exec' /\ exec'[d].status \in Accepted /\ exec'[d].ran > 0
  <2>1. \A s \in Accepted : s \notin Open
    BY DEF Accepted, Open
  <2> QED BY <1>8, <2>1, TypeFacts DEF Grows, IInv
<1>15. e \in DOMAIN exec' /\ exec'[e].status \in Accepted /\ exec'[e].ran > 0
  BY <1>1, <1>2, <1>3, <1>7 DEF WritesOwn
<1>16. KeptOK'
  <2>1. \A d \in DOMAIN exec : d \in DOMAIN exec'
    BY <1>7 DEF WritesOwn
  <2> QED BY <1>9, <1>15, <2>1 DEF IInv, KeptOK
<1>17. KeptIsAccepted'
  BY <1>9, <1>14, <1>15 DEF IInv, KeptOK, KeptIsAccepted
<1>18. SharedWindow'
  <2>1. \A a \in DOMAIN artifact : artifact[a].expires \in Nat
    BY TypeFacts DEF IInv
  <2> QED BY <1>1, <1>5, <1>9, <1>10, <2>1 DEF SharedWindow, Expired
<1> QED BY <1>7, <1>8, <1>12, <1>13, <1>16, <1>17, <1>18 DEF IInv

(* A download sweeps outside any handler; the clock moves.                 *)
LEMMA OutsideStep ==
    ASSUME IInv, Download \/ Tick \/ UNCHANGED vars PROVE IInv' /\ Grows
<1>1. UNCHANGED <<session, exec, consumed, req>> /\ now' \in {now, now + 1} /\ SameArtifacts
  <2>1. now' \in {now, now + 1} /\ artifact' \in {Swept, artifact}
    BY DEF Download, Tick, vars
  <2> QED BY <2>1, StayLemma DEF Download, Tick, vars
<1>2. now \in Nat /\ now' \in Nat /\ now' >= now
  BY <1>1, TypeFacts DEF IInv
<1>3. TypeOK' /\ RanOK'
  BY <1>1, <1>2 DEF IInv, TypeOK, SameArtifacts, RanOK
<1>4. Grows
  BY <1>1, TypeFacts DEF IInv, Grows
<1>5. HandlersOK'
  <2>1. ASSUME NEW r \in Requests PROVE HandlerOK(req[r])'
    <3>1. HandlerOK(req[r]) /\ req[r].at \in Nat
      BY MyFacts
    <3>2. req[r].at <= now'
      BY <1>2, <3>1 DEF HandlerOK
    <3> QED BY <1>1, <3>1, <3>2 DEF HandlerOK, Exists
  <2> QED BY <1>1, <2>1 DEF IInv, HandlersOK, Holds
<1>6. KeptOK' /\ KeptIsAccepted'
  BY <1>1, <1>4, KeptLemma DEF SameArtifacts
<1>7. SharedWindow'
  <2>1. \A a \in DOMAIN artifact' :
          /\ a \in DOMAIN artifact /\ artifact'[a].expires = artifact[a].expires
          /\ artifact[a].expires \in Nat
    BY <1>1, TypeFacts DEF SameArtifacts, IInv
  <2> QED BY <1>1, <1>2, <2>1 DEF IInv, SharedWindow, Expired, Exists
<1> QED BY <1>3, <1>4, <1>5, <1>6, <1>7 DEF IInv

-----------------------------------------------------------------------------
LEMMA InitOK == Init => IInv
<1> SUFFICES ASSUME Init PROVE IInv
  OBVIOUS
<1>1. TypeOK
  BY IdleLemma DEF Init, TypeOK, NoSession, Session
<1>2. HandlersOK
  BY DEF Init, HandlersOK, HandlerOK, Holds, Idle, Accepted
<1>3. ~Exists /\ DOMAIN exec = {} /\ DOMAIN artifact = {}
  BY DEF Init, Exists
<1> QED BY <1>1, <1>2, <1>3 DEF IInv, RanOK, KeptOK, KeptIsAccepted, SharedWindow

LEMMA NextOK == IInv /\ [Next]_vars => IInv' /\ Grows
<1> SUFFICES ASSUME IInv, [Next]_vars PROVE IInv' /\ Grows
  OBVIOUS
<1>1. ASSUME NEW r \in Requests, Unlink(r) PROVE IInv' /\ Grows
  BY <1>1, UnlinkStep
<1>2. ASSUME NEW r \in Requests, AfterSweep(r) PROVE IInv' /\ Grows
  BY <1>2, PlanStep, PersistStep, FinishStep DEF AfterSweep
<1>3. ASSUME NEW r \in Requests, Planned(r) PROVE IInv' /\ Grows
  BY <1>3, DenyStep, PlannerFailsStep, QueueStep DEF Planned
<1>4. ASSUME NEW r \in Requests, Launch(r) PROVE IInv' /\ Grows
  BY <1>4, LaunchStep
<1>5. ASSUME NEW r \in Requests, SupervisorAnswers(r) PROVE IInv' /\ Grows
  BY <1>5, SupervisorStep
<1>6. ASSUME NEW r \in Requests, GetsRow(r) \/ Blocks(r) PROVE IInv' /\ Grows
  BY <1>6, RowStep DEF GetsRow
<1>7. ASSUME NEW r \in Requests, Stores(r) PROVE IInv' /\ Grows
  BY <1>7, StoreStep, GivesUpStep DEF Stores
<1>8. ASSUME NEW r \in Requests, Abandon(r) PROVE IInv' /\ Grows
  BY <1>8, GivesUpStep
<1>9. ASSUME SupervisorRestarts PROVE IInv' /\ Grows
  BY <1>9, RestartStep
<1>10. ASSUME Download \/ Tick \/ UNCHANGED vars PROVE IInv' /\ Grows
  BY <1>10, OutsideStep
<1> QED
  BY <1>1, <1>2, <1>3, <1>4, <1>5, <1>6, <1>7, <1>8, <1>9, <1>10 DEF Next

THEOREM Invariance == Spec => []IInv
BY InitOK, NextOK, PTL DEF Spec

(* The session row, the artifacts, the evidence and every handler have the *)
(* shape the services give them.                                           *)
THEOREM TypeCorrect == Spec => []TypeOK
<1>1. IInv => TypeOK
  BY DEF IInv
<1> QED BY Invariance, <1>1, PTL

(* python_client.execute and _CONSUMED_CAPABILITY_JTIS: however many runs  *)
(* overlap, the code of an execution runs once, unless a restart of the    *)
(* supervisor lost its jti.                                                *)
THEOREM RunsOnce == Spec => []AtMostOneRun
<1>1. IInv => AtMostOneRun
  BY TypeFacts DEF IInv, RanOK, AtMostOneRun
<1> QED BY Invariance, <1>1, PTL

(* persist_execution_response: what is kept of a run is backed by an       *)
(* accepted execution and expires together with the snapshot.              *)
THEOREM Kept == Spec => []KeptTogether
<1>1. IInv => KeptTogether
  BY DEF IInv, KeptTogether
<1> QED BY Invariance, <1>1, PTL

(* An outcome that is recorded is never rewritten.                         *)
THEOREM Final == Spec => OutcomeIsFinal
<1>1. IInv /\ [Next]_vars =>
        [\A e \in DOMAIN exec :
            exec[e].status \notin Open => exec'[e].status = exec[e].status]_vars
  BY NextOK DEF Grows
<1> QED BY Invariance, <1>1, PTL DEF Spec, OutcomeIsFinal
=============================================================================
