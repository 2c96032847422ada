-------------------------- MODULE ChatTurnsProofs --------------------------
(***************************************************************************)
(* ChatTurns for any set of requests and client ids and a log of any       *)
(* length: the invariants of MCChatTurns.cfg hold, history is final and    *)
(* the two services implement TurnLedger.                                  *)
(***************************************************************************)
EXTENDS ChatTurns, TLAPS, SequenceTheorems

(* What a handler knows of the row it is about to write; the invariants    *)
(* the runs check are not inductive without it.                            *)
RowsExist ==
    /\ conv = "absent" => msgs = <<>>
    /\ \A r \in Requests :
        /\ req[r].seq <= Len(msgs)
        /\ req[r].pc = "idle" => req[r].seq = 0
        /\ req[r].pc \in {"calling", "resolved", "waiting"} => req[r].seq # 0
        /\ req[r].pc = "resolved" => req[r].status # "pending"
        /\ req[r].pc = "searching" /\ req[r].seq # 0 =>
              msgs[req[r].seq].role = "assistant"

LogOK ==
    /\ msgs \in Seq(Message)
    /\ TurnsArePaired
    /\ UniqueClientMessages

IInv ==
    /\ TypeOK
    /\ RowsExist
    /\ TurnsArePaired
    /\ UniqueClientMessages
    /\ OneWriterPerTurn
    /\ PromptIsOwnUserMessage
    /\ FirstAttemptsNeverOverlap

-----------------------------------------------------------------------------
(* The two ways in which a step writes the log. *)

(* A turn is appended as a user message and its assistant message, the     *)
(* messages before it are as they were.                                    *)
LEMMA WithTurnLemma ==
    ASSUME msgs \in Seq(Message), NEW c \in ClientIds \cup {NoClient},
           NEW reply \in Message
    PROVE  /\ WithTurn(c, reply) \in Seq(Message)
           /\ Len(WithTurn(c, reply)) = Len(msgs) + 2
           /\ \A i \in DOMAIN msgs : WithTurn(c, reply)[i] = msgs[i]
           /\ WithTurn(c, reply)[Len(msgs) + 1] = UserMessage(c)
           /\ WithTurn(c, reply)[Len(msgs) + 2] = reply
<1>1. UserMessage(c) \in Message
  BY DEF UserMessage, Message, Statuses, SearchTags
<1>2. /\ Append(msgs, UserMessage(c)) \in Seq(Message)
      /\ Len(Append(msgs, UserMessage(c))) = Len(msgs) + 1
  BY <1>1
<1> QED
  BY <1>1, <1>2 DEF WithTurn

(* Any reply the services write is a message.                              *)
LEMMA ReplyLemma ==
    ASSUME NEW st \in Statuses, NEW tag \in SearchTags
    PROVE  /\ Reply(st, tag) \in Message
           /\ Reply(st, tag).role = "assistant"
           /\ Reply(st, tag).cid = NoClient
           /\ Reply(st, tag).status = st
BY DEF Reply, Message

(* Appending the turn of a client id the log has not accepted keeps the    *)
(* log paired and its client ids unique.                                   *)
LEMMA AppendKeepsLog ==
    ASSUME LogOK,
           NEW c \in ClientIds \cup {NoClient}, c = NoClient \/ ~Accepted(c),
           NEW reply \in Message,
           reply.role = "assistant", reply.cid = NoClient,
           msgs' = WithTurn(c, reply)
    PROVE  LogOK'
<1> USE DEF LogOK
<1>1. /\ msgs' \in Seq(Message)
      /\ Len(msgs') = Len(msgs) + 2
      /\ \A i \in DOMAIN msgs : msgs'[i] = msgs[i]
      /\ msgs'[Len(msgs) + 1] = UserMessage(c)
      /\ msgs'[Len(msgs) + 2] = reply
  BY WithTurnLemma
<1>2. /\ Len(msgs) \in Nat
      /\ DOMAIN msgs = 1..Len(msgs)
      /\ DOMAIN msgs' = 1..(Len(msgs) + 2)
  BY <1>1, LenProperties
<1>3. \A i \in DOMAIN msgs' : i \in DOMAIN msgs \/ i = Len(msgs) + 1 \/ i = Len(msgs) + 2
  BY <1>2
<1>4. Len(msgs) % 2 = 0
  BY DEF TurnsArePaired
<1>5. TurnsArePaired'
  <2>1. Len(msgs') % 2 = 0
    BY <1>1, <1>2, <1>4
  <2>2. /\ (Len(msgs) + 1) % 2 = 1
        /\ (Len(msgs) + 2) % 2 # 1
    BY <1>2, <1>4
  <2>3. ASSUME NEW i \in DOMAIN msgs'
        PROVE  IF i % 2 = 1 THEN msgs'[i].role = "user" /\ msgs'[i].status = "completed"
                            ELSE msgs'[i].role = "assistant" /\ msgs'[i].cid = NoClient
    <3>1. CASE i \in DOMAIN msgs
      BY <3>1, <1>1 DEF TurnsArePaired
    <3>2. CASE i = Len(msgs) + 1
      BY <3>2, <2>2, <1>1 DEF UserMessage
    <3>3. CASE i = Len(msgs) + 2
      BY <3>3, <2>2, <1>1
    <3> QED BY <3>1, <3>2, <3>3, <1>3
  <2> QED BY <2>1, <2>3 DEF TurnsArePaired
<1>6. UniqueClientMessages'
  <2>1. msgs'[Len(msgs) + 1].cid = c
    BY <1>1 DEF UserMessage
  <2>2. \A i \in DOMAIN msgs : c # NoClient => msgs[i].cid # c
    BY DEF Accepted
  <2> QED BY <2>1, <2>2, <1>1, <1>3 DEF UniqueClientMessages
<1> QED BY <1>1, <1>5, <1>6

(* Overwriting an assistant message by an assistant message does, too.     *)
LEMMA UpdateKeepsLog ==
    ASSUME LogOK,
           NEW s \in DOMAIN msgs, msgs[s].role = "assistant",
           NEW m \in Message, m.role = "assistant", m.cid = NoClient,
           msgs' = [msgs EXCEPT ![s] = m]
    PROVE  /\ LogOK'
           /\ Len(msgs') = Len(msgs)
           /\ DOMAIN msgs' = DOMAIN msgs
           /\ msgs'[s] = m
           /\ \A i \in DOMAIN msgs : i # s => msgs'[i] = msgs[i]
<1> USE DEF LogOK
<1>1. DOMAIN msgs = 1..Len(msgs)
  BY LenProperties
<1>2. /\ msgs' \in Seq(Message)
      /\ Len(msgs') = Len(msgs)
      /\ DOMAIN msgs' = DOMAIN msgs
      /\ msgs'[s] = m
      /\ \A i \in DOMAIN msgs : i # s => msgs'[i] = msgs[i]
  BY <1>1, ExceptSeq
<1>3. s % 2 # 1
  BY DEF TurnsArePaired
<1>4. TurnsArePaired'
  BY <1>2, <1>3 DEF TurnsArePaired
<1>5. UniqueClientMessages'
  BY <1>2 DEF UniqueClientMessages
<1> QED BY <1>2, <1>4, <1>5

-----------------------------------------------------------------------------
(* A step after which no handler is newly in flight and every message is   *)
(* as pending as it was keeps what is known of the turns in flight.        *)
TurnsKept ==
    /\ \A i \in DOMAIN msgs :
          /\ i \in DOMAIN msgs'
          /\ msgs'[i].role = msgs[i].role
          /\ msgs'[i].status = msgs[i].status
          /\ msgs'[i].retried = msgs[i].retried
    /\ \A i \in DOMAIN msgs' : Pending(i)' => i \in DOMAIN msgs
    /\ \A r \in Requests : InFlight(r)' =>
          /\ InFlight(r)
          /\ req'[r].seq = req[r].seq
          /\ req'[r].ctx = req[r].ctx

LEMMA TurnsKeptLemma ==
    ASSUME TypeOK, RowsExist,
           OneWriterPerTurn, PromptIsOwnUserMessage, FirstAttemptsNeverOverlap,
           TurnsKept
    PROVE  OneWriterPerTurn' /\ PromptIsOwnUserMessage' /\ FirstAttemptsNeverOverlap'
<1>1. \A i : Pending(i)' <=> Pending(i)
  BY DEF TurnsKept, Pending
<1>2. OneWriterPerTurn'
  BY <1>1 DEF OneWriterPerTurn, TurnsKept
<1>3. PromptIsOwnUserMessage'
  <2> SUFFICES ASSUME NEW r \in Requests, InFlight(r)'
               PROVE  /\ req'[r].seq - 1 \in req'[r].ctx
                      /\ \A i \in req'[r].ctx :
                            i \in 1..(req'[r].seq - 1) /\ msgs'[i].status = "completed"
    BY DEF PromptIsOwnUserMessage
  <2>1. /\ InFlight(r)
        /\ req'[r].seq = req[r].seq
        /\ req'[r].ctx = req[r].ctx
    BY DEF TurnsKept
  <2>2. \A i \in req[r].ctx :
           i \in 1..(req[r].seq - 1) /\ msgs[i].status = "completed"
    BY <2>1 DEF PromptIsOwnUserMessage
  <2>3. /\ req[r].seq \in Nat
        /\ req[r].seq <= Len(msgs)
        /\ DOMAIN msgs = 1..Len(msgs)
    BY LenProperties DEF TypeOK, RowsExist, Request
  <2>4. \A i \in req[r].ctx : i \in DOMAIN msgs
    BY <2>2, <2>3, LenProperties DEF TypeOK
  <2>5. req[r].seq - 1 \in req[r].ctx
    BY <2>1 DEF PromptIsOwnUserMessage
  <2> QED BY <2>1, <2>2, <2>4, <2>5 DEF TurnsKept
<1>4. FirstAttemptsNeverOverlap'
  BY <1>1 DEF FirstAttemptsNeverOverlap, TurnsKept, Pending
<1> QED BY <1>2, <1>3, <1>4

(* A step that commits a pending turn and goes on to the provider.         *)
LEMMA StartTurnLemma ==
    ASSUME IInv,
           NEW r \in Requests, req[r].pc = "idle",
           NEW m, NEW s \in DOMAIN m,
           StartTurn(r, m, s), LogOK', conv' = "active",
           m[s].role = "assistant", m[s].status = "pending",
           s \in DOMAIN msgs => msgs[s].status = "failed",
           \A i \in DOMAIN msgs : i \in DOMAIN m /\ (i # s => m[i] = msgs[i]),
           \A i \in DOMAIN m : i \in DOMAIN msgs \/ i = s \/ i = s - 1,
           s - 1 \notin DOMAIN msgs => s \notin DOMAIN msgs,
           m[s].retried \/ \A i \in DOMAIN msgs : ~Pending(i)
    PROVE  IInv'
<1> USE DEF LogOK
<1>1. msgs' = m
  BY DEF StartTurn
<1>2. /\ Len(msgs) \in Nat /\ Len(m) \in Nat
      /\ DOMAIN msgs = 1..Len(msgs)
      /\ DOMAIN m = 1..Len(m)
      /\ Len(msgs) <= Len(m)
      /\ s \in Nat
  BY <1>1, LenProperties DEF IInv, TypeOK
<1>3. /\ s - 1 \in DOMAIN m
      /\ m[s - 1].role = "user" /\ m[s - 1].status = "completed"
  <2>1. s % 2 # 1
    BY <1>1 DEF TurnsArePaired
  <2>2. s - 1 \in 1..Len(m) /\ (s - 1) % 2 = 1
    BY <2>1, <1>2
  <2> QED BY <2>2, <1>1, <1>2 DEF TurnsArePaired
<1> DEFINE new == [Idle EXCEPT !.pc = "calling", !.seq = s,
                               !.ctx = ProviderContext(m, s - 1)]
<1>4. /\ req' = [req EXCEPT ![r] = new]
      /\ req' \in [Requests -> Request]
      /\ new.pc = "calling" /\ new.seq = s /\ new.ctx = ProviderContext(m, s - 1)
  <2>1. ProviderContext(m, s - 1) \in SUBSET Nat
    BY <1>2 DEF ProviderContext
  <2>2. new \in Request
    BY <2>1, <1>2 DEF Idle, Request, Statuses, SearchTags
  <2> QED BY <2>2 DEF StartTurn, IInv, TypeOK, Idle
<1> HIDE DEF new
<1>5. /\ req'[r] = new
      /\ \A q \in Requests : q # r => req'[q] = req[q]
  BY <1>4 DEF IInv, TypeOK
<1>6. TypeOK'
  BY <1>4 DEF TypeOK
<1>7. ASSUME NEW q \in Requests, InFlight(q)
      PROVE  /\ req[q].seq \in DOMAIN msgs
             /\ req[q].seq # s
             /\ Pending(req[q].seq)
             /\ q # r
  BY <1>7 DEF IInv, OneWriterPerTurn, InFlight, Pending
<1>8. RowsExist'
  <2>1. conv' # "absent"
    OBVIOUS
  <2>2. ASSUME NEW q \in Requests, q # r
        PROVE  /\ req'[q].seq <= Len(msgs')
               /\ req'[q].pc = "idle" => req'[q].seq = 0
               /\ req'[q].pc \in {"calling", "resolved", "waiting"} => req'[q].seq # 0
               /\ req'[q].pc = "resolved" => req'[q].status # "pending"
               /\ req'[q].pc = "searching" /\ req'[q].seq # 0 =>
                     msgs'[req'[q].seq].role = "assistant"
    <3>1. req'[q] = req[q]
      BY <1>5, <2>2
    <3>2. req[q].seq \in Nat /\ req[q].seq <= Len(msgs)
      BY DEF IInv, TypeOK, RowsExist, Request
    <3>3. req[q].seq # 0 => req[q].seq \in DOMAIN msgs
      BY <3>2, <1>2
    <3>4. req[q].seq # 0 =>
             msgs'[req[q].seq].role = "assistant" \/
             msgs'[req[q].seq] = msgs[req[q].seq]
      BY <3>3, <1>1
    <3> QED BY <3>1, <3>2, <3>4, <1>1, <1>2 DEF IInv, RowsExist
  <2> QED BY <2>1, <2>2, <1>1, <1>2, <1>4, <1>5 DEF RowsExist
<1>9. OneWriterPerTurn'
  <2>1. Pending(s)'
    BY <1>1 DEF Pending
  <2>2. ASSUME NEW q \in Requests, InFlight(q)', q # r
        PROVE  InFlight(q) /\ req'[q].seq = req[q].seq /\ Pending(req[q].seq)'
    <3>1. InFlight(q) /\ req'[q].seq = req[q].seq
      BY <2>2, <1>5 DEF InFlight
    <3>2. Pending(req[q].seq)'
      BY <3>1, <1>7, <1>1 DEF Pending
    <3> QED BY <3>1, <3>2
  <2>3. req'[r].seq = s
    BY <1>4, <1>5
  <2> QED BY <2>1, <2>2, <2>3, <1>7 DEF OneWriterPerTurn, IInv
<1>10. PromptIsOwnUserMessage'
  <2>1. ASSUME NEW q \in Requests, InFlight(q)', q # r
        PROVE  /\ req'[q].seq - 1 \in req'[q].ctx
               /\ \A i \in req'[q].ctx :
                     i \in 1..(req'[q].seq - 1) /\ msgs'[i].status = "completed"
    <3>1. InFlight(q) /\ req'[q] = req[q]
      BY <2>1, <1>5 DEF InFlight
    <3>2. /\ req[q].seq - 1 \in req[q].ctx
          /\ \A i \in req[q].ctx :
                i \in 1..(req[q].seq - 1) /\ msgs[i].status = "completed"
      BY <3>1 DEF IInv, PromptIsOwnUserMessage
    <3>3. \A i \in req[q].ctx : i \in DOMAIN msgs
      BY <3>1, <3>2, <1>2, <1>7
    <3>4. \A i \in req[q].ctx : msgs'[i].status = "completed"
      <4> SUFFICES ASSUME NEW i \in req[q].ctx
                   PROVE  msgs'[i].status = "completed"
        OBVIOUS
      <4>1. i # s
        BY <3>2, <3>3
      <4> QED BY <4>1, <3>2, <3>3, <1>1
    <3> QED BY <3>1, <3>2, <3>4
  <2>2. /\ s - 1 \in new.ctx
        /\ \A i \in new.ctx : i \in 1..(s - 1) /\ m[i].status = "completed"
    BY <1>2, <1>3, <1>4 DEF ProviderContext
  <2> QED BY <2>1, <2>2, <1>1, <1>4, <1>5 DEF PromptIsOwnUserMessage
<1>11. FirstAttemptsNeverOverlap'
  <2>1. \A i : Pending(i)' =>
           \/ i = s
           \/ Pending(i) /\ i \in DOMAIN msgs /\ msgs'[i] = msgs[i]
    BY <1>1, <1>3 DEF Pending
  <2> QED BY <2>1, <1>1 DEF FirstAttemptsNeverOverlap, IInv
<1> QED BY <1>6, <1>8, <1>9, <1>10, <1>11 DEF IInv

(* A step of one handler that writes nothing.                              *)
RowOK(e) ==
    /\ e.seq <= Len(msgs)
    /\ e.pc = "idle" => e.seq = 0
    /\ e.pc \in {"calling", "resolved", "waiting"} => e.seq # 0
    /\ e.pc = "resolved" => e.status # "pending"
    /\ e.pc = "searching" /\ e.seq # 0 => msgs[e.seq].role = "assistant"

LEMMA HandlerStepLemma ==
    ASSUME IInv,
           NEW r \in Requests, NEW e \in Request, RowOK(e),
           e.pc \in {"calling", "resolved"} =>
              InFlight(r) /\ e.seq = req[r].seq /\ e.ctx = req[r].ctx,
           req' = [req EXCEPT ![r] = e], UNCHANGED <<conv, msgs>>
    PROVE  IInv'
<1>1. /\ req' \in [Requests -> Request]
      /\ req'[r] = e
      /\ \A q \in Requests : q # r => req'[q] = req[q]
  BY DEF IInv, TypeOK
<1>2. TypeOK' /\ TurnsArePaired' /\ UniqueClientMessages'
  BY <1>1 DEF IInv, TypeOK, TurnsArePaired, UniqueClientMessages
<1>3. RowsExist'
  BY <1>1 DEF IInv, RowsExist, RowOK
<1>4. TurnsKept
  BY <1>1 DEF TurnsKept, InFlight
<1> QED BY <1>2, <1>3, <1>4, TurnsKeptLemma DEF IInv

(* Letting go of everything is such a step.                                *)
LEMMA IdleLemma ==
    ASSUME IInv, NEW r \in Requests,
           req' = [req EXCEPT ![r] = Idle], UNCHANGED <<conv, msgs>>
    PROVE  IInv'
<1>1. Idle \in Request
  BY DEF Idle, Request, Statuses, SearchTags
<1>2. RowOK(Idle)
  BY LenProperties DEF RowOK, Idle, IInv, TypeOK
<1>3. Idle.pc \notin {"calling", "resolved"}
  BY DEF Idle
<1> QED BY <1>1, <1>2, <1>3, HandlerStepLemma

(* submit_turn commits: messages are added or their search state changes,  *)
(* none of them pending that was not, and the handler lets go.             *)
LEMMA SubmitLemma ==
    ASSUME IInv, NEW r \in Requests,
           req' = req \/ req' = [req EXCEPT ![r] = Idle],
           conv' # "absent", conv' \in {"active", conv},
           LogOK', Len(msgs) <= Len(msgs'),
           \A i \in DOMAIN msgs :
              /\ msgs'[i].role = msgs[i].role
              /\ msgs'[i].status = msgs[i].status
              /\ msgs'[i].retried = msgs[i].retried,
           \A i \in DOMAIN msgs' \ DOMAIN msgs : msgs'[i].status = "completed"
    PROVE  IInv'
<1> USE DEF LogOK
<1>1. Idle \in Request /\ Idle.seq = 0 /\ Idle.pc = "idle"
  BY DEF Idle, Request, Statuses, SearchTags
<1>2. \A q \in Requests : req'[q] = req[q] \/ req'[q] = Idle
  BY DEF IInv, TypeOK
<1>3. TypeOK'
  BY <1>1 DEF IInv, TypeOK
<1>4. /\ Len(msgs) \in Nat /\ Len(msgs') \in Nat
      /\ DOMAIN msgs = 1..Len(msgs)
      /\ DOMAIN msgs' = 1..Len(msgs')
  BY LenProperties DEF IInv, TypeOK
<1>5. RowsExist'
  <2> SUFFICES ASSUME NEW q \in Requests PROVE RowOK(req[q])'
    BY DEF RowsExist, RowOK
  <2>1. CASE req'[q] = Idle
    BY <2>1, <1>1, <1>4 DEF RowOK
  <2>2. CASE req'[q] = req[q]
    <3>1. req[q].seq \in Nat /\ req[q].seq <= Len(msgs)
      BY DEF IInv, TypeOK, RowsExist, Request
    <3>2. req[q].seq # 0 => req[q].seq \in DOMAIN msgs
      BY <3>1, <1>4
    <3> QED BY <2>2, <3>1, <3>2, <1>4 DEF IInv, RowsExist, RowOK
  <2> QED BY <2>1, <2>2, <1>2
<1>6. TurnsKept
  <2>1. \A i \in DOMAIN msgs : i \in DOMAIN msgs'
    BY <1>4
  <2>2. \A q \in Requests : InFlight(q)' => req'[q] = req[q]
    BY <1>1, <1>2 DEF InFlight
  <2>3. \A i \in DOMAIN msgs' : Pending(i)' => i \in DOMAIN msgs
    BY DEF Pending
  <2> QED BY <2>1, <2>2, <2>3 DEF TurnsKept, InFlight
<1> QED BY <1>3, <1>5, <1>6, TurnsKeptLemma DEF IInv

(* A completed turn without a client id is appended.                       *)
LEMMA AppendTurnLemma ==
    ASSUME IInv, NEW r \in Requests,
           req' = req \/ req' = [req EXCEPT ![r] = Idle],
           conv' # "absent", conv' \in {"active", conv},
           NEW tag \in SearchTags,
           msgs' = WithTurn(NoClient, Reply("completed", tag))
    PROVE  IInv'
<1> DEFINE reply == Reply("completed", tag)
<1>1. reply \in Message /\ reply.role = "assistant" /\ reply.cid = NoClient
      /\ reply.status = "completed"
  BY ReplyLemma DEF Statuses
<1>2. LogOK
  BY DEF IInv, TypeOK, LogOK
<1>3. LogOK'
  BY <1>1, <1>2, AppendKeepsLog
<1> HIDE DEF reply
<1>4. /\ Len(msgs') = Len(msgs) + 2
      /\ \A i \in DOMAIN msgs : msgs'[i] = msgs[i]
      /\ msgs'[Len(msgs) + 1] = UserMessage(NoClient)
      /\ msgs'[Len(msgs) + 2] = reply
  BY SMTT(40), <1>1, WithTurnLemma DEF IInv, TypeOK, reply
<1>5. /\ Len(msgs) \in Nat
      /\ DOMAIN msgs = 1..Len(msgs) /\ DOMAIN msgs' = 1..(Len(msgs) + 2)
  BY <1>3, <1>4, LenProperties DEF IInv, TypeOK, LogOK
<1>6. \A i \in DOMAIN msgs' \ DOMAIN msgs : i = Len(msgs) + 1 \/ i = Len(msgs) + 2
  BY <1>5
<1>7. UserMessage(NoClient).status = "completed"
  BY DEF UserMessage
<1>8. \A i \in DOMAIN msgs' \ DOMAIN msgs : msgs'[i].status = "completed"
  BY <1>1, <1>4, <1>6, <1>7
<1> QED BY <1>3, <1>4, <1>5, <1>8, SubmitLemma

(* The search state of an assistant message is replaced.                   *)
LEMMA SearchStateLemma ==
    ASSUME IInv, NEW r \in Requests,
           req' = [req EXCEPT ![r] = Idle],
           conv' # "absent", conv' \in {"active", conv},
           NEW s \in DOMAIN msgs, msgs[s].role = "assistant",
           NEW tag \in SearchTags,
           msgs' = [msgs EXCEPT ![s].search = tag]
    PROVE  IInv'
<1> DEFINE m == [msgs[s] EXCEPT !.search = tag]
<1>1. LogOK
  BY DEF IInv, TypeOK, LogOK
<1>2. msgs[s] \in Message /\ msgs[s].cid = NoClient
  <2>1. s \in 1..Len(msgs)
    BY <1>1, LenProperties DEF LogOK
  <2> QED BY <2>1, <1>1, ElementOfSeq DEF LogOK, TurnsArePaired
<1>3. /\ m \in Message /\ m.cid = NoClient /\ m.role = "assistant"
      /\ m.status = msgs[s].status /\ m.retried = msgs[s].retried
  BY <1>2 DEF Message
<1>4. msgs' = [msgs EXCEPT ![s] = m]
  OBVIOUS
<1> HIDE DEF m
<1>5. /\ LogOK'
      /\ Len(msgs') = Len(msgs)
      /\ DOMAIN msgs' = DOMAIN msgs
      /\ msgs'[s] = m
      /\ \A i \in DOMAIN msgs : i # s => msgs'[i] = msgs[i]
  BY <1>1, <1>3, <1>4, UpdateKeepsLog
<1>6. Len(msgs) <= Len(msgs')
  BY <1>1, <1>5, LenProperties DEF LogOK
<1>7. \A i \in DOMAIN msgs :
        /\ msgs'[i].role = msgs[i].role
        /\ msgs'[i].status = msgs[i].status
        /\ msgs'[i].retried = msgs[i].retried
  BY <1>3, <1>5
<1>8. \A i \in DOMAIN msgs' \ DOMAIN msgs : msgs'[i].status = "completed"
  BY <1>5
<1> QED BY <1>5, <1>6, <1>7, <1>8, SubmitLemma

(* _complete_turn commits: the pending message of the handler is settled.  *)
LEMMA CommitTurnLemma ==
    ASSUME IInv, NEW r \in Requests, CommitTurn(r)
    PROVE  /\ IInv'
           /\ req[r].seq \in DOMAIN msgs
           /\ Pending(req[r].seq)
           /\ DOMAIN msgs' = DOMAIN msgs
           /\ msgs'[req[r].seq].cid = NoClient
           /\ msgs'[req[r].seq].status \in {"completed", "failed"}
           /\ \A i \in DOMAIN msgs : i # req[r].seq => msgs'[i] = msgs[i]
<1> DEFINE s == req[r].seq
           m == [Reply(req[r].status, req[r].search) EXCEPT
                   !.retried = msgs[s].retried]
<1>1. LogOK
  BY DEF IInv, TypeOK, LogOK
<1>2. InFlight(r) /\ Pending(s)
  BY DEF CommitTurn, InFlight, IInv, OneWriterPerTurn
<1>3. s \in DOMAIN msgs /\ msgs[s].role = "assistant" /\ msgs[s] \in Message
  <2>1. s \in 1..Len(msgs)
    BY <1>1, <1>2, LenProperties DEF Pending, LogOK
  <2> QED BY <1>1, <1>2, <2>1, ElementOfSeq DEF Pending, LogOK
<1>4. /\ req[r].status \in {"completed", "failed"}
      /\ req[r].search \in SearchTags
  BY DEF CommitTurn, IInv, TypeOK, RowsExist, Request, Statuses
<1>5. /\ m \in Message /\ m.cid = NoClient /\ m.role = "assistant"
      /\ m.status = req[r].status /\ m.retried = msgs[s].retried
  BY <1>3, <1>4 DEF Reply, Message, Statuses
<1>6. msgs' = [msgs EXCEPT ![s] = m]
  BY DEF CommitTurn
<1> HIDE DEF m
<1>7. /\ LogOK'
      /\ Len(msgs') = Len(msgs)
      /\ DOMAIN msgs' = DOMAIN msgs
      /\ msgs'[s] = m
      /\ \A i \in DOMAIN msgs : i # s => msgs'[i] = msgs[i]
  BY <1>1, <1>3, <1>5, <1>6, UpdateKeepsLog
<1>8. /\ req' = [req EXCEPT ![r] = Idle]
      /\ Idle \in Request /\ Idle.pc = "idle" /\ Idle.seq = 0
      /\ req'[r] = Idle
      /\ \A q \in Requests : q # r => req'[q] = req[q]
      /\ conv' = conv
  BY DEF CommitTurn, Idle, IInv, TypeOK, Request, Statuses, SearchTags
<1>9. TypeOK'
  BY <1>7, <1>8 DEF IInv, TypeOK, LogOK
<1>10. /\ Len(msgs) \in Nat
       /\ DOMAIN msgs = 1..Len(msgs)
       /\ \A q \in Requests : req[q].seq \in Nat /\ req[q].seq <= Len(msgs)
  BY <1>1, LenProperties DEF LogOK, IInv, TypeOK, RowsExist, Request
<1>11. RowsExist'
  <2>1. conv' # "absent"
    BY <1>3, <1>8, <1>10 DEF IInv, RowsExist
  <2>2. \A i \in DOMAIN msgs : msgs[i].role = "assistant" => msgs'[i].role = "assistant"
    BY <1>5, <1>7
  <2>3. \A q \in Requests : req[q].seq # 0 => req[q].seq \in DOMAIN msgs
    BY <1>10
  <2> QED BY <2>1, <2>2, <2>3, <1>7, <1>8, <1>10 DEF IInv, RowsExist
<1>12. \A i : Pending(i)' => i # s /\ i \in DOMAIN msgs /\ Pending(i) /\ msgs'[i] = msgs[i]
  BY <1>4, <1>5, <1>7 DEF Pending
<1>13. ASSUME NEW q \in Requests, InFlight(q)'
       PROVE  /\ q # r /\ InFlight(q) /\ req'[q] = req[q]
              /\ req[q].seq # s /\ Pending(req[q].seq)'
  <2>1. q # r /\ InFlight(q) /\ req'[q] = req[q]
    BY <1>8, <1>13 DEF InFlight
  <2>2. req[q].seq # s /\ Pending(req[q].seq)
    BY <1>2, <2>1 DEF IInv, OneWriterPerTurn
  <2> QED BY <2>1, <2>2, <1>7 DEF Pending
<1>14. OneWriterPerTurn'
  BY <1>13 DEF IInv, OneWriterPerTurn
<1>15. PromptIsOwnUserMessage'
  <2> SUFFICES ASSUME NEW q \in Requests, InFlight(q)'
               PROVE  /\ req'[q].seq - 1 \in req'[q].ctx
                      /\ \A i \in req'[q].ctx :
                            i \in 1..(req'[q].seq - 1) /\ msgs'[i].status = "completed"
    BY DEF PromptIsOwnUserMessage
  <2>1. InFlight(q) /\ req'[q] = req[q]
    BY <1>13
  <2>2. /\ req[q].seq - 1 \in req[q].ctx
        /\ \A i \in req[q].ctx :
              i \in 1..(req[q].seq - 1) /\ msgs[i].status = "completed"
    BY <2>1 DEF IInv, PromptIsOwnUserMessage
  <2>3. \A i \in req[q].ctx : i \in DOMAIN msgs /\ i # s
    <3>1. msgs[s].status = "pending"
      BY <1>2 DEF Pending
    <3> QED BY <2>2, <3>1, <1>10
  <2> QED BY <2>1, <2>2, <2>3, <1>7
<1>16. FirstAttemptsNeverOverlap'
  BY <1>12 DEF IInv, FirstAttemptsNeverOverlap
<1>17. IInv'
  BY <1>7, <1>9, <1>11, <1>14, <1>15, <1>16 DEF IInv, LogOK
<1> QED BY <1>2, <1>3, <1>4, <1>5, <1>7, <1>17

-----------------------------------------------------------------------------
LEMMA InitIInv == Init => IInv
<1> SUFFICES ASSUME Init PROVE IInv
  OBVIOUS
<1>1. msgs = <<>> /\ msgs \in Seq(Message) /\ Len(msgs) = 0 /\ DOMAIN msgs = {}
  BY EmptySeq, LenProperties DEF Init
<1>2. Idle \in Request /\ Idle.pc = "idle" /\ Idle.seq = 0
  BY DEF Idle, Request, Statuses, SearchTags
<1>3. TypeOK
  BY <1>1, <1>2 DEF Init, TypeOK
<1>4. RowsExist
  BY <1>1, <1>2 DEF Init, RowsExist
<1>5. TurnsArePaired /\ UniqueClientMessages /\ FirstAttemptsNeverOverlap
  BY <1>1 DEF TurnsArePaired, UniqueClientMessages, FirstAttemptsNeverOverlap
<1>6. OneWriterPerTurn /\ PromptIsOwnUserMessage
  BY <1>2 DEF Init, OneWriterPerTurn, PromptIsOwnUserMessage, InFlight
<1> QED BY <1>3, <1>4, <1>5, <1>6 DEF IInv

(* A client message the log has not accepted starts a turn while no other  *)
(* turn is pending.                                                        *)
LEMMA NewTurnLemma ==
    ASSUME IInv, NEW r \in Requests, req[r].pc = "idle",
           NEW c \in ClientIds, ~Accepted(c),
           \A i \in DOMAIN msgs : ~Pending(i),
           conv' = "active",
           StartTurn(r, WithTurn(c, Reply("pending", "none")), Len(msgs) + 2)
    PROVE  IInv'
<1> DEFINE m == WithTurn(c, Reply("pending", "none"))
           s == Len(msgs) + 2
<1>1. LogOK
  BY DEF IInv, TypeOK, LogOK
<1>2. LET reply == Reply("pending", "none")
      IN  /\ reply \in Message /\ reply.role = "assistant"
          /\ reply.cid = NoClient /\ reply.status = "pending"
  BY ReplyLemma DEF Statuses, SearchTags
<1>3. msgs' = m
  BY DEF StartTurn
<1>4. LogOK'
  BY <1>1, <1>2, <1>3, AppendKeepsLog
<1>5. /\ m \in Seq(Message)
      /\ Len(m) = Len(msgs) + 2
      /\ \A i \in DOMAIN msgs : m[i] = msgs[i]
      /\ m[s] = Reply("pending", "none")
  BY <1>1, <1>2, WithTurnLemma DEF LogOK
<1> HIDE DEF m
<1>6. /\ Len(msgs) \in Nat
      /\ DOMAIN msgs = 1..Len(msgs) /\ DOMAIN m = 1..(Len(msgs) + 2)
  BY <1>1, <1>5, LenProperties DEF LogOK
<1>7. /\ s \in DOMAIN m /\ s \notin DOMAIN msgs
      /\ \A i \in DOMAIN msgs : i \in DOMAIN m
      /\ \A i \in DOMAIN m : i \in DOMAIN msgs \/ i = s \/ i = s - 1
  BY <1>6
<1>8. StartTurn(r, m, s)
  BY DEF m
<1>9. m[s].role = "assistant" /\ m[s].status = "pending"
  BY <1>2, <1>5
<1> HIDE DEF s
<1> QED BY <1>4, <1>5, <1>7, <1>8, <1>9, StartTurnLemma

(* A failed turn is pending again.                                         *)
LEMMA RetryLemma ==
    ASSUME IInv, NEW r \in Requests, NEW c \in ClientIds, Retry(r, c)
    PROVE  /\ IInv'
           /\ \E i \in DOMAIN msgs :
                 /\ msgs[i].cid = c
                 /\ i + 1 \in DOMAIN msgs
                 /\ msgs[i + 1].role = "assistant"
                 /\ msgs[i + 1].status = "failed"
                 /\ DOMAIN msgs' = DOMAIN msgs
                 /\ msgs'[i + 1].cid = NoClient
                 /\ msgs'[i + 1].status = "pending"
                 /\ \A j \in DOMAIN msgs : j # i + 1 => msgs'[j] = msgs[j]
<1>1. PICK i \in DOMAIN msgs :
        /\ msgs[i].cid = c
        /\ i + 1 \in DOMAIN msgs
        /\ msgs[i + 1].role = "assistant"
        /\ msgs[i + 1].status = "failed"
        /\ StartTurn(r, [msgs EXCEPT ![i + 1] =
                            [Reply("pending", "none") EXCEPT !.retried = TRUE]],
                      i + 1)
  BY DEF Retry
<1> DEFINE reply == [Reply("pending", "none") EXCEPT !.retried = TRUE]
           s == i + 1
           m == [msgs EXCEPT ![s] = reply]
<1>2. /\ reply \in Message /\ reply.role = "assistant" /\ reply.cid = NoClient
      /\ reply.status = "pending" /\ reply.retried
  BY DEF Reply, Message, Statuses, SearchTags
<1>3. LogOK
  BY DEF IInv, TypeOK, LogOK
<1>4. s \in DOMAIN msgs /\ msgs[s].role = "assistant" /\ msgs[s].status = "failed"
  BY <1>1
<1>5. StartTurn(r, m, s) /\ msgs' = m
  BY <1>1 DEF StartTurn
<1> HIDE DEF reply
<1>6. /\ LogOK'
      /\ DOMAIN m = DOMAIN msgs
      /\ m[s] = reply
      /\ \A j \in DOMAIN msgs : j # s => m[j] = msgs[j]
  BY <1>2, <1>3, <1>4, <1>5, UpdateKeepsLog
<1>7. s - 1 = i
  BY <1>3, LenProperties DEF LogOK
<1>8. req[r].pc = "idle" /\ conv' = "active"
  BY DEF Retry
<1> HIDE DEF s, m
<1>9. IInv'
  BY <1>2, <1>4, <1>5, <1>6, <1>7, <1>8, StartTurnLemma
<1>10. /\ DOMAIN msgs' = DOMAIN msgs
       /\ msgs'[s].cid = NoClient
       /\ msgs'[s].status = "pending"
       /\ \A j \in DOMAIN msgs : j # s => msgs'[j] = msgs[j]
  BY <1>2, <1>5, <1>6
<1> QED BY <1>1, <1>9, <1>10 DEF s

LEMMA NextIInv == IInv /\ [Next]_vars => IInv'
<1> SUFFICES ASSUME IInv, [Next]_vars PROVE IInv'
  OBVIOUS
<1>0. /\ \A q \in Requests : req[q] \in Request /\ req[q].seq \in Nat
      /\ msgs \in Seq(Message)
      /\ Len(msgs) \in Nat
      /\ DOMAIN msgs = 1..Len(msgs)
      /\ \A q \in Requests : RowOK(req[q])
      /\ \A q \in Requests : req[q].seq # 0 => req[q].seq \in DOMAIN msgs
  BY LenProperties DEF IInv, TypeOK, RowsExist, RowOK, Request
<1>1. ASSUME NEW r \in Requests, CreateConversation(r) PROVE IInv'
  <2>1. TypeOK' /\ TurnsArePaired' /\ UniqueClientMessages'
    BY <1>1 DEF CreateConversation, IInv, TypeOK, TurnsArePaired, UniqueClientMessages
  <2>2. RowsExist'
    BY <1>1 DEF CreateConversation, IInv, RowsExist
  <2>3. TurnsKept
    BY <1>1 DEF CreateConversation, TurnsKept, InFlight
  <2> QED BY <2>1, <2>2, <2>3, TurnsKeptLemma DEF IInv
<1>2. ASSUME NEW r \in Requests, NEW c \in ClientIds, CreateWithMessage(r, c) PROVE IInv'
  <2>1. msgs = <<>>
    BY <1>2 DEF CreateWithMessage, IInv, RowsExist
  <2>2. ~Accepted(c) /\ \A i \in DOMAIN msgs : ~Pending(i)
    BY <1>0, <2>1, EmptySeq DEF Accepted
  <2> QED BY <1>2, <2>2, NewTurnLemma DEF CreateWithMessage
<1>3. ASSUME NEW r \in Requests, NEW c \in ClientIds, Send(r, c) PROVE IInv'
  BY <1>3, NewTurnLemma DEF Send
<1>4. ASSUME NEW r \in Requests, NEW c \in ClientIds, Retry(r, c) PROVE IInv'
  BY <1>4, RetryLemma
<1>5. ASSUME NEW r \in Requests, NEW st \in {"completed", "failed"},
             NEW tag \in SearchTags, Resolve(r, st, tag)
      PROVE  IInv'
  <2> DEFINE e == [req[r] EXCEPT !.pc = "resolved", !.status = st, !.search = tag]
  <2>1. /\ e \in Request /\ e.seq = req[r].seq /\ e.ctx = req[r].ctx
        /\ e.pc = "resolved" /\ e.status # "pending"
    BY <1>0 DEF Request, Statuses
  <2>2. req' = [req EXCEPT ![r] = e] /\ UNCHANGED <<conv, msgs>>
    BY <1>5 DEF Resolve
  <2> HIDE DEF e
  <2>3. RowOK(e) /\ InFlight(r)
    BY <1>0, <1>5, <2>1 DEF Resolve, RowOK, InFlight
  <2> QED BY <2>1, <2>2, <2>3, HandlerStepLemma
<1>6. ASSUME NEW r \in Requests, CommitTurn(r) PROVE IInv'
  BY <1>6, CommitTurnLemma
<1>7. ASSUME NEW r \in Requests, Abandon(r) PROVE IInv'
  BY <1>7, IdleLemma DEF Abandon
<1>8. ASSUME Delete \/ UndoDelete \/ UndoWindowCloses PROVE IInv'
  <2> USE DEF Delete, UndoDelete, UndoWindowCloses
  <2>1. TypeOK' /\ TurnsArePaired' /\ UniqueClientMessages'
    BY <1>8 DEF IInv, TypeOK, TurnsArePaired, UniqueClientMessages
  <2>2. RowsExist'
    BY <1>8 DEF IInv, RowsExist
  <2>3. TurnsKept
    BY <1>8 DEF TurnsKept, InFlight
  <2> QED BY <2>1, <2>2, <2>3, TurnsKeptLemma DEF IInv
<1>9. ASSUME NEW r \in Requests, NEW tag \in SearchTags, SubmitWithoutWorker(r, tag)
      PROVE  IInv'
  BY <1>9, AppendTurnLemma DEF SubmitWithoutWorker
<1>10. ASSUME NEW r \in Requests, SubmitSearch(r) PROVE IInv'
  <2> DEFINE e == [req[r] EXCEPT !.pc = "searching"]
  <2>1. e \in Request /\ e.seq = req[r].seq /\ e.pc = "searching"
    BY <1>0 DEF Request
  <2>2. req' = [req EXCEPT ![r] = e] /\ UNCHANGED <<conv, msgs>> /\ req[r].seq = 0
    BY <1>0, <1>10 DEF SubmitSearch, RowOK
  <2> HIDE DEF e
  <2>3. RowOK(e)
    BY <1>0, <2>1, <2>2 DEF RowOK
  <2> QED BY <2>1, <2>2, <2>3, HandlerStepLemma
<1>11. ASSUME NEW r \in Requests, NEW s \in DOMAIN msgs, SubmitRetry(r, s) PROVE IInv'
  <2> DEFINE e == [req[r] EXCEPT !.pc = "waiting", !.seq = s]
  <2>0. s \in Nat
    BY <1>0
  <2>1. e \in Request /\ e.seq = s /\ e.pc = "waiting"
    BY <1>0, <2>0 DEF Request
  <2>2. req' = [req EXCEPT ![r] = e] /\ UNCHANGED <<conv, msgs>>
    BY <1>11 DEF SubmitRetry
  <2> HIDE DEF e
  <2>3. RowOK(e)
    BY <1>0, <2>1 DEF RowOK
  <2> QED BY <2>1, <2>2, <2>3, HandlerStepLemma
<1>12. ASSUME NEW r \in Requests, RetryRefused(r) \/ SubmitRollback(r) PROVE IInv'
  BY <1>12, IdleLemma DEF RetryRefused, SubmitRollback
<1>13. ASSUME NEW r \in Requests, NEW tag \in SearchTags, RetryWithoutWorker(r, tag)
       PROVE  IInv'
  <2>1. req[r].seq \in DOMAIN msgs /\ msgs[req[r].seq].role = "assistant"
    BY <1>0, <1>13 DEF RetryWithoutWorker, RowOK, Retryable
  <2>2. conv' # "absent" /\ conv' = conv
    BY <1>0, <1>13, <2>1 DEF RetryWithoutWorker, IInv, RowsExist
  <2> QED BY <1>13, <2>1, <2>2, SearchStateLemma DEF RetryWithoutWorker
<1>14. ASSUME NEW r \in Requests, RetrySearch(r) PROVE IInv'
  <2> DEFINE e == [req[r] EXCEPT !.pc = "searching"]
  <2>1. e \in Request /\ e.seq = req[r].seq /\ e.pc = "searching"
    BY <1>0 DEF Request
  <2>2. /\ req' = [req EXCEPT ![r] = e] /\ UNCHANGED <<conv, msgs>>
        /\ msgs[req[r].seq].role = "assistant"
    BY <1>14 DEF RetrySearch, Retryable
  <2> HIDE DEF e
  <2>3. RowOK(e)
    BY <1>0, <2>1, <2>2 DEF RowOK
  <2> QED BY <2>1, <2>2, <2>3, HandlerStepLemma
<1>15. ASSUME NEW r \in Requests, NEW tag \in SearchTags, SubmitCommit(r, tag) PROVE IInv'
  <2>1. /\ req' = [req EXCEPT ![r] = Idle]
        /\ conv' # "absent" /\ conv' \in {"active", conv}
    BY <1>15 DEF SubmitCommit
  <2>2. CASE req[r].seq = 0
    BY <1>15, <2>1, <2>2, AppendTurnLemma DEF SubmitCommit
  <2>3. CASE req[r].seq # 0
    <3>1. req[r].seq \in DOMAIN msgs /\ msgs[req[r].seq].role = "assistant"
      BY <1>0, <1>15, <2>3 DEF SubmitCommit, RowOK
    <3> QED BY <1>15, <2>1, <2>3, <3>1, SearchStateLemma DEF SubmitCommit
  <2> QED BY <2>2, <2>3
<1>16. ASSUME NEW r \in Requests, DeadlockDetected(r) PROVE IInv'
  <2>1. PICK q \in Requests : \E v \in {r, q} : DeadlockVictim(r, q, v)
    BY <1>16 DEF DeadlockDetected
  <2>2. PICK v \in {r, q} : DeadlockVictim(r, q, v)
    BY <2>1
  <2> QED BY <2>2, IdleLemma DEF DeadlockVictim
<1>17. ASSUME UNCHANGED vars PROVE IInv'
  <2>1. TypeOK' /\ TurnsArePaired' /\ UniqueClientMessages'
    BY <1>17 DEF vars, IInv, TypeOK, TurnsArePaired, UniqueClientMessages
  <2>2. RowsExist'
    BY <1>17 DEF vars, IInv, RowsExist
  <2>3. TurnsKept
    BY <1>17 DEF vars, TurnsKept, InFlight
  <2> QED BY <2>1, <2>2, <2>3, TurnsKeptLemma DEF IInv
<1> QED
  BY <1>1, <1>2, <1>3, <1>4, <1>5, <1>6, <1>7, <1>8, <1>9, <1>10, <1>11, <1>12,
     <1>13, <1>14, <1>15, <1>16, <1>17
  DEF Next, ClientStep, ProviderReturns, WorkerReturns, RetryLocked

-----------------------------------------------------------------------------
(* Whatever the handlers do, IInv holds.                                   *)
THEOREM Invariant == Spec => []IInv
BY InitIInv, NextIInv, PTL DEF Spec

(* The variables keep their types: no step of either service writes a row  *)
(* outside of what the readers of the log expect.                          *)
THEOREM TypeCorrect == Spec => []TypeOK
<1>1. IInv => TypeOK
  BY DEF IInv
<1> QED BY <1>1, Invariant, PTL

(* OneWriterPerTurn: the writes by message id of _complete_turn never meet.*)
THEOREM OneWriter == Spec => []OneWriterPerTurn
<1>1. IInv => OneWriterPerTurn
  BY DEF IInv
<1> QED BY <1>1, Invariant, PTL

(* LogIsWellFormed: the log's shape, and the idempotency of                *)
(* client_message_id, survive every interleaving.                          *)
THEOREM LogWellFormed == Spec => []LogIsWellFormed
<1>1. IInv => LogIsWellFormed
  BY DEF IInv, LogIsWellFormed
<1> QED BY <1>1, Invariant, PTL

(* PromptIsOwnUserMessage: the provider is asked the turn's own question.  *)
THEOREM OwnPrompt == Spec => []PromptIsOwnUserMessage
<1>1. IInv => PromptIsOwnUserMessage
  BY DEF IInv
<1> QED BY <1>1, Invariant, PTL

(* FirstAttemptsNeverOverlap: of two pending turns one is a retry.         *)
THEOREM FirstAttempts == Spec => []FirstAttemptsNeverOverlap
<1>1. IInv => FirstAttemptsNeverOverlap
  BY DEF IInv
<1> QED BY <1>1, Invariant, PTL

-----------------------------------------------------------------------------
(* Whoever holds the conversation's row lock has found it not deleted.     *)
LockedIsOpen == ConvLocked => conv \in {"absent", "active"}

LEMMA InitLocked == Init => LockedIsOpen
BY DEF Init, Idle, LockedIsOpen, ConvLocked

LEMMA NextLocked == IInv /\ LockedIsOpen /\ [Next]_vars => LockedIsOpen'
<1> SUFFICES ASSUME IInv, LockedIsOpen, [Next]_vars PROVE LockedIsOpen'
  OBVIOUS
<1> USE DEF LockedIsOpen
<1>0. req \in [Requests -> Request] /\ Idle.pc = "idle"
  BY DEF IInv, TypeOK, Idle
<1>1. ASSUME NEW r \in Requests, req' = [req EXCEPT ![r] = Idle],
             conv' \in {conv, "active"}
      PROVE  LockedIsOpen'
  BY <1>0, <1>1 DEF ConvLocked
<1>2. ASSUME NEW r \in Requests,
             \/ CreateConversation(r)
             \/ \E tag \in SearchTags : SubmitWithoutWorker(r, tag)
             \/ SubmitSearch(r)
             \/ \E s \in DOMAIN msgs : SubmitRetry(r, s)
      PROVE  conv' \in {"absent", "active"}
  BY <1>2 DEF CreateConversation, SubmitWithoutWorker, SubmitSearch, SubmitRetry, Submittable
<1>3. ASSUME NEW r \in Requests, NEW c \in ClientIds,
             CreateWithMessage(r, c) \/ Send(r, c) \/ Retry(r, c)
      PROVE  conv' \in {"absent", "active"}
  BY <1>3 DEF CreateWithMessage, Send, Retry
<1>4. ASSUME NEW r \in Requests, ProviderReturns(r) PROVE LockedIsOpen'
  BY <1>0, <1>4 DEF ProviderReturns, Resolve, ConvLocked
<1>5. ASSUME NEW r \in Requests, CommitTurn(r) \/ Abandon(r) PROVE LockedIsOpen'
  BY <1>1, <1>5 DEF CommitTurn, Abandon
<1>6. ASSUME NEW r \in Requests, WorkerReturns(r) PROVE LockedIsOpen'
  BY <1>1, <1>6 DEF WorkerReturns, SubmitRollback, SubmitCommit
<1>7. ASSUME NEW r \in Requests, RetryLocked(r) PROVE LockedIsOpen'
  <2>1. ConvLocked /\ conv' = conv
    BY <1>7 DEF RetryLocked, RetryRefused, RetrySearch, RetryWithoutWorker, ConvLocked
  <2> QED BY <2>1
<1>8. ASSUME NEW r \in Requests, DeadlockDetected(r) PROVE LockedIsOpen'
  <2>1. \E q \in Requests : req[q].pc = "waiting"
    BY <1>8 DEF DeadlockDetected, DeadlockVictim
  <2>2. conv' = conv
    BY <1>8 DEF DeadlockDetected, DeadlockVictim
  <2> QED BY <2>1, <2>2 DEF ConvLocked
<1>9. ASSUME Delete \/ UndoDelete PROVE LockedIsOpen'
  BY <1>9 DEF Delete, UndoDelete, ConvLocked
<1>10. ASSUME UndoWindowCloses PROVE LockedIsOpen'
  BY <1>10 DEF UndoWindowCloses, ConvLocked
<1>11. ASSUME UNCHANGED vars PROVE LockedIsOpen'
  BY <1>11 DEF vars, ConvLocked
<1> QED
  BY <1>2, <1>3, <1>4, <1>5, <1>6, <1>7, <1>8, <1>9, <1>10, <1>11 DEF Next, ClientStep

LEMMA NextClosed ==
    ASSUME IInv, LockedIsOpen, [Next]_vars, conv = "deleted" \/ conv = "expired"
    PROVE  NothingReachesDeleted
<1>0. /\ req \in [Requests -> Request] /\ Idle.pc = "idle"
      /\ ~ConvLocked
      /\ \A r \in Requests : req[r].pc # "searching" /\ req[r].pc # "waiting"
  BY DEF IInv, TypeOK, Idle, LockedIsOpen, ConvLocked
<1>1. ASSUME NEW r \in Requests PROVE ~ClientStep(r)
  BY DEF ClientStep, CreateConversation, CreateWithMessage, Send, Retry, SubmitWithoutWorker,
         SubmitSearch, SubmitRetry, Submittable
<1>2. ASSUME NEW r \in Requests
      PROVE  ~WorkerReturns(r) /\ ~RetryLocked(r) /\ ~DeadlockDetected(r)
  BY <1>0 DEF WorkerReturns, SubmitRollback, SubmitCommit, RetryLocked, RetryRefused,
     RetrySearch, RetryWithoutWorker, DeadlockDetected, DeadlockVictim
<1>3. ASSUME NEW r \in Requests, ProviderReturns(r) PROVE NothingReachesDeleted
  BY <1>0, <1>3 DEF ProviderReturns, Resolve, NothingReachesDeleted
<1>4. ASSUME NEW r \in Requests, CommitTurn(r) PROVE NothingReachesDeleted
  <2>1. DOMAIN msgs' = DOMAIN msgs
    BY <1>4 DEF CommitTurn
  <2>2. msgs \in Seq(Message) /\ msgs' \in Seq(Message)
    BY NextIInv DEF IInv, TypeOK
  <2>3. Len(msgs') = Len(msgs)
    BY <2>1, <2>2, LenProperties
  <2> QED BY <1>0, <1>4, <2>3 DEF CommitTurn, NothingReachesDeleted
<1>5. ASSUME NEW r \in Requests, Abandon(r) PROVE NothingReachesDeleted
  BY <1>0, <1>5 DEF Abandon, NothingReachesDeleted
<1>6. ASSUME Delete \/ UndoDelete \/ UndoWindowCloses \/ UNCHANGED vars
      PROVE  NothingReachesDeleted
  BY <1>6 DEF Delete, UndoDelete, UndoWindowCloses, vars, NothingReachesDeleted
<1> QED BY <1>1, <1>2, <1>3, <1>4, <1>5, <1>6 DEF Next

(* DeletedIsClosed: no handler, whenever it began, adds to a deleted       *)
(* conversation or takes a turn of it up, and it never returns later.      *)
THEOREM Closes == Spec => DeletedIsClosed
<1>1. Spec => []LockedIsOpen
  BY InitLocked, NextLocked, Invariant, PTL DEF Spec
<1>2. IInv /\ LockedIsOpen /\ [Next]_vars =>
        [(conv = "deleted" \/ conv = "expired") => NothingReachesDeleted]_vars
  BY NextClosed
<1> QED BY <1>1, <1>2, Invariant, PTL DEF Spec, DeletedIsClosed

-----------------------------------------------------------------------------
(* What a step does to the turns, in the terms of TurnLedger. *)

Kept(i) ==
    /\ i \in DOMAIN msgs'
    /\ msgs'[i].cid = msgs[i].cid
    /\ msgs'[i].status = msgs[i].status

QuietStep ==
    /\ \A i \in DOMAIN msgs : Kept(i)
    /\ \A i \in DOMAIN msgs' \ DOMAIN msgs : msgs'[i].cid = NoClient
    /\ \/ Closed' = Closed
       \/ Closed = "no" /\ Closed' = "yes"
       \/ Closed = "yes" /\ Closed' \in {"no", "forever"}

AcceptStep(c) ==
    /\ Closed = "no" /\ Closed' = "no"
    /\ ~Accepted(c)
    /\ \A i \in DOMAIN msgs : Kept(i)
    /\ \A i \in DOMAIN msgs' \ DOMAIN msgs : msgs'[i].cid \in {NoClient, c}
    /\ \E i \in DOMAIN msgs' : msgs'[i].cid = c /\ msgs'[i + 1].status = "pending"

(* The turn answered by message s changes its status from a to b.          *)
StatusStep(s, a, b) ==
    /\ Closed' = Closed
    /\ DOMAIN msgs' = DOMAIN msgs
    /\ s \in DOMAIN msgs
    /\ msgs[s].role = "assistant" /\ msgs[s].status = a
    /\ msgs'[s].cid = NoClient /\ msgs'[s].status = b
    /\ \A i \in DOMAIN msgs : i # s => Kept(i)

LedgerStep ==
    \/ QuietStep
    \/ \E c \in ClientIds : AcceptStep(c)
    \/ \E s \in DOMAIN msgs, b \in {"completed", "failed"} :
          StatusStep(s, "pending", b)
    \/ \E s \in DOMAIN msgs : StatusStep(s, "failed", "pending") /\ Closed = "no"

(* A step that leaves the log alone, and one that appends a turn.          *)
LEMMA SilentLemma ==
    ASSUME UNCHANGED msgs,
           \/ Closed' = Closed
           \/ Closed = "no" /\ Closed' = "yes"
           \/ Closed = "yes" /\ Closed' \in {"no", "forever"}
    PROVE  LedgerStep
BY DEF LedgerStep, QuietStep, Kept

LEMMA AppendQuiet ==
    ASSUME IInv, NEW c \in ClientIds \cup {NoClient},
           NEW reply \in Message, reply.cid = NoClient,
           msgs' = WithTurn(c, reply)
    PROVE  /\ \A i \in DOMAIN msgs : Kept(i)
           /\ \A i \in DOMAIN msgs' \ DOMAIN msgs : msgs'[i].cid \in {NoClient, c}
           /\ \E i \in DOMAIN msgs' : msgs'[i].cid = c /\ msgs'[i + 1] = reply
<1>1. /\ msgs' \in Seq(Message)
      /\ Len(msgs') = Len(msgs) + 2
      /\ \A i \in DOMAIN msgs : msgs'[i] = msgs[i]
      /\ msgs'[Len(msgs) + 1] = UserMessage(c)
      /\ msgs'[Len(msgs) + 2] = reply
  BY WithTurnLemma DEF IInv, TypeOK
<1>2. /\ Len(msgs) \in Nat
      /\ DOMAIN msgs = 1..Len(msgs) /\ DOMAIN msgs' = 1..(Len(msgs) + 2)
  BY <1>1, LenProperties DEF IInv, TypeOK
<1>3. UserMessage(c).cid = c
  BY DEF UserMessage
<1>4. \A i \in DOMAIN msgs' \ DOMAIN msgs : i = Len(msgs) + 1 \/ i = Len(msgs) + 2
  BY <1>2
<1>5. \A i \in DOMAIN msgs : Kept(i)
  BY <1>1, <1>2 DEF Kept
<1>6. Len(msgs) + 1 \in DOMAIN msgs' /\ (Len(msgs) + 1) + 1 = Len(msgs) + 2
  BY <1>2
<1>7. \A i \in DOMAIN msgs' \ DOMAIN msgs : msgs'[i].cid \in {NoClient, c}
  BY <1>1, <1>3, <1>4
<1> QED BY <1>1, <1>3, <1>5, <1>6, <1>7

(* A new search state changes no status and no client id.                  *)
LEMMA SearchStateQuiet ==
    ASSUME msgs \in Seq(Message), NEW s \in DOMAIN msgs, NEW tag,
           msgs' = [msgs EXCEPT ![s].search = tag], Closed' = Closed
    PROVE  QuietStep
<1>1. msgs[s] \in Message
  BY ElementOfSeq, LenProperties
<1>2. DOMAIN msgs' = DOMAIN msgs
  OBVIOUS
<1>3. /\ msgs'[s] = [msgs[s] EXCEPT !.search = tag]
      /\ \A i \in DOMAIN msgs : i # s => msgs'[i] = msgs[i]
  OBVIOUS
<1>4. msgs'[s].cid = msgs[s].cid /\ msgs'[s].status = msgs[s].status
  BY <1>1, <1>3 DEF Message
<1> QED BY <1>2, <1>3, <1>4 DEF QuietStep, Kept

LEMMA NextIsLedgerStep == IInv /\ Next => LedgerStep
<1> SUFFICES ASSUME IInv, Next PROVE LedgerStep
  OBVIOUS
<1>0. /\ msgs \in Seq(Message) /\ conv \in {"absent", "active", "deleted", "expired"}
      /\ \A q \in Requests : RowOK(req[q])
      /\ \A q \in Requests : req[q].seq # 0 => req[q].seq \in DOMAIN msgs
  BY LenProperties DEF IInv, TypeOK, RowsExist, RowOK, Request
<1>1. ASSUME UNCHANGED <<conv, msgs>> PROVE LedgerStep
  BY <1>1, SilentLemma DEF Closed
<1>2. ASSUME NEW r \in Requests, CreateConversation(r) PROVE LedgerStep
  BY <1>2, SilentLemma DEF CreateConversation, Closed
<1>3. ASSUME NEW r \in Requests, NEW c \in ClientIds,
             CreateWithMessage(r, c) \/ Send(r, c)
      PROVE  LedgerStep
  <2>1. msgs' = WithTurn(c, Reply("pending", "none")) /\ Closed = "no" /\ Closed' = "no"
    BY <1>3 DEF CreateWithMessage, Send, StartTurn, Closed
  <2>2. ~Accepted(c)
    <3>1. CASE Send(r, c)
      BY <3>1 DEF Send
    <3>2. CASE CreateWithMessage(r, c)
      BY <3>2, EmptySeq, LenProperties DEF CreateWithMessage, IInv, RowsExist, Accepted
    <3> QED BY <1>3, <3>1, <3>2
  <2>3. LET reply == Reply("pending", "none")
        IN  reply \in Message /\ reply.cid = NoClient /\ reply.status = "pending"
    BY ReplyLemma DEF Statuses, SearchTags
  <2>4. AcceptStep(c)
    BY <2>1, <2>2, <2>3, AppendQuiet DEF AcceptStep
  <2> QED BY <2>4 DEF LedgerStep
<1>4. ASSUME NEW r \in Requests, NEW c \in ClientIds, Retry(r, c) PROVE LedgerStep
  <2>1. PICK i \in DOMAIN msgs :
          /\ i + 1 \in DOMAIN msgs
          /\ msgs[i + 1].role = "assistant" /\ msgs[i + 1].status = "failed"
          /\ DOMAIN msgs' = DOMAIN msgs
          /\ msgs'[i + 1].cid = NoClient /\ msgs'[i + 1].status = "pending"
          /\ \A j \in DOMAIN msgs : j # i + 1 => msgs'[j] = msgs[j]
    BY <1>4, RetryLemma
  <2>2. Closed = "no" /\ Closed' = "no"
    BY <1>4 DEF Retry, Closed
  <2>3. StatusStep(i + 1, "failed", "pending")
    BY <2>1, <2>2 DEF StatusStep, Kept
  <2> QED BY <2>1, <2>2, <2>3 DEF LedgerStep
<1>5. ASSUME NEW r \in Requests, CommitTurn(r) PROVE LedgerStep
  <2> DEFINE s == req[r].seq
  <2>1. /\ s \in DOMAIN msgs /\ Pending(s)
        /\ DOMAIN msgs' = DOMAIN msgs
        /\ msgs'[s].cid = NoClient
        /\ msgs'[s].status \in {"completed", "failed"}
        /\ \A i \in DOMAIN msgs : i # s => msgs'[i] = msgs[i]
    BY <1>5, CommitTurnLemma
  <2>2. Closed' = Closed
    BY <1>5 DEF CommitTurn, Closed
  <2>3. StatusStep(s, "pending", msgs'[s].status)
    BY <2>1, <2>2 DEF StatusStep, Kept, Pending
  <2> QED BY <2>1, <2>3 DEF LedgerStep
<1>6. ASSUME Delete \/ UndoDelete \/ UndoWindowCloses PROVE LedgerStep
  BY <1>6, SilentLemma DEF Delete, UndoDelete, UndoWindowCloses, Closed
<1>7. ASSUME NEW r \in Requests, NEW tag \in SearchTags,
             msgs' = WithTurn(NoClient, Reply("completed", tag)), Closed' = Closed
      PROVE  LedgerStep
  <2>1. Reply("completed", tag) \in Message /\ Reply("completed", tag).cid = NoClient
    BY ReplyLemma DEF Statuses
  <2>2. QuietStep
    BY <1>7, <2>1, AppendQuiet DEF QuietStep
  <2> QED BY <2>2 DEF LedgerStep
<1>8. ASSUME NEW r \in Requests, NEW tag \in SearchTags, SubmitWithoutWorker(r, tag)
      PROVE  LedgerStep
  <2>1. Closed' = Closed
    BY <1>8 DEF SubmitWithoutWorker, Submittable, Closed
  <2> QED BY <1>7, <1>8, <2>1 DEF SubmitWithoutWorker
<1>9. ASSUME NEW r \in Requests, NEW tag \in SearchTags,
             RetryWithoutWorker(r, tag) \/ SubmitCommit(r, tag)
      PROVE  LedgerStep
  <2>1. Closed' = Closed
    BY <1>9 DEF RetryWithoutWorker, SubmitCommit, Closed
  <2>2. CASE msgs' = [msgs EXCEPT ![req[r].seq].search = tag] /\ req[r].seq # 0
    BY <1>0, <2>1, <2>2, SearchStateQuiet DEF LedgerStep
  <2>3. CASE msgs' = WithTurn(NoClient, Reply("completed", tag))
    BY <1>7, <2>1, <2>3
  <2> QED BY <1>0, <1>9, <2>2, <2>3 DEF RetryWithoutWorker, SubmitCommit, RowOK
<1>10. ASSUME NEW r \in Requests,
              \/ SubmitSearch(r) \/ \E s \in DOMAIN msgs : SubmitRetry(r, s)
              \/ ProviderReturns(r) \/ SubmitRollback(r) \/ RetryRefused(r)
              \/ RetrySearch(r) \/ DeadlockDetected(r) \/ Abandon(r)
       PROVE  LedgerStep
  BY <1>1, <1>10
  DEF SubmitSearch, SubmitRetry, ProviderReturns, Resolve, SubmitRollback, RetryRefused,
      RetrySearch, DeadlockDetected, DeadlockVictim, Abandon
<1> QED
  BY <1>2, <1>3, <1>4, <1>5, <1>6, <1>8, <1>9, <1>10
  DEF Next, ClientStep, WorkerReturns, RetryLocked

LEMMA NextFinal ==
    ASSUME IInv, [Next]_vars
    PROVE  \A i \in DOMAIN msgs :
             /\ i \in DOMAIN msgs'
             /\ msgs'[i].cid = msgs[i].cid
             /\ msgs[i].status = "completed" => msgs'[i].status = "completed"
<1>1. CASE UNCHANGED vars
  BY <1>1 DEF vars
<1>2. CASE Next
  <2>1. LedgerStep
    BY <1>2, NextIsLedgerStep
  <2>2. \A s \in DOMAIN msgs : msgs[s].role = "assistant" => msgs[s].cid = NoClient
    BY DEF IInv, TurnsArePaired
  <2> QED BY <2>1, <2>2 DEF LedgerStep, QuietStep, AcceptStep, StatusStep, Kept
<1> QED BY <1>1, <1>2

(* HistoryIsFinal: the log only grows and what is completed stays so.      *)
THEOREM History == Spec => HistoryIsFinal
<1>1. IInv /\ [Next]_vars =>
        [\A i \in DOMAIN msgs :
           /\ i \in DOMAIN msgs'
           /\ msgs'[i].cid = msgs[i].cid
           /\ msgs[i].status = "completed" => msgs'[i].status = "completed"]_vars
  BY NextFinal
<1> QED BY <1>1, Invariant, PTL DEF Spec, HistoryIsFinal

-----------------------------------------------------------------------------
(* The turn of a client message, wherever CHOOSE would look for it.        *)
LEMMA TurnOfLemma ==
    ASSUME IInv, NEW c \in ClientIds, NEW i \in DOMAIN msgs, msgs[i].cid = c
    PROVE  TurnOf(c) = msgs[i + 1].status /\ i + 1 \in DOMAIN msgs
<1>1. c # NoClient
  BY NoClientAssumption
<1>2. (CHOOSE j \in DOMAIN msgs : msgs[j].cid = c) = i
  BY <1>1 DEF IInv, UniqueClientMessages
<1>3. /\ i % 2 = 1
      /\ Len(msgs) % 2 = 0
      /\ Len(msgs) \in Nat /\ DOMAIN msgs = 1..Len(msgs)
  BY <1>1, LenProperties DEF IInv, TypeOK, TurnsArePaired
<1>4. i + 1 \in DOMAIN msgs
  BY <1>3
<1> QED BY <1>2, <1>4 DEF TurnOf, Accepted

LEMMA TurnOfPrimed ==
    ASSUME IInv', NEW c \in ClientIds, NEW i \in DOMAIN msgs', msgs'[i].cid = c
    PROVE  TurnOf(c)' = msgs'[i + 1].status /\ i + 1 \in DOMAIN msgs'
<1>1. c # NoClient
  BY NoClientAssumption
<1>2. (CHOOSE j \in DOMAIN msgs' : msgs'[j].cid = c) = i
  BY <1>1 DEF IInv, UniqueClientMessages
<1>3. /\ i % 2 = 1
      /\ Len(msgs') % 2 = 0
      /\ Len(msgs') \in Nat /\ DOMAIN msgs' = 1..Len(msgs')
  BY <1>1, LenProperties DEF IInv, TypeOK, TurnsArePaired
<1>4. i + 1 \in DOMAIN msgs'
  BY <1>3
<1> QED BY <1>2, <1>4 DEF TurnOf, Accepted

(* A turn whose messages keep their status is where it was.                *)
LEMMA TurnKept ==
    ASSUME IInv, IInv', NEW c \in ClientIds,
           \A i \in DOMAIN msgs : i \in DOMAIN msgs' /\ msgs'[i].cid = msgs[i].cid,
           \A i \in DOMAIN msgs' \ DOMAIN msgs : msgs'[i].cid # c,
           \A i \in DOMAIN msgs : msgs[i].cid = c /\ i + 1 \in DOMAIN msgs =>
              msgs'[i + 1].status = msgs[i + 1].status
    PROVE  TurnOf(c)' = TurnOf(c)
<1>1. CASE Accepted(c)
  <2>1. PICK i \in DOMAIN msgs : msgs[i].cid = c
    BY <1>1 DEF Accepted
  <2>2. TurnOf(c) = msgs[i + 1].status /\ i + 1 \in DOMAIN msgs
    BY <2>1, TurnOfLemma
  <2>3. TurnOf(c)' = msgs'[i + 1].status
    BY <2>1, TurnOfPrimed
  <2> QED BY <2>1, <2>2, <2>3
<1>2. CASE ~Accepted(c)
  BY <1>2 DEF Accepted, TurnOf
<1> QED BY <1>1, <1>2

(* A message whose status changes is the reply to at most one client       *)
(* message; that turn changes, or (a /turns message) none does.            *)
LEMMA StatusStepTurn ==
    ASSUME IInv, IInv', NEW s \in DOMAIN msgs, NEW a, NEW b, StatusStep(s, a, b)
    PROVE  \/ \A c \in ClientIds : TurnOf(c)' = TurnOf(c)
           \/ \E c \in ClientIds :
                 /\ TurnOf(c) = a /\ TurnOf(c)' = b
                 /\ \A d \in ClientIds : d # c => TurnOf(d)' = TurnOf(d)
<1>0. /\ DOMAIN msgs = 1..Len(msgs) /\ DOMAIN msgs' = DOMAIN msgs
      /\ s \in Nat /\ s % 2 # 1
      /\ s - 1 \in DOMAIN msgs /\ s - 1 # s /\ (s - 1) + 1 = s
  <2>1. DOMAIN msgs = 1..Len(msgs) /\ Len(msgs) \in Nat
    BY LenProperties DEF IInv, TypeOK
  <2>2. s % 2 # 1
    BY DEF StatusStep, IInv, TurnsArePaired
  <2>3. s \in Nat /\ s # 1 /\ s # 0
    BY <2>1, <2>2
  <2> QED BY <2>1, <2>2, <2>3 DEF StatusStep
<1>1. \A i \in DOMAIN msgs : i \in DOMAIN msgs' /\ msgs'[i].cid = msgs[i].cid
  <2>1. msgs[s].cid = NoClient
    BY <1>0 DEF StatusStep, IInv, TurnsArePaired
  <2> QED BY <2>1, <1>0 DEF StatusStep, Kept
<1>2. ASSUME NEW d \in ClientIds, msgs[s - 1].cid # d
      PROVE  TurnOf(d)' = TurnOf(d)
  <2>1. ASSUME NEW i \in DOMAIN msgs, msgs[i].cid = d, i + 1 \in DOMAIN msgs
        PROVE  msgs'[i + 1].status = msgs[i + 1].status
    <3>1. i + 1 # s
      BY <1>0, <1>2, <2>1
    <3> QED BY <2>1, <3>1 DEF StatusStep, Kept
  <2> QED BY <1>0, <1>1, <2>1, TurnKept
<1>3. CASE msgs[s - 1].cid \in ClientIds
  <2>1. PICK c \in ClientIds : msgs[s - 1].cid = c
    BY <1>3
  <2>2. TurnOf(c) = msgs[(s - 1) + 1].status
    BY <1>0, <2>1, TurnOfLemma
  <2>3. msgs'[s - 1].cid = c /\ s - 1 \in DOMAIN msgs'
    BY <1>0, <1>1, <2>1
  <2>4. TurnOf(c)' = msgs'[(s - 1) + 1].status
    BY <2>3, TurnOfPrimed
  <2>5. TurnOf(c) = a /\ TurnOf(c)' = b
    BY <1>0, <2>2, <2>4 DEF StatusStep
  <2> QED BY <1>2, <2>1, <2>5
<1>4. CASE msgs[s - 1].cid \notin ClientIds
  BY <1>2, <1>4
<1> QED BY <1>3, <1>4

LEMMA InitLedger == Init => Ledger!Init
<1> SUFFICES ASSUME Init PROVE Ledger!Init
  OBVIOUS
<1>1. DOMAIN msgs = {}
  BY EmptySeq, LenProperties DEF Init
<1>2. \A c \in ClientIds : TurnOf(c) = "none"
  BY <1>1 DEF TurnOf, Accepted
<1> QED BY <1>2 DEF Init, Ledger!Init, Closed

LEMMA NextLedger ==
    IInv /\ IInv' /\ [Next]_vars =>
        [Ledger!Next]_<<[c \in ClientIds |-> TurnOf(c)], Closed>>
<1> DEFINE turn == [c \in ClientIds |-> TurnOf(c)]
<1> SUFFICES ASSUME IInv, IInv', [Next]_vars
             PROVE  Ledger!Next \/ (turn' = turn /\ Closed' = Closed)
  OBVIOUS
<1>1. CASE UNCHANGED vars
  BY <1>1 DEF vars, TurnOf, Accepted, Closed
<1>2. CASE QuietStep
  <2>1. \A c \in ClientIds : TurnOf(c)' = TurnOf(c)
    <3> SUFFICES ASSUME NEW c \in ClientIds PROVE TurnOf(c)' = TurnOf(c)
      OBVIOUS
    <3>1. \A i \in DOMAIN msgs' \ DOMAIN msgs : msgs'[i].cid # c
      BY <1>2, NoClientAssumption DEF QuietStep
    <3> QED BY <1>2, <3>1, TurnKept DEF QuietStep, Kept
  <2>2. turn' = turn
    BY <2>1
  <2> QED BY <1>2, <2>2 DEF QuietStep, Ledger!Next, Ledger!Close, Ledger!Reopen, Ledger!Seal
<1>3. ASSUME NEW c \in ClientIds, AcceptStep(c) PROVE Ledger!Next
  <2>1. TurnOf(c) = "none"
    BY <1>3 DEF AcceptStep, TurnOf
  <2>2. TurnOf(c)' = "pending"
    BY <1>3, TurnOfPrimed DEF AcceptStep
  <2>3. ASSUME NEW d \in ClientIds, d # c PROVE TurnOf(d)' = TurnOf(d)
    <3>1. \A i \in DOMAIN msgs' \ DOMAIN msgs : msgs'[i].cid # d
      BY <1>3, <2>3, NoClientAssumption DEF AcceptStep
    <3> QED BY <1>3, <3>1, TurnKept DEF AcceptStep, Kept
  <2>4. turn' = [turn EXCEPT ![c] = "pending"]
    BY <2>2, <2>3
  <2>5. Ledger!Accept(c)
    BY <1>3, <2>1, <2>4 DEF Ledger!Accept, AcceptStep
  <2> QED BY <2>5 DEF Ledger!Next
<1>4. ASSUME NEW s \in DOMAIN msgs, NEW b \in {"completed", "failed"},
             StatusStep(s, "pending", b)
      PROVE  Ledger!Next \/ (turn' = turn /\ Closed' = Closed)
  <2>1. Closed' = Closed
    BY <1>4 DEF StatusStep
  <2>2. CASE \A c \in ClientIds : TurnOf(c)' = TurnOf(c)
    BY <2>1, <2>2
  <2>3. ASSUME NEW c \in ClientIds, TurnOf(c) = "pending", TurnOf(c)' = b,
               \A d \in ClientIds : d # c => TurnOf(d)' = TurnOf(d)
        PROVE  Ledger!Next
    <3>1. turn' = [turn EXCEPT ![c] = b]
      BY <2>3
    <3>2. Ledger!Settle(c, b)
      BY <2>1, <2>3, <3>1 DEF Ledger!Settle
    <3> QED BY <3>2 DEF Ledger!Next
  <2> QED BY <1>4, <2>2, <2>3, StatusStepTurn
<1>5. ASSUME NEW s \in DOMAIN msgs, StatusStep(s, "failed", "pending"), Closed = "no"
      PROVE  Ledger!Next \/ (turn' = turn /\ Closed' = Closed)
  <2>1. Closed' = Closed
    BY <1>5 DEF StatusStep
  <2>2. CASE \A c \in ClientIds : TurnOf(c)' = TurnOf(c)
    BY <2>1, <2>2
  <2>3. ASSUME NEW c \in ClientIds, TurnOf(c) = "failed", TurnOf(c)' = "pending",
               \A d \in ClientIds : d # c => TurnOf(d)' = TurnOf(d)
        PROVE  Ledger!Next
    <3>1. turn' = [turn EXCEPT ![c] = "pending"]
      BY <2>3
    <3>2. Ledger!TakeUp(c)
      BY <1>5, <2>1, <2>3, <3>1 DEF Ledger!TakeUp
    <3> QED BY <3>2 DEF Ledger!Next
  <2> QED BY <1>5, <2>2, <2>3, StatusStepTurn
<1> QED BY <1>1, <1>2, <1>3, <1>4, <1>5, NextIsLedgerStep DEF LedgerStep

(* ImplementsLedger: the handlers, row locks and two services together     *)
(* keep TurnLedger's promise for every client message.                     *)
THEOREM Refinement == Spec => ImplementsLedger
BY InitLedger, NextLedger, Invariant, PTL DEF Spec, ImplementsLedger, Ledger!Spec

=============================================================================
