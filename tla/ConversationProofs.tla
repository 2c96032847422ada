------------------------- MODULE ConversationProofs -------------------------
(***************************************************************************)
(* Proofs about the two pages of Frontend that show conversations, the     *)
(* search session and the chat workspace, for every value of the           *)
(* constants.                                                              *)
(***************************************************************************)
EXTENDS Frontend, FiniteSetTheorems, WellFoundedInduction, TLAPS

-----------------------------------------------------------------------------
(* Sets of numbers, and sets of one element. *)

LEMMA Least == ASSUME NEW S \in SUBSET Nat, S # {} PROVE \E c \in S : \A d \in S : c <= d
<1> DEFINE Less == {ss \in Nat \X Nat : ss[1] < ss[2]}
<1>1. IsWellFoundedOn(OpToRel(<, Nat), Nat)
    BY NatLessThanWellFounded
<1>2. OpToRel(<, Nat) = Less
    BY DEF OpToRel
<1>3. PICK c \in S : \A d \in S : <<d, c>> \notin Less
  <2> HIDE DEF Less
  <2> QED
      BY <1>1, <1>2, WFMin
<1>4. \A x, y \in Nat : x < y => <<x, y>> \in Less
    OBVIOUS
<1>5. ASSUME NEW d \in S PROVE c <= d
  <2>1. ~(d < c)
      BY <1>3, <1>4
  <2> QED
      BY <2>1
<1> QED
    BY <1>5

LEMMA AtMostOne == ASSUME NEW S, \A s, r \in S : s = r PROVE Cardinality(S) <= 1
<1>1. CASE S = {}
    BY <1>1, FS_EmptySet
<1>2. CASE S # {}
  <2>1. PICK s \in S : S = {s}
      BY <1>2
  <2> QED
      BY <2>1, FS_Singleton
<1> QED
    BY <1>1, <1>2

-----------------------------------------------------------------------------
(* The search session (ChatSession): one request is under way at a time;   *)
(* what it carries is stored nowhere before the server accepts it, and     *)
(* what a draft holds is stored nowhere unless its answer was lost.        *)
(* The part's variables, by their names there.                             *)

model == v1
context == v2
rows == v4
request == v5
drafts == v6        \* typed
sent == v7
asked == v9
unheard == v10
USE DEF model, context, rows, request, drafts, sent, asked, unheard

SearchTurn == [side : {"user", "assistant"}, id : {"local", "stored"} \X Nat, text : Nat, mode : CS!Modes,
               state : CS!States]
Model == [turns : Seq(SearchTurn), draft : Nat, mode : CS!Modes, pending : BOOLEAN]
Row == [text : Nat, state : CS!States]
Request == [at : {"idle", "sent", "answered"}, text : Nat, mode : CS!Modes,
            of : {"none", "local", "stored"} \X Nat, slot : Nat, ok : BOOLEAN, id : Nat, state : CS!States]

SearchShapes ==
    /\ model \in Model /\ rows \in Seq(Row) /\ asked \in Seq(Nat) /\ request \in [Procs -> Request]
    /\ context \subseteq [id : {"local", "stored"} \X Nat, text : Nat, mode : CS!Modes]
    /\ drafts \in Nat /\ sent \in Nat /\ Len(asked) = sent /\ unheard \subseteq DOMAIN rows

\* At most one request is under way, and the page knows.
OneRequest ==
    /\ \A r \in Procs : request[r].at # "idle" => model.pending
    /\ \A r, s \in Procs : request[r].at # "idle" /\ request[s].at # "idle" => r = s

\* Rows and submissions: which text is which.
Submissions ==
    /\ \A i \in DOMAIN rows : rows[i].text \in 1..sent /\ asked[rows[i].text] # 0
    /\ \A i, j \in DOMAIN rows : rows[i].text = rows[j].text => i = j
    /\ \A n \in DOMAIN asked : asked[n] <= drafts
    /\ model.draft <= drafts

\* A text that may be sent again: its rows are those that were never heard of.
SentAgain(draft, but) == \A i \in DOMAIN rows : asked[rows[i].text] = draft => i \in unheard \/ i \in but
StoredApart ==
    /\ model.draft # 0 => SentAgain(model.draft, {})
    /\ \A i, j \in DOMAIN rows : asked[rows[i].text] = asked[rows[j].text] => i = j \/ unheard \cap {i, j} # {}

IsReply(turn) == turn.side = "assistant" /\ turn.id[1] = "stored"
Answered(q) == q.at = "answered" /\ q.ok
\* What a request asks: a new turn, the page's last, or another try of a reply.
AsksNew(q) ==
    /\ q.of[1] = "none" /\ q.text \in 1..sent /\ asked[q.text] # 0 /\ asked[q.text] # model.draft
    /\ q.at = "sent" => \A i \in DOMAIN rows : rows[i].text # q.text
    /\ Answered(q) => /\ q.id \in DOMAIN rows /\ rows[q.id].text = q.text /\ rows[q.id].state = q.state
                      /\ \A k \in DOMAIN model.turns : IsReply(model.turns[k]) => model.turns[k].id[2] # q.id
    /\ SentAgain(asked[q.text], IF Answered(q) THEN {q.id} ELSE {})
    /\ Len(model.turns) > 0 /\ model.turns[Len(model.turns)].side = "user"
    /\ model.turns[Len(model.turns)].text = q.text
AsksAgain(q) ==
    /\ q.slot \in DOMAIN model.turns /\ model.turns[q.slot].side = "assistant" /\ model.turns[q.slot].id = q.of
    /\ model.turns[q.slot].state = "retryable"
    /\ Answered(q) => q.of[1] = "stored" /\ q.id = q.of[2] /\ rows[q.id].state = q.state
RequestSound(q) == q.at # "idle" => IF q.slot = 0 THEN AsksNew(q) ELSE AsksAgain(q)

\* A reply below its prompt; in the stored state, or one is on the way for it.
ReplySound(i) ==
    LET id == model.turns[i].id[2] IN
    /\ i > 1 /\ id \in DOMAIN rows
    /\ model.turns[i - 1].side = "user" /\ model.turns[i - 1].text = rows[id].text
    /\ \/ id \in unheard \/ model.turns[i].state = rows[id].state
       \/ \E r \in Procs : Answered(request[r]) /\ request[r].slot = i
RepliesSound ==
    /\ \A i \in DOMAIN model.turns : IsReply(model.turns[i]) => ReplySound(i)
    /\ \A i, j \in DOMAIN model.turns :
          IsReply(model.turns[i]) /\ IsReply(model.turns[j]) /\ model.turns[i].id = model.turns[j].id => i = j

SearchInv ==
    /\ SearchShapes /\ OneRequest /\ Submissions /\ StoredApart /\ RepliesSound
    /\ \A r \in Procs : RequestSound(request[r])

LEMMA NoRequestIs ==
    /\ CS!NoRequest \in Request /\ CS!NoRequest.at = "idle" /\ CS!NoRequest.slot = 0
    /\ CS!NoRequest.of = <<"none", 0>> /\ CS!NoRequest.ok = FALSE
BY DEF CS!NoRequest, Request, CS!Modes, CS!States

LEMMA SearchInit == ASSUME CS!Init PROVE SearchInv
<1>1. request = [r \in Procs |-> CS!NoRequest] BY DEF CS!Init
<1>2. \A r \in Procs : request[r] = CS!NoRequest BY <1>1
<1>3. model \in Model /\ model.turns = <<>> /\ model.draft = 0 BY DEF CS!Init, Model, CS!Modes
<1>4. rows = <<>> /\ asked = <<>> /\ context = {} /\ unheard = {} /\ drafts = 0 /\ sent = 0 BY DEF CS!Init
<1>5. SearchShapes BY <1>1, <1>3, <1>4, NoRequestIs DEF SearchShapes
<1> QED BY <1>2, <1>3, <1>4, <1>5, NoRequestIs
           DEF SearchInv, OneRequest, Submissions, StoredApart, RepliesSound, RequestSound

\* One that is put at the end, the last one taken away, one replaced.
LEMMA AppendOne ==
    ASSUME NEW S, NEW s \in Seq(S), NEW e \in S
    PROVE  /\ Append(s, e) \in Seq(S) /\ Len(Append(s, e)) = Len(s) + 1 /\ Len(s) \in Nat
           /\ DOMAIN s = 1..Len(s) /\ DOMAIN Append(s, e) = 1..(Len(s) + 1)
           /\ Append(s, e)[Len(s) + 1] = e /\ \A i \in 1..Len(s) : Append(s, e)[i] = s[i]
OBVIOUS

LEMMA DropLast ==
    ASSUME NEW S, NEW s \in Seq(S), Len(s) > 0
    PROVE  /\ SubSeq(s, 1, Len(s) - 1) \in Seq(S) /\ DOMAIN s = 1..Len(s)
           /\ DOMAIN SubSeq(s, 1, Len(s) - 1) = 1..(Len(s) - 1) /\ Len(s) \in Nat
           /\ \A i \in 1..(Len(s) - 1) : SubSeq(s, 1, Len(s) - 1)[i] = s[i]
OBVIOUS

LEMMA ReplaceOne ==
    ASSUME NEW S, NEW s \in Seq(S), NEW i \in DOMAIN s, NEW e \in S
    PROVE  /\ [s EXCEPT ![i] = e] \in Seq(S) /\ DOMAIN [s EXCEPT ![i] = e] = DOMAIN s
           /\ [s EXCEPT ![i] = e][i] = e /\ \A j \in DOMAIN s : j # i => [s EXCEPT ![i] = e][j] = s[j]
           /\ Len([s EXCEPT ![i] = e]) = Len(s) /\ DOMAIN s = 1..Len(s) /\ Len(s) \in Nat
OBVIOUS

\* The composer changes the draft alone.
LEMMA Composes ==
    ASSUME SearchInv, model' \in Model, model'.turns = model.turns, model'.pending = model.pending,
           drafts' \in Nat, drafts <= drafts', model'.draft = model.draft \/ (model'.draft = drafts' /\ drafts < drafts'),
           UNCHANGED <<context, rows, request, sent, asked, unheard>>
    PROVE  SearchInv'
<1>1. SearchShapes' BY DEF SearchInv, SearchShapes
<1>2. OneRequest' BY DEF SearchInv, OneRequest
<1>3. /\ \A n \in DOMAIN asked : asked[n] \in Nat /\ asked[n] <= drafts
      /\ DOMAIN asked = 1..sent /\ model.draft \in Nat /\ drafts \in Nat /\ model'.draft \in Nat
    BY DEF SearchInv, SearchShapes, Submissions, Model
<1>4. Submissions'
  <2>1. \A n \in DOMAIN asked' : asked'[n] <= drafts' BY <1>3
  <2>2. model'.draft <= drafts' BY <1>3 DEF SearchInv, Submissions
  <2> QED BY <2>1, <2>2 DEF SearchInv, Submissions
<1>5. StoredApart'
  <2>1. ASSUME model'.draft = drafts', drafts < drafts', NEW i \in DOMAIN rows, asked[rows[i].text] = model'.draft
        PROVE  FALSE
    <3>1. rows[i].text \in 1..sent BY DEF SearchInv, Submissions
    <3> QED BY <1>3, <2>1, <3>1
  <2> QED BY <2>1 DEF SearchInv, StoredApart, SentAgain
<1>6. RepliesSound' BY DEF SearchInv, RepliesSound, ReplySound
<1>7. ASSUME NEW r \in Procs PROVE RequestSound(request[r])'
  <2>1. ASSUME NEW n \in 1..sent, asked[n] # model.draft PROVE asked[n] # model'.draft
      BY <1>3, <2>1
  <2>2. AsksNew(request[r]) => AsksNew(request[r])' BY <2>1 DEF AsksNew, SentAgain
  <2>3. AsksAgain(request[r]) => AsksAgain(request[r])' BY DEF AsksAgain
  <2> QED BY <2>2, <2>3 DEF SearchInv, RequestSound
<1> QED BY <1>1, <1>2, <1>4, <1>5, <1>6, <1>7 DEF SearchInv

LEMMA ComposerSteps ==
    ASSUME SearchInv, CS!SetDraft \/ CS!PrefillSuggestion \/ \E way \in CS!Modes : CS!SetMode(way)
    PROVE  SearchInv'
<1>1. model \in Model /\ drafts \in Nat BY DEF SearchInv, SearchShapes
<1>2. CASE CS!SetDraft
  <2>1. model' = [model EXCEPT !.draft = drafts + 1] /\ drafts' = drafts + 1 BY <1>2 DEF CS!SetDraft
  <2>2. model' \in Model /\ model'.turns = model.turns /\ model'.pending = model.pending /\ model'.draft = drafts'
      BY <1>1, <2>1 DEF Model
  <2> QED BY <1>1, <1>2, <2>1, <2>2, Composes DEF CS!SetDraft
<1>3. CASE CS!PrefillSuggestion
  <2>1. model' = [model EXCEPT !.mode = "search", !.draft = drafts + 1] /\ drafts' = drafts + 1
      BY <1>3 DEF CS!PrefillSuggestion
  <2>2. model' \in Model /\ model'.turns = model.turns /\ model'.pending = model.pending /\ model'.draft = drafts'
    <3>1. drafts + 1 \in Nat /\ "search" \in CS!Modes BY <1>1 DEF CS!Modes
    <3> DEFINE m2 == model'
               d == drafts + 1
    <3>2. m2 = [model EXCEPT !.mode = "search", !.draft = d] /\ d \in Nat BY <2>1, <3>1
    <3> HIDE DEF m2, d
    <3>3. m2 \in Model /\ m2.turns = model.turns /\ m2.draft = d /\ m2.pending = model.pending
      <4>1. m2.turns = model.turns BY <1>1, <3>1, <3>2 DEF Model
      <4>2. m2.draft = d BY <1>1, <3>1, <3>2 DEF Model
      <4>3. m2.pending = model.pending BY <1>1, <3>1, <3>2 DEF Model
      <4>4. m2 \in Model BY <1>1, <3>1, <3>2 DEF Model
      <4> QED BY <4>1, <4>2, <4>3, <4>4
    <3> QED BY <2>1, <3>3 DEF m2, d
  <2> QED BY <1>1, <1>3, <2>1, <2>2, Composes DEF CS!PrefillSuggestion
<1>4. ASSUME NEW way \in CS!Modes, CS!SetMode(way) PROVE SearchInv'
  <2>1. model' = model \/ model' = [model EXCEPT !.mode = way] BY <1>4 DEF CS!SetMode
  <2>2. /\ model' \in Model /\ model'.turns = model.turns /\ model'.pending = model.pending
        /\ model'.draft = model.draft
      BY <1>1, <2>1 DEF Model
  <2>3. drafts' = drafts BY <1>4 DEF CS!SetMode
  <2> QED BY <1>1, <1>4, <2>2, <2>3, Composes DEF CS!SetMode
<1> QED BY <1>2, <1>3, <1>4

-----------------------------------------------------------------------------
(* A request is sent. *)

\* While none is under way, every reply is shown as it is stored.
LEMMA NoneUnderWay ==
    ASSUME SearchInv, ~model.pending
    PROVE  /\ \A r \in Procs : request[r].at = "idle"
           /\ \A i \in DOMAIN model.turns : IsReply(model.turns[i]) =>
                 \/ model.turns[i].id[2] \in unheard
                 \/ model.turns[i].state = rows[model.turns[i].id[2]].state
<1>1. \A r \in Procs : request[r].at = "idle" BY DEF SearchInv, OneRequest
<1> QED BY <1>1 DEF SearchInv, RepliesSound, ReplySound, Answered

\* The only one under way.
LEMMA NewRequest ==
    ASSUME SearchInv, ~model.pending, model'.pending, NEW r \in Procs, NEW q \in Request,
           request' = [request EXCEPT ![r] = q]
    PROVE  /\ OneRequest' /\ request' \in [Procs -> Request] /\ request'[r] = q
           /\ \A s \in Procs : s # r => request'[s] = request[s] /\ request'[s].at = "idle"
<1>1. /\ request' \in [Procs -> Request] /\ request'[r] = q
      /\ \A s \in Procs : s # r => request'[s] = request[s]
    BY DEF SearchInv, SearchShapes
<1>2. \A s \in Procs : request[s].at = "idle" BY NoneUnderWay
<1> QED BY <1>1, <1>2 DEF OneRequest

LEMMA SubmitStep == ASSUME SearchInv, NEW r \in Procs, CS!SubmitTurn(r) PROVE SearchInv'
<1> DEFINE u == CS!UserTurn(sent + 1, model.mode, sent + 1)
           q == [CS!NoRequest EXCEPT !.at = "sent", !.text = sent + 1, !.mode = model.mode]
           m2 == model'
<1>1. /\ model \in Model /\ rows \in Seq(Row) /\ asked \in Seq(Nat) /\ sent \in Nat /\ Len(asked) = sent
      /\ model.turns \in Seq(SearchTurn) /\ model.mode \in CS!Modes /\ model.draft \in Nat
      /\ request \in [Procs -> Request] /\ drafts \in Nat
    BY DEF SearchInv, SearchShapes, Model
<1>2. /\ model.draft # 0 /\ ~model.pending /\ sent' = sent + 1 /\ asked' = Append(asked, model.draft)
      /\ request' = [request EXCEPT ![r] = q] /\ UNCHANGED <<context, rows, drafts, unheard>>
      /\ m2 = [model EXCEPT !.turns = Append(model.turns, u), !.draft = 0, !.pending = TRUE]
    BY DEF CS!SubmitTurn, CS!MaySubmit
<1>3. u \in SearchTurn /\ u.side = "user" /\ u.text = sent + 1
    BY <1>1 DEF CS!UserTurn, SearchTurn, CS!Local, CS!States
<1>4. q \in Request /\ q.at = "sent" /\ q.text = sent + 1 /\ q.slot = 0 /\ q.of[1] = "none" /\ ~q.ok
  <2> DEFINE n == sent + 1
             way == model.mode
             q2 == [CS!NoRequest EXCEPT !.at = "sent", !.text = n, !.mode = way]
  <2>1. n \in Nat /\ way \in CS!Modes /\ q = q2 BY <1>1
  <2> HIDE DEF n, way, q
  <2>2. q2.at = "sent" /\ q2.text = n /\ q2.slot = 0 /\ q2.of = <<"none", 0>> /\ ~q2.ok BY DEF CS!NoRequest
  <2>3. q2 \in Request BY <2>1, NoRequestIs DEF Request
  <2> HIDE DEF q2
  <2>4. q \in Request /\ q.at = "sent" /\ q.text = n /\ q.slot = 0 /\ q.of[1] = "none" /\ ~q.ok
      BY <2>1, <2>2, <2>3
  <2> QED BY <2>4 DEF n
<1> DEFINE t == Append(model.turns, u)
<1>5. /\ t \in Seq(SearchTurn) /\ Len(t) = Len(model.turns) + 1 /\ Len(model.turns) \in Nat
      /\ DOMAIN model.turns = 1..Len(model.turns) /\ DOMAIN t = 1..(Len(model.turns) + 1)
      /\ t[Len(model.turns) + 1] = u /\ \A i \in 1..Len(model.turns) : t[i] = model.turns[i]
    BY <1>1, <1>3, AppendOne
<1>6. /\ asked' \in Seq(Nat) /\ Len(asked') = sent + 1 /\ DOMAIN asked = 1..sent /\ DOMAIN asked' = 1..(sent + 1)
      /\ asked'[sent + 1] = model.draft /\ \A n \in 1..sent : asked'[n] = asked[n]
    BY <1>1, <1>2, AppendOne
<1>7. m2 \in Model /\ m2.turns = t /\ m2.draft = 0 /\ m2.pending
  <2>1. m2.turns = t BY <1>1, <1>2, <1>5 DEF Model
  <2>2. m2.draft = 0 BY <1>1, <1>2, <1>5 DEF Model
  <2>3. m2.pending BY <1>1, <1>2, <1>5 DEF Model
  <2>4. m2 \in Model BY <1>1, <1>2, <1>5 DEF Model
  <2> QED BY <2>1, <2>2, <2>3, <2>4
<1> HIDE DEF u, q, t
<1>8. /\ OneRequest' /\ request' \in [Procs -> Request] /\ request'[r] = q
      /\ \A s \in Procs : s # r => request'[s] = request[s] /\ request'[s].at = "idle"
    BY <1>2, <1>4, <1>7, NewRequest
<1>9. SearchShapes' BY <1>1, <1>2, <1>6, <1>7, <1>8 DEF SearchInv, SearchShapes
<1>10. \A i \in DOMAIN rows : rows[i].text \in 1..sent /\ asked'[rows[i].text] = asked[rows[i].text]
    BY <1>6 DEF SearchInv, Submissions
<1>11. Submissions'
  <2>1. \A n \in DOMAIN asked' : asked'[n] <= drafts
      BY <1>1, <1>6 DEF SearchInv, Submissions
  <2>2. \A i \in DOMAIN rows : rows[i].text \in 1..(sent + 1) /\ asked'[rows[i].text] # 0
      BY <1>1, <1>10 DEF SearchInv, Submissions
  <2> QED BY <1>1, <1>2, <1>7, <2>1, <2>2 DEF SearchInv, Submissions
<1>12. StoredApart'
  <2>1. model'.draft = 0 BY <1>7
  <2>2. ASSUME NEW i \in DOMAIN rows, NEW j \in DOMAIN rows, asked'[rows[i].text] = asked'[rows[j].text]
        PROVE  i = j \/ unheard \cap {i, j} # {}
      BY <1>10, <2>2 DEF SearchInv, StoredApart
  <2> QED BY ZenonT(40), <1>2, <2>1, <2>2 DEF StoredApart
<1>13. RepliesSound'
  <2>1. \A i \in DOMAIN t : IsReply(t[i]) => i \in DOMAIN model.turns /\ t[i] = model.turns[i]
      BY <1>3, <1>5 DEF IsReply
  <2>2. ASSUME NEW i \in DOMAIN t, IsReply(t[i]) PROVE ReplySound(i)'
    <3>1. i \in DOMAIN model.turns /\ t[i] = model.turns[i] BY <2>1, <2>2
    <3>2. ReplySound(i) /\ i > 1 BY <2>2, <3>1 DEF SearchInv, RepliesSound, ReplySound
    <3>3. t[i - 1] = model.turns[i - 1] BY <3>1, <3>2, <1>5
    <3>4. model.turns[i].id[2] \in unheard \/ model.turns[i].state = rows[model.turns[i].id[2]].state
        BY <1>2, <2>2, <3>1, NoneUnderWay
    <3> QED BY <1>2, <1>7, <3>1, <3>2, <3>3, <3>4 DEF ReplySound
  <2>3. \A i, j \in DOMAIN t : IsReply(t[i]) /\ IsReply(t[j]) /\ t[i].id = t[j].id => i = j
      BY <2>1 DEF SearchInv, RepliesSound
  <2> QED BY <1>7, <2>2, <2>3 DEF RepliesSound
<1>14. RequestSound(request[r])'
  <2>1. \A i \in DOMAIN rows : rows[i].text # sent + 1 BY <1>1, <1>10
  <2>2. \A i \in DOMAIN rows : asked'[rows[i].text] = asked'[q.text] => i \in unheard
      BY <1>2, <1>4, <1>6, <1>10 DEF SearchInv, StoredApart, SentAgain
  <2>3. ~Answered(q) BY <1>4 DEF Answered
  <2>4. Len(m2.turns) > 0 /\ m2.turns[Len(m2.turns)] = u BY <1>5, <1>7
  <2>5. AsksNew(request[r])'
    <3>1. q.of[1] = "none" /\ q.text \in 1..sent' /\ asked'[q.text] # 0 /\ asked'[q.text] # m2.draft
        BY <1>1, <1>2, <1>4, <1>6, <1>7
    <3>2. Len(m2.turns) > 0 /\ m2.turns[Len(m2.turns)].side = "user" /\ m2.turns[Len(m2.turns)].text = q.text
        BY <1>3, <1>4, <2>4
    <3>3. \A i \in DOMAIN rows : rows[i].text # q.text BY <1>4, <2>1
    <3> QED BY <1>2, <1>8, <2>2, <2>3, <3>1, <3>2, <3>3 DEF AsksNew, SentAgain
  <2> QED BY <1>4, <1>8, <2>5 DEF RequestSound
<1>15. ASSUME NEW s \in Procs PROVE RequestSound(request[s])'
    BY <1>8, <1>14 DEF RequestSound
<1> QED BY <1>8, <1>9, <1>11, <1>12, <1>13, <1>15 DEF SearchInv

LEMMA RetryStep == ASSUME SearchInv, NEW r \in Procs, CS!RetryTurn(r) PROVE SearchInv'
<1>1. /\ model \in Model /\ rows \in Seq(Row) /\ asked \in Seq(Nat) /\ sent \in Nat /\ Len(asked) = sent
      /\ model.turns \in Seq(SearchTurn) /\ model.draft \in Nat
      /\ request \in [Procs -> Request] /\ drafts \in Nat
      /\ context \subseteq [id : {"local", "stored"} \X Nat, text : Nat, mode : CS!Modes]
    BY DEF SearchInv, SearchShapes, Model
<1>2. PICK c \in context, place \in DOMAIN model.turns :
         /\ model.turns[place].side = "assistant" /\ model.turns[place].state = "retryable"
         /\ request' = [request EXCEPT ![r] = [CS!NoRequest EXCEPT !.at = "sent", !.text = c.text, !.mode = c.mode,
                                                 !.of = model.turns[place].id, !.slot = place]]
    BY DEF CS!RetryTurn, CS!RetryOf
<1>3. /\ ~model.pending /\ sent' = sent + 1 /\ asked' = Append(asked, 0) /\ UNCHANGED <<context, rows, drafts, unheard>>
      /\ model' = [model EXCEPT !.pending = TRUE]
    BY DEF CS!RetryTurn
<1> DEFINE id == model.turns[place].id
           text == c.text
           way == c.mode
           q == [CS!NoRequest EXCEPT !.at = "sent", !.text = text, !.mode = way, !.of = id, !.slot = place]
<1>4. /\ id \in {"local", "stored"} \X Nat /\ text \in Nat /\ way \in CS!Modes /\ place \in Nat /\ place # 0
  <2>1. c \in [id : {"local", "stored"} \X Nat, text : Nat, mode : CS!Modes] BY <1>1
  <2>2. model.turns[place] \in SearchTurn BY <1>1
  <2>3. place \in Nat /\ place # 0 BY <1>1
  <2>4. c.text \in Nat /\ c.mode \in CS!Modes BY <2>1
  <2>5. model.turns[place].id \in {"local", "stored"} \X Nat BY <2>2 DEF SearchTurn
  <2> QED BY <2>3, <2>4, <2>5
<1>5. request' = [request EXCEPT ![r] = q] BY <1>2
<1> HIDE DEF text, way
<1> HIDE DEF id
<1>6. q.at = "sent" /\ q.slot = place /\ q.of = id /\ ~q.ok BY DEF CS!NoRequest
<1>7. q \in Request BY <1>4, NoRequestIs DEF Request
<1> HIDE DEF q
<1>8. model' \in Model /\ model'.turns = model.turns /\ model'.draft = model.draft /\ model'.pending
    BY <1>1, <1>3 DEF Model
<1>9. /\ asked' \in Seq(Nat) /\ Len(asked') = sent + 1 /\ DOMAIN asked = 1..sent /\ DOMAIN asked' = 1..(sent + 1)
      /\ asked'[sent + 1] = 0 /\ \A n \in 1..sent : asked'[n] = asked[n]
    BY <1>1, <1>3, AppendOne
<1>10. /\ OneRequest' /\ request' \in [Procs -> Request] /\ request'[r] = q
       /\ \A s \in Procs : s # r => request'[s] = request[s] /\ request'[s].at = "idle"
    BY <1>3, <1>5, <1>7, <1>8, NewRequest
<1>11. SearchShapes' BY <1>1, <1>3, <1>8, <1>9, <1>10 DEF SearchInv, SearchShapes
<1>12. \A i \in DOMAIN rows : rows[i].text \in 1..sent /\ asked'[rows[i].text] = asked[rows[i].text]
    BY <1>9 DEF SearchInv, Submissions
<1>13. Submissions'
  <2>1. \A n \in DOMAIN asked' : asked'[n] <= drafts
      BY SMTT(40), <1>1, <1>9 DEF SearchInv, Submissions
  <2>2. \A i \in DOMAIN rows : rows[i].text \in 1..(sent + 1) /\ asked'[rows[i].text] # 0
      BY <1>1, <1>12 DEF SearchInv, Submissions
  <2> QED BY <1>3, <1>8, <2>1, <2>2 DEF SearchInv, Submissions
<1>14. StoredApart'
  <2>1. ASSUME NEW i \in DOMAIN rows, NEW j \in DOMAIN rows, asked'[rows[i].text] = asked'[rows[j].text]
        PROVE  i = j \/ unheard \cap {i, j} # {}
      BY <1>12, <2>1 DEF SearchInv, StoredApart
  <2>2. model.draft # 0 => \A i \in DOMAIN rows : asked'[rows[i].text] = model.draft => i \in unheard
      BY <1>12 DEF SearchInv, StoredApart, SentAgain
  <2>3. model'.draft = model.draft BY <1>8
  <2>4. (model.draft # 0 => SentAgain(model.draft, {}))'
      BY <1>3, <2>2, <2>3 DEF SentAgain
  <2> QED BY <1>3, <2>1, <2>4 DEF StoredApart
<1>15. RepliesSound'
  <2>1. ASSUME NEW i \in DOMAIN model.turns, IsReply(model.turns[i]) PROVE ReplySound(i)'
    <3>1. ReplySound(i) BY <2>1 DEF SearchInv, RepliesSound
    <3>2. model.turns[i].id[2] \in unheard \/ model.turns[i].state = rows[model.turns[i].id[2]].state
        BY <1>3, <2>1, NoneUnderWay
    <3> QED BY <1>3, <1>8, <3>1, <3>2 DEF ReplySound
  <2> QED BY <1>8, <2>1 DEF SearchInv, RepliesSound
<1>16. RequestSound(request[r])'
  <2>1. AsksAgain(request[r])'
      BY <1>2, <1>6, <1>8, <1>10 DEF AsksAgain, Answered, id
  <2> QED BY <1>4, <1>6, <1>10, <2>1 DEF RequestSound
<1>17. ASSUME NEW s \in Procs PROVE RequestSound(request[s])'
    BY <1>10, <1>16 DEF RequestSound
<1> QED BY <1>10, <1>11, <1>13, <1>14, <1>15, <1>17 DEF SearchInv

-----------------------------------------------------------------------------
(* The server. *)

\* The only one under way goes on.
LEMMA TriesOn ==
    ASSUME SearchInv, NEW r \in Procs, request[r].at # "idle", NEW q \in Request,
           request' = [request EXCEPT ![r] = q], model' = model
    PROVE  /\ OneRequest' /\ request' \in [Procs -> Request] /\ request'[r] = q
           /\ \A s \in Procs : s # r => request'[s] = request[s] /\ request'[s].at = "idle"
<1>1. /\ request' \in [Procs -> Request] /\ request'[r] = q
      /\ \A s \in Procs : s # r => request'[s] = request[s]
    BY DEF SearchInv, SearchShapes
<1>2. \A s \in Procs : s # r => request[s].at = "idle" BY DEF SearchInv, OneRequest
<1> QED BY <1>1, <1>2 DEF SearchInv, OneRequest

\* It is refused, or its answer gets lost.
LEMMA Refused ==
    ASSUME SearchInv, NEW r \in Procs, CS!Refuses(r), request[r].at = "sent" \/ Answered(request[r]),
           unheard' = IF request[r].at = "sent" THEN unheard ELSE unheard \cup {request[r].id},
           UNCHANGED <<model, context, rows, drafts, sent, asked>>
    PROVE  SearchInv'
<1> DEFINE m == request[r]
           q == [m EXCEPT !.at = "answered", !.ok = FALSE]
<1>1. m \in Request /\ request \in [Procs -> Request] BY DEF SearchInv, SearchShapes
<1>2. request' = [request EXCEPT ![r] = q] BY <1>1 DEF CS!Refuses
<1>3. /\ q \in Request /\ q.at = "answered" /\ ~q.ok /\ q.slot = m.slot /\ q.text = m.text /\ q.of = m.of
    BY <1>1 DEF Request
<1> HIDE DEF q
<1>4. RequestSound(m) /\ m.at # "idle" BY DEF SearchInv, Answered
<1>5. Answered(m) => m.id \in DOMAIN rows
  <2>1. CASE m.slot = 0 BY <1>4, <2>1 DEF RequestSound, AsksNew
  <2>2. CASE m.slot # 0
    <3>1. AsksAgain(m) BY <1>4, <2>2 DEF RequestSound
    <3>2. Answered(m) => IsReply(model.turns[m.slot]) /\ m.slot \in DOMAIN model.turns
                         /\ m.id = model.turns[m.slot].id[2]
        BY <3>1 DEF AsksAgain, IsReply
    <3> QED BY <3>2 DEF SearchInv, RepliesSound, ReplySound
  <2> QED BY <2>1, <2>2
<1>6. /\ OneRequest' /\ request' \in [Procs -> Request] /\ request'[r] = q
      /\ \A s \in Procs : s # r => request'[s] = request[s] /\ request'[s].at = "idle"
  <2>1. model' = model OBVIOUS
  <2> QED BY <1>2, <1>3, <1>4, <2>1, TriesOn
<1>7. /\ unheard \subseteq unheard' /\ unheard' \subseteq DOMAIN rows
      /\ Answered(m) => m.id \in unheard'
    BY <1>5 DEF SearchInv, SearchShapes, Answered
<1> HIDE DEF m
<1>8. SearchShapes' BY <1>6, <1>7 DEF SearchInv, SearchShapes
<1>9. Submissions' BY DEF SearchInv, Submissions
<1>10. StoredApart' BY <1>7 DEF SearchInv, StoredApart, SentAgain
<1>11. RepliesSound'
  <2>1. ASSUME NEW i \in DOMAIN model.turns, IsReply(model.turns[i]) PROVE ReplySound(i)'
    <3>1. ReplySound(i) BY <2>1 DEF SearchInv, RepliesSound
    <3>2. ASSUME NEW s \in Procs, Answered(request[s]), request[s].slot = i
          PROVE  model.turns[i].id[2] \in unheard'
      <4>1. s = r BY <3>2, <1>4 DEF SearchInv, OneRequest, Answered, m
      <4>2. i \in Nat /\ i # 0 BY <2>1, <3>1 DEF SearchInv, SearchShapes, Model, ReplySound
      <4>3. AsksAgain(m) /\ Answered(m) BY <1>4, <3>2, <4>1, <4>2 DEF RequestSound, m
      <4>4. m.id = model.turns[i].id[2] BY <3>2, <4>1, <4>3 DEF AsksAgain, m
      <4> QED BY <1>7, <4>3, <4>4
    <3> QED BY <1>7, <3>1, <3>2 DEF ReplySound
  <2> QED BY <2>1 DEF SearchInv, RepliesSound
<1>12. RequestSound(request[r])'
  <2>1. CASE m.slot = 0
    <3>1. AsksNew(m) BY <1>4, <2>1 DEF RequestSound
    <3>2. \A i \in DOMAIN rows : asked[rows[i].text] = asked[m.text] => i \in unheard'
        BY <1>7, <3>1 DEF AsksNew, SentAgain
    <3>3. AsksNew(request[r])' BY <1>3, <1>6, <3>1, <3>2 DEF AsksNew, SentAgain, Answered
    <3> QED BY <1>3, <1>6, <2>1, <3>3 DEF RequestSound
  <2>2. CASE m.slot # 0
    <3>1. AsksAgain(m) BY <1>4, <2>2 DEF RequestSound
    <3>2. model.turns[m.slot].state = "retryable"
        BY <3>1 DEF AsksAgain
    <3>3. AsksAgain(request[r])' BY <1>3, <1>6, <3>1, <3>2 DEF AsksAgain, Answered
    <3> QED BY <1>3, <1>6, <2>2, <3>3 DEF RequestSound
  <2> QED BY <2>1, <2>2
<1>13. ASSUME NEW s \in Procs PROVE RequestSound(request[s])'
    BY <1>6, <1>12 DEF RequestSound
<1> QED BY <1>6, <1>8, <1>9, <1>10, <1>11, <1>13 DEF SearchInv

LEMMA IsAnswered ==
    ASSUME SearchInv, NEW r \in Procs, request[r].at = "sent", NEW id \in Nat, NEW state \in CS!States,
           CS!Answers(r, id, state), model' = model
    PROVE  /\ OneRequest' /\ request' \in [Procs -> Request]
           /\ request'[r].at = "answered" /\ request'[r].ok /\ request'[r].id = id /\ request'[r].state = state
           /\ request'[r].slot = request[r].slot /\ request'[r].text = request[r].text
           /\ request'[r].of = request[r].of
           /\ \A s \in Procs : s # r => request'[s] = request[s] /\ request'[s].at = "idle"
<1> DEFINE m == request[r]
           q == [m EXCEPT !.at = "answered", !.ok = TRUE, !.id = id, !.state = state]
<1>1. m \in Request /\ request \in [Procs -> Request] BY DEF SearchInv, SearchShapes
<1>2. request' = [request EXCEPT ![r] = q] BY <1>1 DEF CS!Answers
<1>3. q \in Request
  <2>1. m \in Request BY <1>1
  <2> HIDE DEF m
  <2> QED BY <2>1 DEF Request
<1>4. /\ q.at = "answered" /\ q.ok /\ q.id = id /\ q.state = state
      /\ q.slot = m.slot /\ q.text = m.text /\ q.of = m.of
  <2>1. m \in Request BY <1>1
  <2> HIDE DEF m
  <2>2. q.at = "answered" /\ q.ok BY <2>1 DEF Request
  <2>3. q.id = id BY <2>1 DEF Request
  <2>4. q.state = state BY <2>1 DEF Request
  <2>5. q.slot = m.slot /\ q.text = m.text /\ q.of = m.of BY <2>1 DEF Request
  <2> QED BY <2>2, <2>3, <2>4, <2>5
<1> HIDE DEF q
<1>5. /\ OneRequest' /\ request' \in [Procs -> Request] /\ request'[r] = q
      /\ \A s \in Procs : s # r => request'[s] = request[s] /\ request'[s].at = "idle"
    BY <1>2, <1>3, TriesOn
<1> QED BY <1>4, <1>5

\* The request of a new turn is stored, and answered with its row.
LEMMA StoresNew ==
    ASSUME SearchInv, NEW r \in Procs, request[r].at = "sent", request[r].of[1] = "none",
           NEW state \in CS!States,
           rows' = Append(rows, [text |-> request[r].text, state |-> state]),
           CS!Answers(r, Len(rows) + 1, state),
           UNCHANGED <<model, context, drafts, sent, asked, unheard>>
    PROVE  SearchInv'
<1> DEFINE m == request[r]
           q == request'[r]
           n == Len(rows) + 1
           row == [text |-> m.text, state |-> state]
<1>1. /\ m \in Request /\ rows \in Seq(Row) /\ Len(rows) \in Nat /\ n \in Nat /\ asked \in Seq(Nat) /\ Len(asked) = sent
      /\ model \in Model /\ model.turns \in Seq(SearchTurn) /\ unheard \subseteq DOMAIN rows
    BY DEF SearchInv, SearchShapes, Model
<1>2. AsksNew(m)
  <2>1. RequestSound(m) /\ m.at # "idle" BY DEF SearchInv
  <2>2. ASSUME AsksAgain(m) PROVE FALSE
    <3>1. model.turns[m.slot] \in SearchTurn /\ model.turns[m.slot].id = m.of BY <1>1, <2>2 DEF AsksAgain
    <3> QED BY <3>1 DEF SearchTurn
  <2> QED BY <2>1, <2>2 DEF RequestSound
<1>2a. m.slot = 0
  <2>1. RequestSound(m) /\ m.at # "idle" BY DEF SearchInv
  <2>2. ASSUME AsksAgain(m) PROVE FALSE
    <3>1. model.turns[m.slot] \in SearchTurn /\ model.turns[m.slot].id = m.of BY <1>1, <2>2 DEF AsksAgain
    <3> QED BY <3>1 DEF SearchTurn
  <2> QED BY <2>1, <2>2 DEF RequestSound
<1>3. row \in Row /\ row.text = m.text /\ row.state = state BY <1>1 DEF Row, Request
<1>4. rows' = Append(rows, row) OBVIOUS
<1> HIDE DEF row
<1>5. /\ rows' \in Seq(Row) /\ DOMAIN rows = 1..Len(rows) /\ DOMAIN rows' = 1..n /\ rows'[n] = row
      /\ \A i \in 1..Len(rows) : rows'[i] = rows[i]
    BY <1>1, <1>3, <1>4, AppendOne
<1>6. /\ OneRequest' /\ request' \in [Procs -> Request]
      /\ q.at = "answered" /\ q.ok /\ q.id = n /\ q.state = state
      /\ q.slot = m.slot /\ q.text = m.text /\ q.of = m.of
      /\ \A s \in Procs : s # r => request'[s] = request[s] /\ request'[s].at = "idle"
  <2>1. model' = model OBVIOUS
  <2> HIDE DEF n
  <2>2. CS!Answers(r, n, state) BY DEF n
  <2> QED BY <1>1, <2>1, <2>2, IsAnswered
<1> HIDE DEF m, q
<1>7. unheard \subseteq DOMAIN rows' /\ n \notin unheard /\ DOMAIN rows \subseteq DOMAIN rows' /\ n \in DOMAIN rows'
      /\ \A i \in DOMAIN rows' : i = n \/ i \in DOMAIN rows
    BY <1>1, <1>5
<1>8. SearchShapes' BY <1>5, <1>6, <1>7 DEF SearchInv, SearchShapes
<1>9. /\ m.text \in 1..sent /\ asked[m.text] # 0 /\ asked[m.text] # model.draft
      /\ \A i \in DOMAIN rows : rows[i].text # m.text
      /\ \A i \in DOMAIN rows : asked[rows[i].text] = asked[m.text] => i \in unheard
    BY <1>2 DEF AsksNew, SentAgain, m, Answered
<1> HIDE DEF n
<1>10. \A i \in DOMAIN rows : rows'[i] = rows[i] BY <1>5
<1>11. Submissions'
  <2>1. \A i \in DOMAIN rows' : rows'[i].text \in 1..sent /\ asked[rows'[i].text] # 0
      BY <1>3, <1>5, <1>7, <1>9, <1>10 DEF SearchInv, Submissions
  <2>2. \A i, j \in DOMAIN rows' : rows'[i].text = rows'[j].text => i = j
      BY <1>3, <1>5, <1>7, <1>9, <1>10 DEF SearchInv, Submissions
  <2> QED BY <2>1, <2>2 DEF SearchInv, Submissions
<1>12. StoredApart'
  <2>1. ASSUME model.draft # 0, NEW i \in DOMAIN rows', asked[rows'[i].text] = model.draft PROVE i \in unheard
    <3>1. CASE i \in DOMAIN rows BY <1>10, <2>1, <3>1 DEF SearchInv, StoredApart, SentAgain
    <3>2. i # n BY <1>3, <1>5, <1>9, <2>1
    <3> QED BY <1>7, <3>1, <3>2
  <2>2. ASSUME NEW i \in DOMAIN rows', NEW j \in DOMAIN rows', asked[rows'[i].text] = asked[rows'[j].text]
        PROVE  i = j \/ unheard \cap {i, j} # {}
      BY <1>3, <1>5, <1>7, <1>9, <1>10, <2>2 DEF SearchInv, StoredApart
  <2> QED BY <2>1, <2>2 DEF StoredApart, SentAgain
<1>13. ASSUME NEW i \in DOMAIN model.turns, IsReply(model.turns[i])
       PROVE  model.turns[i].id[2] \in DOMAIN rows /\ ReplySound(i)
    BY <1>13 DEF SearchInv, RepliesSound, ReplySound
<1>14. RepliesSound'
  <2>1. ASSUME NEW i \in DOMAIN model.turns, IsReply(model.turns[i]) PROVE ReplySound(i)'
    <3>1. rows'[model.turns[i].id[2]] = rows[model.turns[i].id[2]] /\ ReplySound(i)
        BY <1>10, <1>13, <2>1
    <3>2. ASSUME NEW s \in Procs, Answered(request[s]) PROVE FALSE
        BY <3>2 DEF SearchInv, OneRequest, Answered
    <3> QED BY <1>7, <3>1, <3>2 DEF ReplySound
  <2> QED BY <2>1 DEF SearchInv, RepliesSound
<1>15. RequestSound(request[r])'
  <2>1. \A k \in DOMAIN model.turns : IsReply(model.turns[k]) => model.turns[k].id[2] # n
      BY <1>13, <1>5, <1>1 DEF n
  <2>2. \A i \in DOMAIN rows' : asked[rows'[i].text] = asked[q.text] => i \in unheard \/ i \in {n}
      BY <1>6, <1>7, <1>9, <1>10
  <2>3. AsksNew(request[r])'
    <3>1. Answered(q) /\ q.at # "sent" BY <1>6 DEF Answered
    <3>2. q.id \in DOMAIN rows' /\ rows'[q.id].text = q.text /\ rows'[q.id].state = q.state
        BY <1>3, <1>5, <1>6, <1>7
    <3>3. q.of[1] = "none" /\ q.text \in 1..sent /\ asked[q.text] # 0 /\ asked[q.text] # model.draft
        BY <1>2, <1>6 DEF AsksNew
    <3>4. /\ Len(model.turns) > 0 /\ model.turns[Len(model.turns)].side = "user"
          /\ model.turns[Len(model.turns)].text = q.text
        BY <1>2, <1>6 DEF AsksNew
    <3> QED BY <1>6, <2>1, <2>2, <3>1, <3>2, <3>3, <3>4 DEF AsksNew, SentAgain, q
  <2> QED BY <1>2a, <1>6, <2>3 DEF RequestSound, q
<1>16. ASSUME NEW s \in Procs PROVE RequestSound(request[s])'
    BY <1>6, <1>15 DEF RequestSound
<1> QED BY <1>6, <1>8, <1>11, <1>12, <1>14, <1>16 DEF SearchInv

\* The request of another try: its row is the one of the reply.
LEMMA AsksOf ==
    ASSUME SearchInv, NEW r \in Procs, request[r].at # "idle", request[r].of[1] # "none"
    PROVE  AsksAgain(request[r]) /\ request[r].slot # 0
<1>1. RequestSound(request[r]) BY DEF SearchInv
<1> QED BY <1>1 DEF RequestSound, AsksNew

StatePut(n, state) == rows' = [rows EXCEPT ![n].state = state]

LEMMA StoresAgain ==
    ASSUME SearchInv, NEW r \in Procs, request[r].at = "sent", request[r].of[1] = "stored",
           NEW state \in CS!States,
           StatePut(request[r].of[2], state), CS!Answers(r, request[r].of[2], state),
           UNCHANGED <<model, context, drafts, sent, asked, unheard>>
    PROVE  SearchInv'
<1> DEFINE m == request[r]
           q == request'[r]
           n == m.of[2]
           row == [rows[n] EXCEPT !.state = state]
<1>1. /\ m \in Request /\ rows \in Seq(Row) /\ asked \in Seq(Nat) /\ Len(asked) = sent
      /\ model \in Model /\ model.turns \in Seq(SearchTurn) /\ unheard \subseteq DOMAIN rows
    BY DEF SearchInv, SearchShapes, Model
<1>2. AsksAgain(m) /\ m.slot # 0 BY AsksOf
<1>3. /\ m.slot \in DOMAIN model.turns /\ IsReply(model.turns[m.slot]) /\ n = model.turns[m.slot].id[2]
      /\ model.turns[m.slot].id = m.of
    BY <1>2 DEF AsksAgain, IsReply
<1>4. ReplySound(m.slot) /\ n \in DOMAIN rows /\ n \in Nat
  <2>1. ReplySound(m.slot) BY <1>3 DEF SearchInv, RepliesSound
  <2>2. model.turns[m.slot].id[2] \in DOMAIN rows BY <2>1 DEF ReplySound
  <2> HIDE DEF m, n
  <2>3. n \in DOMAIN rows BY <2>2, <1>3
  <2> QED BY <1>1, <2>1, <2>3
<1>5. row \in Row /\ row.text = rows[n].text /\ row.state = state
  <2> HIDE DEF n
  <2>1. rows[n] \in Row BY <1>1, <1>4
  <2> QED BY <2>1 DEF Row
<1>6. rows' = [rows EXCEPT ![n] = row]
  <2>1. rows' = [rows EXCEPT ![n].state = state] BY DEF StatePut
  <2> HIDE DEF n
  <2> QED BY <1>1, <1>4, <2>1
<1>7. /\ OneRequest' /\ request' \in [Procs -> Request]
      /\ q.at = "answered" /\ q.ok /\ q.id = n /\ q.state = state
      /\ q.slot = m.slot /\ q.text = m.text /\ q.of = m.of
      /\ \A s \in Procs : s # r => request'[s] = request[s] /\ request'[s].at = "idle"
  <2>1. model' = model OBVIOUS
  <2>2. CS!Answers(r, n, state) OBVIOUS
  <2> HIDE DEF n
  <2> QED BY <1>4, <2>1, <2>2, IsAnswered
<1> HIDE DEF m, q, row, n
<1>8. /\ rows' \in Seq(Row) /\ DOMAIN rows' = DOMAIN rows /\ rows'[n] = row
      /\ \A i \in DOMAIN rows : i # n => rows'[i] = rows[i]
    BY <1>1, <1>4, <1>5, <1>6, ReplaceOne
<1>9. SearchShapes' BY <1>7, <1>8 DEF SearchInv, SearchShapes
<1>10. \A i \in DOMAIN rows : rows'[i].text = rows[i].text BY <1>5, <1>8
<1>11. Submissions' BY <1>8, <1>10 DEF SearchInv, Submissions
<1>12. StoredApart' BY <1>8, <1>10 DEF SearchInv, StoredApart, SentAgain
<1>13. RepliesSound'
  <2>1. ASSUME NEW i \in DOMAIN model.turns, IsReply(model.turns[i]) PROVE ReplySound(i)'
    <3>1. ReplySound(i) /\ model.turns[i].id[2] \in DOMAIN rows
        BY <2>1 DEF SearchInv, RepliesSound, ReplySound
    <3>2. ASSUME NEW s \in Procs, Answered(request[s]) PROVE FALSE
        BY <3>2 DEF SearchInv, OneRequest, Answered
    <3>3. CASE i = m.slot
      <4>1. Answered(request'[r]) /\ request'[r].slot = i BY <1>7, <3>3 DEF Answered, q
      <4> QED BY <1>8, <1>10, <3>1, <4>1 DEF ReplySound
    <3>4. CASE i # m.slot
      <4>1. model.turns[i].id[2] # n
        <5>1. model.turns[i].id # m.of
            BY <1>3, <2>1, <3>4 DEF SearchInv, RepliesSound
        <5>2. model.turns[i] \in SearchTurn /\ model.turns[m.slot] \in SearchTurn BY <1>1, <1>3, <2>1
        <5> QED BY <1>3, <2>1, <5>1, <5>2 DEF SearchTurn, IsReply
      <4> QED BY <1>8, <1>10, <3>1, <3>2, <4>1 DEF ReplySound
    <3> QED BY <3>3, <3>4
  <2> QED BY <2>1 DEF SearchInv, RepliesSound
<1>14. RequestSound(request[r])'
  <2>1. AsksAgain(request[r])'
    <3>1. rows'[n].state = state BY <1>5, <1>8
    <3>2. q.of[1] = "stored" /\ q.of[2] = n BY <1>7 DEF m, n
    <3> QED BY <1>2, <1>7, <3>1, <3>2 DEF AsksAgain, q
  <2> QED BY <1>2, <1>7, <2>1 DEF RequestSound, q
<1>15. ASSUME NEW s \in Procs PROVE RequestSound(request[s])'
    BY <1>7, <1>14 DEF RequestSound
<1> QED BY <1>7, <1>9, <1>11, <1>12, <1>13, <1>15 DEF SearchInv

LEMMA AcceptsStep == ASSUME SearchInv, NEW r \in Procs, CS!Accepts(r) PROVE SearchInv'
<1> DEFINE m == request[r]
<1>1. m.at = "sent" /\ m \in Request BY DEF CS!Accepts, SearchInv, SearchShapes
<1>2. UNCHANGED <<model, context, drafts, sent, asked, unheard>> BY DEF CS!Accepts
<1>3. CASE m.of[1] = "none"
  <2>1. PICK state \in CS!Outcomes(m.mode) :
           /\ rows' = Append(rows, [text |-> m.text, state |-> state]) /\ CS!Answers(r, Len(rows) + 1, state)
      BY <1>3 DEF CS!Accepts
  <2>2. state \in CS!States BY DEF CS!Outcomes, CS!States
  <2> QED BY <1>1, <1>2, <1>3, <2>1, <2>2, StoresNew
<1>4. CASE m.of[1] # "none" /\ (m.of[1] = "local" \/ rows[m.of[2]].state # "retryable")
  <2>1. CS!Refuses(r) /\ rows' = rows BY <1>4 DEF CS!Accepts
  <2>2. unheard' = IF request[r].at = "sent" THEN unheard ELSE unheard \cup {request[r].id} BY <1>1, <1>2
  <2> QED BY <1>1, <1>2, <2>1, <2>2, Refused
<1>5. CASE m.of[1] = "stored" /\ rows[m.of[2]].state = "retryable"
  <2>1. PICK state \in CS!Outcomes("search") :
           rows' = [rows EXCEPT ![m.of[2]].state = state] /\ CS!Answers(r, m.of[2], state)
      BY <1>5 DEF CS!Accepts
  <2>2. state \in CS!States BY DEF CS!Outcomes, CS!States
  <2> QED BY <1>1, <1>2, <1>5, <2>1, <2>2, StoresAgain DEF StatePut
<1>6. m.of[1] \in {"none", "local", "stored"} BY <1>1 DEF Request
<1> QED BY <1>3, <1>4, <1>5, <1>6

LEMMA SearchFailsStep == ASSUME SearchInv, NEW r \in Procs, CS!Fails(r) PROVE SearchInv'
<1>1. request[r].at = "sent" \/ Answered(request[r]) BY DEF CS!Fails, Answered
<1>2. CS!Refuses(r) /\ UNCHANGED <<model, context, rows, drafts, sent, asked>> BY DEF CS!Fails
<1>3. unheard' = IF request[r].at = "sent" THEN unheard ELSE unheard \cup {request[r].id}
    BY <1>1 DEF CS!Fails, Answered
<1> QED BY <1>1, <1>2, <1>3, Refused

-----------------------------------------------------------------------------
(* The answer is heard. *)

LEMMA Ends ==
    ASSUME SearchInv, NEW r \in Procs, CS!Ended(r), request[r].at # "idle"
    PROVE  /\ OneRequest' /\ request' \in [Procs -> Request]
           /\ \A s \in Procs : request'[s].at = "idle" /\ RequestSound(request[s])'
<1>1. request \in [Procs -> Request] /\ request' = [request EXCEPT ![r] = CS!NoRequest]
    BY DEF SearchInv, SearchShapes, CS!Ended
<1>2. \A s \in Procs : s # r => request[s].at = "idle" BY DEF SearchInv, OneRequest
<1>3. \A s \in Procs : request'[s].at = "idle" BY <1>1, <1>2, NoRequestIs
<1> QED BY <1>1, <1>3, NoRequestIs DEF OneRequest, RequestSound

\* A reply that no request is another try of is shown as it is stored.
LEMMA ShownRight ==
    ASSUME SearchInv, NEW r \in Procs, request[r].at # "idle", NEW i \in DOMAIN model.turns, IsReply(model.turns[i]),
           request[r].slot # i
    PROVE  model.turns[i].id[2] \in unheard \/ model.turns[i].state = rows[model.turns[i].id[2]].state
<1>1. ReplySound(i) BY DEF SearchInv, RepliesSound
<1>2. ASSUME NEW s \in Procs, Answered(request[s]), request[s].slot = i PROVE FALSE
    BY <1>2 DEF SearchInv, OneRequest, Answered
<1> QED BY <1>1, <1>2 DEF ReplySound

LEMMA Appends ==
    ASSUME SearchInv, NEW r \in Procs, CS!Ended(r), request[r].at # "idle", request[r].slot = 0,
           NEW turn \in SearchTurn, turn.side = "assistant",
           IsReply(turn) => /\ Answered(request[r]) /\ turn.id[2] = request[r].id
                            /\ turn.state = request[r].state,
           model' = [model EXCEPT !.turns = Append(model.turns, turn), !.pending = FALSE],
           context' \subseteq [id : {"local", "stored"} \X Nat, text : Nat, mode : CS!Modes],
           UNCHANGED <<rows, drafts, sent, asked, unheard>>
    PROVE  SearchInv'
<1> DEFINE q == request[r]
           t == Append(model.turns, turn)
           m2 == model'
<1>1. /\ model \in Model /\ model.turns \in Seq(SearchTurn) /\ request \in [Procs -> Request]
    BY DEF SearchInv, SearchShapes, Model
<1>2. /\ t \in Seq(SearchTurn) /\ Len(t) = Len(model.turns) + 1 /\ Len(model.turns) \in Nat
      /\ DOMAIN model.turns = 1..Len(model.turns) /\ DOMAIN t = 1..(Len(model.turns) + 1)
      /\ t[Len(model.turns) + 1] = turn /\ \A i \in 1..Len(model.turns) : t[i] = model.turns[i]
    BY <1>1, AppendOne
<1>3. m2 \in Model /\ m2.turns = t /\ m2.draft = model.draft /\ ~m2.pending
  <2>1. m2 = [model EXCEPT !.turns = t, !.pending = FALSE] OBVIOUS
  <2> HIDE DEF t, m2
  <2>2. m2.turns = t BY <1>1, <2>1 DEF Model
  <2>3. m2.draft = model.draft BY <1>1, <2>1 DEF Model
  <2>4. ~m2.pending BY <1>1, <2>1 DEF Model
  <2>5. m2 \in Model BY <1>1, <1>2, <2>1 DEF Model
  <2> QED BY <2>2, <2>3, <2>4, <2>5
<1> HIDE DEF t
<1>4. AsksNew(q) BY DEF SearchInv, RequestSound
<1>5. /\ OneRequest' /\ request' \in [Procs -> Request]
      /\ \A s \in Procs : request'[s].at = "idle" /\ RequestSound(request[s])'
    BY Ends
<1>6. SearchShapes' BY <1>3, <1>5 DEF SearchInv, SearchShapes
<1>7. Submissions' BY <1>3 DEF SearchInv, Submissions
<1>8. StoredApart' BY <1>3 DEF SearchInv, StoredApart, SentAgain
<1>9. RepliesSound'
  <2>1. ASSUME NEW i \in DOMAIN t, IsReply(t[i]) PROVE ReplySound(i)'
    <3>1. CASE i \in DOMAIN model.turns
      <4>1. t[i] = model.turns[i] /\ IsReply(model.turns[i]) BY <1>2, <2>1, <3>1
      <4>2. ReplySound(i) /\ i > 1 BY <3>1, <4>1 DEF SearchInv, RepliesSound, ReplySound
      <4>3. t[i - 1] = model.turns[i - 1] BY <1>2, <3>1, <4>2
      <4>4. request[r].slot # i BY <1>2, <3>1
      <4>5. model.turns[i].id[2] \in unheard \/ model.turns[i].state = rows[model.turns[i].id[2]].state
          BY <3>1, <4>1, <4>4, ShownRight
      <4> QED BY <1>3, <4>1, <4>2, <4>3, <4>5 DEF ReplySound
    <3>2. CASE i = Len(model.turns) + 1
      <4>1. t[i] = turn /\ IsReply(turn) BY <1>2, <2>1, <3>2
      <4>2. Answered(q) /\ turn.id[2] = q.id /\ turn.state = q.state BY <4>1
      <4>3. /\ q.id \in DOMAIN rows /\ rows[q.id].text = q.text /\ rows[q.id].state = q.state
            /\ Len(model.turns) > 0 /\ model.turns[Len(model.turns)].side = "user"
            /\ model.turns[Len(model.turns)].text = q.text
          BY <1>4, <4>2 DEF AsksNew
      <4>4. i - 1 = Len(model.turns) /\ i > 1 /\ t[i - 1] = model.turns[Len(model.turns)]
          BY <1>2, <3>2, <4>3
      <4> HIDE DEF q
      <4> QED BY <1>3, <4>1, <4>2, <4>3, <4>4 DEF ReplySound
    <3> QED BY <1>2, <3>1, <3>2
  <2>2. ASSUME NEW i \in DOMAIN t, NEW j \in DOMAIN t, IsReply(t[i]), IsReply(t[j]), t[i].id = t[j].id
        PROVE  i = j
    <3>1. ASSUME NEW k \in DOMAIN model.turns, IsReply(model.turns[k]), IsReply(turn) 
          PROVE  model.turns[k].id # turn.id
        BY <1>4, <3>1 DEF AsksNew
    <3>2. \A k \in DOMAIN t : \/ k \in DOMAIN model.turns /\ t[k] = model.turns[k]
                              \/ k = Len(model.turns) + 1 /\ t[k] = turn
        BY <1>2
    <3>3. CASE i \in DOMAIN model.turns /\ j \in DOMAIN model.turns
      <4>1. t[i] = model.turns[i] /\ t[j] = model.turns[j] BY <1>2, <3>3
      <4> QED BY <2>2, <3>3, <4>1 DEF SearchInv, RepliesSound
    <3> QED BY <2>2, <3>1, <3>2, <3>3
  <2> QED BY <1>3, <2>1, <2>2 DEF RepliesSound
<1> QED BY <1>5, <1>6, <1>7, <1>8, <1>9 DEF SearchInv

LEMMA TurnStep == ASSUME SearchInv, NEW r \in Procs, CS!TurnAnswered(r) PROVE SearchInv'
<1> DEFINE q == request[r]
           turn == CS!AssistantTurn(CS!Stored(q.id), q.mode, q.state)
<1>1. q \in Request /\ q.at = "answered" /\ q.ok /\ q.slot = 0 /\ CS!Ended(r)
    BY DEF CS!TurnAnswered, SearchInv, SearchShapes
<1>2. q.id \in Nat /\ q.mode \in CS!Modes /\ q.state \in CS!States /\ q.text \in Nat BY <1>1 DEF Request
<1>3. turn \in SearchTurn /\ turn.side = "assistant" /\ turn.id[2] = q.id /\ turn.state = q.state
  <2> HIDE DEF q
  <2> QED BY <1>2 DEF SearchTurn, CS!AssistantTurn, CS!Stored
<1>4. context' \subseteq [id : {"local", "stored"} \X Nat, text : Nat, mode : CS!Modes]
  <2>1. context' = {c \in context : c.id # CS!Stored(q.id)}
                   \cup {[id |-> CS!Stored(q.id), text |-> q.text, mode |-> q.mode]}
      BY DEF CS!TurnAnswered, CS!Remembers
  <2>2. context \subseteq [id : {"local", "stored"} \X Nat, text : Nat, mode : CS!Modes]
      BY DEF SearchInv, SearchShapes
  <2> HIDE DEF q
  <2> QED BY <1>2, <2>1, <2>2 DEF CS!Stored
<1>5. model' = [model EXCEPT !.turns = Append(model.turns, turn), !.pending = FALSE]
    BY DEF CS!TurnAnswered
<1>6. UNCHANGED <<rows, drafts, sent, asked, unheard>> BY DEF CS!TurnAnswered
<1>7. Answered(q) BY <1>1 DEF Answered
<1> HIDE DEF turn
<1> QED BY <1>1, <1>3, <1>4, <1>5, <1>6, <1>7, Appends

LEMMA SearchTurnFailedStep == ASSUME SearchInv, NEW r \in Procs, CS!TurnFailed(r) PROVE SearchInv'
<1> DEFINE q == request[r]
<1>1. q \in Request /\ q.at = "answered" /\ ~q.ok /\ q.slot = 0 /\ CS!Ended(r) /\ ~Answered(q)
    BY DEF CS!TurnFailed, SearchInv, SearchShapes, Answered
<1>2. UNCHANGED <<rows, drafts, sent, asked, unheard>> BY DEF CS!TurnFailed
<1>3. /\ model \in Model /\ model.turns \in Seq(SearchTurn) /\ sent \in Nat /\ asked \in Seq(Nat) /\ Len(asked) = sent
      /\ context \subseteq [id : {"local", "stored"} \X Nat, text : Nat, mode : CS!Modes]
      /\ DOMAIN asked = 1..sent
    BY DEF SearchInv, SearchShapes, Model
<1>4. CASE q.mode = "search"
  <2> DEFINE turn == CS!TransportFailure(CS!Local(sent), q.mode)
  <2>1. turn \in SearchTurn /\ turn.side = "assistant" /\ ~IsReply(turn)
    <3> HIDE DEF q
    <3> QED BY <1>3, <1>4 DEF SearchTurn, CS!TransportFailure, CS!AssistantTurn, CS!Local, CS!Modes, CS!States, IsReply
  <2>2. model' = [model EXCEPT !.turns = Append(model.turns, turn), !.pending = FALSE]
      BY <1>4 DEF CS!TurnFailed
  <2>3. context' \subseteq [id : {"local", "stored"} \X Nat, text : Nat, mode : CS!Modes]
    <3>1. context' = {c \in context : c.id # CS!Local(sent)}
                     \cup {[id |-> CS!Local(sent), text |-> q.text, mode |-> q.mode]}
        BY <1>4 DEF CS!TurnFailed, CS!Remembers
    <3>2. q.text \in Nat /\ q.mode \in CS!Modes BY <1>1 DEF Request
    <3> HIDE DEF q
    <3> QED BY <1>3, <3>1, <3>2 DEF CS!Local
  <2> HIDE DEF turn
  <2> QED BY <1>1, <1>2, <2>1, <2>2, <2>3, Appends
<1>5. CASE q.mode # "search"
  <2> DEFINE t == SubSeq(model.turns, 1, Len(model.turns) - 1)
             d == asked[q.text]
             m2 == model'
  <2>1. AsksNew(q) BY <1>1 DEF SearchInv, RequestSound
  <2>2. Len(model.turns) > 0 /\ q.text \in 1..sent /\ d \in Nat /\ d <= drafts /\ SentAgain(d, {})
      BY <1>1, <1>3, <2>1 DEF AsksNew, SearchInv, Submissions
  <2>3. /\ t \in Seq(SearchTurn) /\ DOMAIN model.turns = 1..Len(model.turns)
        /\ DOMAIN t = 1..(Len(model.turns) - 1) /\ Len(model.turns) \in Nat
        /\ \A i \in 1..(Len(model.turns) - 1) : t[i] = model.turns[i]
      BY <1>3, <2>2, DropLast
  <2>4. m2.turns = t /\ m2.draft = d /\ ~m2.pending /\ m2 \in Model
    <3>1. m2 = [model EXCEPT !.turns = t, !.draft = d, !.pending = FALSE]
        BY <1>5 DEF CS!TurnFailed
    <3> HIDE DEF t, d, m2
    <3>2. m2.turns = t BY <1>3, <3>1 DEF Model
    <3>3. m2.draft = d BY <1>3, <3>1 DEF Model
    <3>4. ~m2.pending BY <1>3, <3>1 DEF Model
    <3>5. m2 \in Model BY <1>3, <2>2, <2>3, <3>1 DEF Model
    <3> QED BY <3>2, <3>3, <3>4, <3>5
  <2>5. context' = context BY <1>5 DEF CS!TurnFailed
  <2> HIDE DEF t, d
  <2>6. /\ OneRequest' /\ request' \in [Procs -> Request]
        /\ \A s \in Procs : request'[s].at = "idle" /\ RequestSound(request[s])'
      BY <1>1, Ends
  <2>7. SearchShapes' BY <1>2, <2>4, <2>5, <2>6 DEF SearchInv, SearchShapes
  <2>8. Submissions' BY <1>2, <2>2, <2>4 DEF SearchInv, Submissions
  <2>9. StoredApart' BY <1>2, <2>2, <2>4 DEF SearchInv, StoredApart, SentAgain
  <2>10. RepliesSound'
    <3>1. \A i \in DOMAIN t : i \in DOMAIN model.turns /\ t[i] = model.turns[i] BY <2>3
    <3>2. ASSUME NEW i \in DOMAIN t, IsReply(t[i]) PROVE ReplySound(i)'
      <4>1. i \in DOMAIN model.turns /\ t[i] = model.turns[i] BY <3>1
      <4>2. ReplySound(i) /\ i > 1 BY <3>2, <4>1 DEF SearchInv, RepliesSound, ReplySound
      <4>3. t[i - 1] = model.turns[i - 1] BY <2>3, <4>2
      <4>4. request[r].slot # i BY <1>1, <2>3
      <4>5. model.turns[i].id[2] \in unheard \/ model.turns[i].state = rows[model.turns[i].id[2]].state
          BY <1>1, <3>2, <4>1, <4>4, ShownRight
      <4> QED BY <1>2, <2>4, <4>1, <4>2, <4>3, <4>5 DEF ReplySound
    <3> QED BY <2>4, <3>1, <3>2 DEF SearchInv, RepliesSound
  <2> QED BY <2>6, <2>7, <2>8, <2>9, <2>10 DEF SearchInv
<1> QED BY <1>4, <1>5

LEMMA RetryAnsweredStep == ASSUME SearchInv, NEW r \in Procs, CS!RetryAnswered(r) PROVE SearchInv'
<1> DEFINE q == request[r]
           id == model.turns[q.slot].id
           turn == IF q.ok THEN CS!AssistantTurn(id, q.mode, q.state) ELSE CS!TransportFailure(id, q.mode)
           t == [model.turns EXCEPT ![q.slot] = turn]
           m2 == model'
<1>1. /\ q \in Request /\ q.at = "answered" /\ q.slot # 0 /\ CS!Ended(r)
      /\ UNCHANGED <<context, rows, drafts, sent, asked, unheard>>
    BY DEF CS!RetryAnswered, SearchInv, SearchShapes
<1>2. /\ model \in Model /\ model.turns \in Seq(SearchTurn) BY DEF SearchInv, SearchShapes, Model
<1>3. AsksAgain(q) BY <1>1 DEF SearchInv, RequestSound
<1>4. q.slot \in DOMAIN model.turns /\ model.turns[q.slot] \in SearchTurn /\ model.turns[q.slot].side = "assistant"
    BY <1>2, <1>3 DEF AsksAgain
<1>5. id \in {"local", "stored"} \X Nat /\ q.mode \in CS!Modes /\ q.state \in CS!States
  <2>1. id \in {"local", "stored"} \X Nat BY <1>4 DEF SearchTurn
  <2> QED BY <1>1, <2>1 DEF Request
<1>6. /\ turn \in SearchTurn /\ turn.side = "assistant" /\ turn.id = id
      /\ turn.state = IF q.ok THEN q.state ELSE "retryable"
  <2> HIDE DEF q, id
  <2> QED BY <1>5 DEF SearchTurn, CS!TransportFailure, CS!AssistantTurn, CS!States
<1>7. m2 = [model EXCEPT !.pending = FALSE, !.turns = t] BY DEF CS!RetryAnswered, CS!InPlace
<1> HIDE DEF turn
<1>8. /\ t \in Seq(SearchTurn) /\ DOMAIN t = DOMAIN model.turns /\ t[q.slot] = turn
      /\ \A j \in DOMAIN model.turns : j # q.slot => t[j] = model.turns[j]
      /\ DOMAIN model.turns = 1..Len(model.turns) /\ Len(model.turns) \in Nat
    BY <1>2, <1>4, <1>6, ReplaceOne
<1>9. m2.turns = t /\ m2.draft = model.draft /\ ~m2.pending /\ m2 \in Model
  <2> HIDE DEF t, m2
  <2>1. m2.turns = t BY <1>2, <1>7 DEF Model
  <2>2. m2.draft = model.draft BY <1>2, <1>7 DEF Model
  <2>3. ~m2.pending BY <1>2, <1>7 DEF Model
  <2>4. m2 \in Model BY <1>2, <1>7, <1>8 DEF Model
  <2> QED BY <2>1, <2>2, <2>3, <2>4
<1> HIDE DEF t
<1>10. /\ OneRequest' /\ request' \in [Procs -> Request]
       /\ \A s \in Procs : request'[s].at = "idle" /\ RequestSound(request[s])'
    BY <1>1, Ends
<1>11. SearchShapes' BY <1>1, <1>9, <1>10 DEF SearchInv, SearchShapes
<1>12. Submissions' BY <1>1, <1>9 DEF SearchInv, Submissions
<1>13. StoredApart' BY <1>1, <1>9 DEF SearchInv, StoredApart, SentAgain
<1>14. \A j \in DOMAIN t : t[j].side = model.turns[j].side /\ t[j].id = model.turns[j].id
    BY <1>4, <1>6, <1>8
<1>15. RepliesSound'
  <2>1. ASSUME NEW i \in DOMAIN t, IsReply(t[i]) PROVE ReplySound(i)'
    <3>1. IsReply(model.turns[i]) /\ i \in DOMAIN model.turns BY <1>8, <1>14, <2>1 DEF IsReply
    <3>2. ReplySound(i) /\ i > 1 BY <3>1 DEF SearchInv, RepliesSound, ReplySound
    <3>3. i - 1 \in DOMAIN t /\ i - 1 # q.slot
      <4>1. i - 1 \in DOMAIN t BY <1>8, <3>1, <3>2
      <4>2. model.turns[i - 1].side = "user" BY <3>2 DEF ReplySound
      <4> QED BY <1>4, <4>1, <4>2
    <3>4. t[i - 1] = model.turns[i - 1] BY <1>8, <3>3
    <3>5. t[i].id[2] \in unheard \/ t[i].state = rows[t[i].id[2]].state
      <4>1. CASE i # q.slot BY <1>1, <1>8, <3>1, <4>1, ShownRight
      <4>2. CASE i = q.slot /\ q.ok
        <5>1. Answered(q) BY <1>1, <4>2 DEF Answered
        <5>2. q.id = id[2] /\ rows[q.id].state = q.state BY <1>3, <5>1 DEF AsksAgain
        <5> QED BY <1>6, <1>8, <4>2, <5>2
      <4>3. CASE i = q.slot /\ ~q.ok
        <5>1. t[i].state = model.turns[i].state BY <1>3, <1>6, <1>8, <4>3 DEF AsksAgain
        <5>2. ASSUME NEW s \in Procs, Answered(request[s]) PROVE FALSE
            BY <1>1, <4>3, <5>2 DEF SearchInv, OneRequest, Answered
        <5>3. model.turns[i].id[2] \in unheard
              \/ model.turns[i].state = rows[model.turns[i].id[2]].state
            BY <3>2, <5>2 DEF ReplySound
        <5> QED BY <1>14, <2>1, <5>1, <5>3
      <4> QED BY <4>1, <4>2, <4>3
    <3> HIDE DEF q, id
    <3> QED BY <1>1, <1>9, <1>14, <2>1, <3>2, <3>4, <3>5 DEF ReplySound
  <2> QED BY <1>8, <1>9, <1>14, <2>1 DEF SearchInv, RepliesSound, IsReply
<1> QED BY <1>10, <1>11, <1>12, <1>13, <1>15 DEF SearchInv

\* Every step keeps the invariant, and it says what is promised.
LEMMA SearchStep == ASSUME SearchInv, CS!Next PROVE SearchInv'
<1>1. CASE CS!SetDraft \/ CS!PrefillSuggestion \/ \E way \in CS!Modes : CS!SetMode(way) BY <1>1, ComposerSteps
<1>2. CASE \E r \in Procs : CS!SubmitTurn(r) BY <1>2, SubmitStep
<1>3. CASE \E r \in Procs : CS!RetryTurn(r) BY <1>3, RetryStep
<1>4. CASE \E r \in Procs : CS!Accepts(r) BY <1>4, AcceptsStep
<1>5. CASE \E r \in Procs : CS!Fails(r) BY <1>5, SearchFailsStep
<1>6. CASE \E r \in Procs : CS!TurnAnswered(r) BY <1>6, TurnStep
<1>7. CASE \E r \in Procs : CS!TurnFailed(r) BY <1>7, SearchTurnFailedStep
<1>8. CASE \E r \in Procs : CS!RetryAnswered(r) BY <1>8, RetryAnsweredStep
<1> QED BY <1>1, <1>2, <1>3, <1>4, <1>5, <1>6, <1>7, <1>8 DEF CS!Next

LEMMA SearchUnchanged == ASSUME SearchInv, UNCHANGED CS!sessionVars PROVE SearchInv'
<1>1. UNCHANGED <<model, context, rows, request, drafts, sent, asked, unheard>> BY DEF CS!sessionVars
<1>2. SearchShapes' /\ OneRequest' /\ Submissions' BY <1>1 DEF SearchInv, SearchShapes, OneRequest, Submissions
<1>3. StoredApart' BY <1>1 DEF SearchInv, StoredApart, SentAgain
<1>4. RepliesSound' BY <1>1 DEF SearchInv, RepliesSound, ReplySound
<1>5. ASSUME NEW r \in Procs PROVE RequestSound(request[r])'
    BY <1>1 DEF SearchInv, RequestSound, AsksNew, AsksAgain, SentAgain
<1> QED BY <1>2, <1>3, <1>4, <1>5 DEF SearchInv

LEMMA SearchHolds == ASSUME SearchInv PROVE CS!StoredOnce /\ CS!ShownAsStored
<1>1. CS!StoredOnce BY DEF CS!StoredOnce, SearchInv, StoredApart
<1>2. ASSUME NEW i \in DOMAIN model.turns, IsReply(model.turns[i]), CS!Quiet, model.turns[i].id[2] \notin unheard
      PROVE  model.turns[i].state = rows[model.turns[i].id[2]].state
  <2>1. \A r \in Procs : request[r].at = "idle" BY <1>2, NoRequestIs DEF CS!Quiet
  <2>2. ReplySound(i) BY <1>2 DEF SearchInv, RepliesSound
  <2> QED BY <1>2, <2>1, <2>2 DEF ReplySound, Answered
<1>3. \A i \in DOMAIN model.turns : IsReply(model.turns[i]) => ReplySound(i) BY DEF SearchInv, RepliesSound
<1> QED BY <1>1, <1>2, <1>3 DEF CS!ShownAsStored, IsReply, ReplySound

-----------------------------------------------------------------------------
(* The chat page (ChatClient).  The part's variables, by their names       *)
(* there.                                                                  *)

store == v1
shown == v2
listed == v3
draft == v5
sending == v6
toast == v11
timers == v12
calls == v13
typed == v14
asks == v15
chosen == v17
last == v18
excuses == v19
USE DEF store, shown, listed, draft, sending, toast, timers, calls, typed, asks, chosen, last, excuses

CallFields == {"kind", "at", "conv", "key", "prompt", "seen", "owner", "place", "reply"}
ReplyFields == {"out", "thread", "rows", "cursor", "first"}
Ids == Convs \cup {None}
Threads == [id : Convs, turns : Seq(CC!Turn)] \cup {CC!NoThread}
Reads == {"submit", "retry", "select", "reload"}
OfOne == {"select", "delete", "undo", "retry", "reload"}
Light == {"none", "load", "more", "select", "delete", "undo"}
Heavy == {"submit", "retry", "relist", "reload"}

Ok(m) == m.at = "answered" /\ m.reply.out = "ok"
ReplyShape(y) == DOMAIN y = ReplyFields /\ y.thread \in Threads /\ y.rows \subseteq Convs /\ y.first \in Ids
CallShape(m, n) ==
    /\ DOMAIN m = CallFields /\ m.kind \in Light \cup Heavy /\ m.conv \in Ids /\ m.place \in Ids
    /\ m.seen \in Threads /\ ReplyShape(m.reply)
    /\ m.kind = "none" <=> m.at = "idle"
    /\ m.kind = "submit" => m.key \in 1..n /\ m.prompt \in 1..MaxPrompts /\ m.owner = "submit"
    /\ m.kind \in Light => m.owner = "none"
    /\ m.at = "working" => m.kind \in {"submit", "retry"} /\ m.place \in Convs
    /\ m.at # "answered" => m.reply.out = "none"
    /\ m.kind \in OfOne => m.conv \in Convs
    /\ Ok(m) /\ m.kind \in Reads => m.reply.thread.id \in Convs

Stages == {"absent", "active", "deleted", "expired"}
ChatShapes ==
    /\ store \in [Convs -> [stage : Stages, age : Nat, turns : Seq(CC!Turn)]]
    /\ shown \in Threads /\ listed \subseteq Convs /\ toast \in Ids /\ last \in Ids
    /\ typed \in Nat /\ asks \in Nat /\ asks <= MaxAsks /\ typed <= MaxPrompts /\ draft \in 0..typed
    /\ DOMAIN calls = Procs /\ \A s \in Procs : CallShape(calls[s], asks)

\* One submission at a time, and the composer knows.
OneSender ==
    /\ \A s \in Procs : calls[s].owner = "submit" => sending
    /\ \A s, t \in Procs : calls[s].owner = "submit" /\ calls[t].owner = "submit" => s = t

\* Within a conversation, a key belongs to one turn.
KeysApart ==
    /\ \A c \in Convs : \A i, j \in DOMAIN store[c].turns : store[c].turns[i].key = store[c].turns[j].key => i = j
    /\ \A c \in Convs : \A i \in DOMAIN store[c].turns : store[c].turns[i].key <= asks
    /\ \A s \in Procs : calls[s].kind = "submit" /\ calls[s].at = "sent" =>
          \A c \in Convs : \A i \in DOMAIN store[c].turns : store[c].turns[i].key # calls[s].key

\* A prompt that is stored is in the composer only while its call goes on.
Prompted(p) == \E c \in Convs : \E i \in DOMAIN store[c].turns : store[c].turns[i].prompt = p
Placed(m) == m.kind = "submit" /\ m.at # "sent" /\ m.reply.out # "error"
Unplaced(m) == m.kind = "submit" /\ (m.at = "sent" \/ m.reply.out = "error")
PromptsApart ==
    \A c, d \in Convs : \A i \in DOMAIN store[c].turns, j \in DOMAIN store[d].turns :
        store[c].turns[i].prompt = store[d].turns[j].prompt => c = d /\ i = j
PromptsKnown ==
    /\ \A c \in Convs : \A i \in DOMAIN store[c].turns : store[c].turns[i].prompt <= typed
    /\ \A s \in Procs : calls[s].kind = "submit" => calls[s].prompt <= typed
PromptsOnce ==
    "unanswered" \notin excuses =>
        /\ PromptsApart
        /\ \A s \in Procs : Unplaced(calls[s]) => ~Prompted(calls[s].prompt)
        /\ draft # 0 /\ Prompted(draft) => \E s \in Procs : Placed(calls[s])

SendInv == OneSender /\ KeysApart /\ PromptsKnown /\ PromptsOnce

\* One call that navigates at a time, from the conversation that is shown.
NavAlone ==
    "overtaken" \notin excuses =>
        /\ \A s, t \in Procs : calls[s].kind \in CC!Navigates /\ calls[t].kind \in CC!Navigates => s = t
        /\ \A s \in Procs : calls[s].kind = "submit" => calls[s].seen.id = shown.id

Waits(turns) == \E i \in DOMAIN turns : turns[i].status = "pending"
Newest(c) == store[c].stage = "active" /\ \A d \in Convs \ {c} : store[d].stage = "active" => store[d].age < store[c].age
TurnCall(m) ==
    /\ m.conv = shown.id /\ m.conv = chosen
    /\ m.at = "working" \/ (m.at = "answered" /\ m.reply.out \in {"ok", "failed"} /\ m.kind = "submit") =>
          m.place \in Convs /\ (m.conv # None => m.place = m.conv)
    /\ Ok(m) => m.reply.thread.id = IF m.kind = "submit" THEN m.place ELSE m.conv
SubmitCall(m) ==
    /\ ~Waits(m.seen.turns)
    /\ m.at = "answered" /\ m.reply.out = "failed" /\ m.conv = None => Newest(m.place)
ReloadCall(m) ==
    /\ shown.id = chosen /\ m.conv = (IF chosen = None THEN m.place ELSE chosen)
    /\ Ok(m) => m.reply.thread.id = m.conv
RelistCall(m) ==
    /\ shown = CC!NoThread /\ chosen = None /\ m.place \in Convs
    /\ m.at = "sent" => Newest(m.place)
    /\ Ok(m) => m.reply.first = m.place
NavCall(m) ==
    /\ m.kind \in {"submit", "retry"} => TurnCall(m)
    /\ m.kind = "submit" => SubmitCall(m)
    /\ m.kind = "reload" => ReloadCall(m)
    /\ m.kind = "relist" => RelistCall(m)
    /\ Ok(m) /\ m.kind \in Reads => ~Waits(m.reply.thread.turns)

PendingAtWork ==
    \A c \in Convs : \A i \in DOMAIN store[c].turns : store[c].turns[i].status = "pending" =>
        \E s \in Procs : calls[s].at = "working" /\ calls[s].place = c /\ calls[s].key = store[c].turns[i].key
Excused(es) == excuses \cap es # {}
Astray == {"overtaken", "unread", "unanswered"}
NavInv ==
    /\ "adrift" \in excuses => "unanswered" \in excuses
    /\ NavAlone
    /\ ~Excused(Astray) =>
        /\ PendingAtWork
        /\ \A s \in Procs : NavCall(calls[s])
        /\ Waits(shown.turns) => \E s \in Procs : calls[s].kind \in {"submit", "retry", "reload"}
        /\ (\A s \in Procs : calls[s].kind \notin CC!Navigates) => shown.id = chosen

\* What is deleted: the page is about to hear of it.
IsActive(c) == c \in Convs /\ store[c].stage = "active"
Deleting(c) == \E s \in Procs : calls[s].kind = "delete" /\ calls[s].conv = c /\ Ok(calls[s])
Astern == {"listing", "overtaken", "unsaid", "undoing"}
DeleteInv ==
    /\ toast \in {None, last} /\ timers \subseteq {toast}
    /\ Excused({"undoing"}) \/ \A s \in Procs : calls[s].kind = "undo" => calls[s].conv = last
    /\ Excused({"undoing", "unsaid"}) \/
         /\ last # None /\ store[last].stage = "deleted" => toast = last \/ Deleting(last)
         /\ \A s \in Procs : calls[s].kind = "undo" /\ Ok(calls[s]) => IsActive(calls[s].conv) \/ Deleting(calls[s].conv)
    /\ Excused({"listing"}) \/ \A s \in Procs : calls[s].kind \in CC!Lists /\ Ok(calls[s]) =>
             /\ \A c \in calls[s].reply.rows : IsActive(c)
             /\ calls[s].kind \in Reads => IsActive(calls[s].reply.thread.id)
    /\ Excused({"overtaken"}) \/ \A s \in Procs : calls[s].kind = "select" /\ Ok(calls[s]) =>
             IsActive(calls[s].reply.thread.id)
    /\ Excused(Astern) \/ \A c \in (listed \cup {shown.id}) \ {None} : IsActive(c) \/ Deleting(c)

ChatInv == ChatShapes /\ SendInv /\ NavInv /\ DeleteInv

LEMMA ChatConstants ==
    /\ IsFiniteSet(Convs) /\ None \notin Convs /\ {PageSize, MaxPrompts, MaxAsks, MaxFaults} \subseteq Nat
    /\ PageSize > 0 /\ Existing \subseteq Convs
<1>1. \A S : CC!IsFiniteSet(S) = IsFiniteSet(S) BY DEF CC!IsFiniteSet, IsFiniteSet
<1> QED BY <1>1, FrontendConstants DEF CC!ClientConstants

\* Of some conversations one was used last.
LEMMA HasNewest ==
    ASSUME NEW S \in SUBSET Convs, S # {}, NEW age, \A c \in S : age[c] \in Nat
    PROVE  \E c \in S : \A d \in S : age[d] <= age[c]
<1> DEFINE Later(c) == {d \in S : age[d] > age[c]}
           Counts == {Cardinality(Later(c)) : c \in S}
<1>1. IsFiniteSet(S) BY ChatConstants, FS_Subset
<1>2. \A c \in S : Later(c) \subseteq S /\ IsFiniteSet(Later(c)) BY <1>1, FS_Subset
<1>3. \A c \in S : Cardinality(Later(c)) \in Nat BY <1>2, FS_CardinalityType
<1>4. Counts \in SUBSET Nat /\ Counts # {} BY <1>3
<1>5. PICK n \in Counts : \A k \in Counts : n <= k
  <2> HIDE DEF Counts
  <2> QED BY <1>4, Least
<1>6. PICK c \in S : n = Cardinality(Later(c)) OBVIOUS
<1>7. ASSUME NEW d \in S, age[d] > age[c] PROVE FALSE
  <2>1. Later(d) \subseteq Later(c) /\ d \in Later(c) /\ d \notin Later(d)
      BY <1>7
  <2>2. Later(d) # Later(c) BY <2>1
  <2>3. Cardinality(Later(d)) < Cardinality(Later(c))
    <3> DEFINE A == Later(c)
               B == Later(d)
    <3>1. IsFiniteSet(A) /\ B \in SUBSET A /\ B # A BY <1>2, <2>1, <2>2
    <3>2. Cardinality(A) \in Nat /\ Cardinality(B) \in Nat BY <1>3
    <3> HIDE DEF A, B
    <3>3. Cardinality(B) < Cardinality(A) BY <3>1, <3>2, FS_Subset
    <3> QED BY <3>3 DEF A, B
  <2>4. n <= Cardinality(Later(d)) BY <1>5
  <2> QED BY <1>3, <1>6, <2>3, <2>4
<1> QED BY <1>7

-----------------------------------------------------------------------------
(* What a call is made of. *)

LEMMA NoReplyIs ==
    LET y == CC!NoReply IN
    /\ DOMAIN y = ReplyFields /\ ReplyShape(y) /\ y.out = "none" /\ y.thread = CC!NoThread
    /\ y.rows = {} /\ y.first = None
BY DEF CC!NoReply, ReplyFields, ReplyShape, Threads, Ids

LEMMA ErrorIs == LET y == CC!Error IN ReplyShape(y) /\ y.out = "error"
BY NoReplyIs DEF CC!Error, ReplyShape, ReplyFields

LEMMA NoCallIs ==
    LET m == CC!NoCall IN
    /\ DOMAIN m = CallFields /\ m.kind = "none" /\ m.at = "idle" /\ m.conv = None /\ m.key = 0 /\ m.prompt = 0
    /\ m.seen = CC!NoThread /\ m.owner = "none" /\ m.place = None /\ m.reply = CC!NoReply
BY DEF CC!NoCall, CallFields

LEMMA NoThreadIs == CC!NoThread.id = None /\ CC!NoThread.turns = <<>> /\ CC!NoThread \in Threads
BY DEF CC!NoThread, Threads

\* A thread is shown under the id of its conversation.
LEMMA ThreadIs ==
    ASSUME NEW h \in Threads
    PROVE  /\ h.id \in Ids /\ h.turns \in Seq(CC!Turn)
           /\ h.id = None => h = CC!NoThread /\ ~Waits(h.turns)
           /\ h.id # None => h \in [id : Convs, turns : Seq(CC!Turn)]
<1>1. h \in [id : Convs, turns : Seq(CC!Turn)] \/ h = CC!NoThread BY DEF Threads
<1>2. CASE h = CC!NoThread BY <1>2, NoThreadIs DEF Ids, Waits
<1>3. CASE h \in [id : Convs, turns : Seq(CC!Turn)] BY <1>3, ChatConstants DEF Ids
<1> QED BY <1>1, <1>2, <1>3

Opened(m, kind, c) ==
    /\ DOMAIN m = CallFields /\ m.kind = kind /\ m.at = "sent" /\ m.conv = c /\ m.seen = shown
    /\ m.reply = CC!NoReply

LEMMA CallIs ==
    ASSUME NEW kind, NEW c
    PROVE  LET m == CC!Call(kind, c) IN
           /\ Opened(m, kind, c) /\ m.key = 0 /\ m.prompt = 0 /\ m.owner = "none" /\ m.place = None
<1>1. \A m : DOMAIN m = CallFields => LET k == [m EXCEPT !.kind = kind, !.at = "sent", !.conv = c, !.seen = shown] IN
           /\ DOMAIN k = CallFields /\ k.kind = kind /\ k.at = "sent" /\ k.conv = c /\ k.seen = shown
           /\ k.reply = m.reply /\ k.key = m.key /\ k.prompt = m.prompt /\ k.owner = m.owner /\ k.place = m.place
    BY DEF CallFields
<1> QED BY <1>1, NoCallIs DEF CC!Call, Opened

\* The calls of all others stay.
OnlyCall(s) == DOMAIN calls' = Procs /\ \A t \in Procs : t # s => calls'[t] = calls[t]

LEMMA PutCall ==
    ASSUME DOMAIN calls = Procs, NEW s \in Procs, NEW m, calls' = [calls EXCEPT ![s] = m]
    PROVE  OnlyCall(s) /\ calls'[s] = m
BY DEF OnlyCall

\* A call is answered; it goes on with another one; it is over.
Answers(s, y) ==
    /\ OnlyCall(s) /\ DOMAIN calls'[s] = DOMAIN calls[s] /\ calls'[s].at = "answered" /\ calls'[s].reply = y
    /\ calls'[s].kind = calls[s].kind /\ calls'[s].conv = calls[s].conv /\ calls'[s].key = calls[s].key
    /\ calls'[s].prompt = calls[s].prompt /\ calls'[s].seen = calls[s].seen /\ calls'[s].owner = calls[s].owner
    /\ calls'[s].place = calls[s].place
Follows(s, kind, c) ==
    /\ OnlyCall(s) /\ Opened(calls'[s], kind, c)
    /\ calls'[s].key = calls[s].key /\ calls'[s].owner = calls[s].owner /\ calls'[s].place = calls[s].place
Finishes(s) == OnlyCall(s) /\ calls'[s] = CC!NoCall

LEMMA Replied ==
    ASSUME ChatShapes, NEW s \in Procs, NEW y, CC!Replies(s, y)
    PROVE  Answers(s, y)
<1>1. DOMAIN calls = Procs /\ DOMAIN calls[s] = CallFields BY DEF ChatShapes, CallShape
<1>2. calls' = [calls EXCEPT ![s] = [calls[s] EXCEPT !.at = "answered", !.reply = y]]
    BY <1>1 DEF CC!Replies
<1> DEFINE m == [calls[s] EXCEPT !.at = "answered", !.reply = y]
<1>3. /\ DOMAIN m = CallFields /\ m.at = "answered" /\ m.reply = y /\ m.kind = calls[s].kind
      /\ m.conv = calls[s].conv /\ m.key = calls[s].key /\ m.prompt = calls[s].prompt /\ m.seen = calls[s].seen
      /\ m.owner = calls[s].owner /\ m.place = calls[s].place
    BY <1>1 DEF CallFields
<1> HIDE DEF m
<1>4. OnlyCall(s) /\ calls'[s] = m BY <1>1, <1>2, PutCall DEF m
<1> QED BY <1>1, <1>3, <1>4 DEF Answers

LEMMA GoesOnWith ==
    ASSUME ChatShapes, NEW s \in Procs, NEW kind, NEW c, CC!Then(s, kind, c)
    PROVE  Follows(s, kind, c)
<1>1. DOMAIN calls = Procs BY DEF ChatShapes
<1> DEFINE k == CC!Call(kind, c)
           m == [k EXCEPT !.owner = calls[s].owner, !.place = calls[s].place, !.key = calls[s].key]
<1>2. calls' = [calls EXCEPT ![s] = m] BY DEF CC!Then
<1>3. Opened(k, kind, c) BY CallIs
<1> HIDE DEF k
<1>4. Opened(m, kind, c) /\ m.owner = calls[s].owner /\ m.place = calls[s].place /\ m.key = calls[s].key
    BY <1>3 DEF Opened, CallFields
<1> HIDE DEF m
<1>5. OnlyCall(s) /\ calls'[s] = m BY <1>1, <1>2, PutCall
<1> QED BY <1>4, <1>5 DEF Follows

LEMMA Finished ==
    ASSUME ChatShapes, NEW s \in Procs, CC!Done(s)
    PROVE  Finishes(s)
<1>1. DOMAIN calls = Procs BY DEF ChatShapes
<1> QED BY <1>1 DEF CC!Done, CC!Ended, Finishes, OnlyCall

-----------------------------------------------------------------------------
(* What the server answers. *)

LEMMA NowIs ==
    ASSUME ChatShapes, Convs # {}
    PROVE  CC!Now \in Nat /\ \A c \in Convs : store[c].age < CC!Now
<1> DEFINE age == [c \in Convs |-> store[c].age]
           ages == {store[c].age : c \in Convs}
<1>1. \A c \in Convs : age[c] = store[c].age /\ store[c].age \in Nat BY DEF ChatShapes
<1>2. PICK c \in Convs : \A d \in Convs : age[d] <= age[c]
  <2> HIDE DEF age
  <2> QED BY <1>1, HasNewest
<1>3. \E m \in ages : \A d \in Convs : store[d].age <= m BY <1>1, <1>2
<1> DEFINE top == CHOOSE m \in ages : \A d \in Convs : store[d].age <= m
<1>4. top \in ages /\ \A d \in Convs : store[d].age <= top
  <2> HIDE DEF ages
  <2> QED BY <1>3
<1>5. top \in Nat BY <1>1, <1>4
<1>6. CC!Now = 1 + top BY DEF CC!Now
<1> HIDE DEF top
<1> QED BY <1>1, <1>4, <1>5, <1>6

LEMMA ActiveIs == \A c : c \in CC!Active <=> IsActive(c)
BY DEF CC!Active, IsActive

LEMMA DetailIs ==
    ASSUME ChatShapes, NEW c \in Convs
    PROVE  LET y == CC!Detail(c) IN
           /\ ReplyShape(y) /\ y.out \in {"ok", "error"} /\ y.rows = {}
           /\ y.out = "ok" => y.thread.id = c /\ y.thread.turns = store[c].turns /\ IsActive(c)
<1> DEFINE h == CC!Thread(c)
           z == [CC!NoReply EXCEPT !.out = "ok", !.thread = h]
<1>1. h \in Threads /\ h.id = c /\ h.turns = store[c].turns BY DEF CC!Thread, Threads, ChatShapes
<1> HIDE DEF h
<1>2. ReplyShape(z) /\ z.out = "ok" /\ z.thread = h /\ z.rows = {}
    BY <1>1, NoReplyIs DEF ReplyShape, ReplyFields
<1>3. CC!Error.rows = {} BY NoReplyIs DEF CC!Error, ReplyFields
<1>4. CC!Detail(c) = IF store[c].stage = "active" THEN z ELSE CC!Error BY DEF CC!Detail, h
<1> HIDE DEF z
<1>5. CASE store[c].stage = "active" BY <1>1, <1>2, <1>4, <1>5 DEF IsActive
<1>6. CASE store[c].stage # "active" BY <1>3, <1>4, <1>6, ErrorIs
<1> QED BY <1>5, <1>6

\* The row of the conversation used last comes first.
LEMMA PageIs ==
    ASSUME ChatShapes, NEW n
    PROVE  LET y == CC!Page(n) IN
           /\ ReplyShape(y) /\ y.out = "ok" /\ \A c \in y.rows : IsActive(c)
           /\ n = 0 => \A c \in Convs : Newest(c) => y.first = c
<1> DEFINE below == {c \in CC!Below(n) : CC!Cardinality(CC!Newer(c, CC!Below(n))) < PageSize}
           newest == {c \in below : CC!Newer(c, below) = {}}
           first == IF below = {} THEN None ELSE CHOOSE c \in newest : TRUE
           y == CC!Page(n)
<1>1. below \subseteq CC!Active /\ below \subseteq Convs BY DEF CC!Below, CC!Active
<1>2. /\ DOMAIN y = ReplyFields /\ y.out = "ok" /\ y.thread = CC!NoThread /\ y.rows = below /\ y.first = first
    BY NoReplyIs DEF CC!Page, ReplyFields
<1>3. below # {} => newest # {}
  <2>1. SUFFICES ASSUME below # {} PROVE newest # {} OBVIOUS
  <2> DEFINE age == [c \in Convs |-> store[c].age]
  <2>2. \A c \in Convs : age[c] = store[c].age /\ store[c].age \in Nat BY DEF ChatShapes
  <2>3. \E c \in below : \A d \in below : age[d] <= age[c]
    <3>1. below \in SUBSET Convs /\ \A c \in below : age[c] \in Nat BY <1>1, <2>2
    <3> HIDE DEF below, age
    <3> QED BY <2>1, <3>1, HasNewest
  <2>4. PICK c \in below : \A d \in below : store[d].age <= store[c].age BY <1>1, <2>2, <2>3
  <2> HIDE DEF below
  <2>5. CC!Newer(c, below) = {} BY <1>1, <2>2, <2>4 DEF CC!Newer
  <2> QED BY <2>5
<1>4. first \in Ids
  <2> HIDE DEF below
  <2>1. newest \subseteq Convs BY <1>1
  <2> HIDE DEF newest
  <2> QED BY <1>3, <2>1 DEF Ids
<1>5. ASSUME n = 0, NEW c \in Convs, Newest(c) PROVE first = c
  <2>1. CC!Below(n) = CC!Active BY <1>5 DEF CC!Below
  <2>2. CC!Newer(c, CC!Active) = {}
    <3>1. \A d \in Convs : store[d].age \in Nat BY DEF ChatShapes
    <3> QED BY <3>1, <1>5 DEF CC!Newer, CC!Active, Newest
  <2>3. CC!Cardinality({}) = 0
    <3>1. CC!Cardinality({}) = Cardinality({}) BY DEF CC!Cardinality, Cardinality
    <3> QED BY <3>1, FS_EmptySet
  <2>4. c \in below
    <3>1. c \in CC!Active BY <1>5 DEF CC!Active, Newest
    <3>2. CC!Cardinality(CC!Newer(c, CC!Below(n))) = 0 BY <2>1, <2>2, <2>3
    <3>3. 0 < PageSize BY ChatConstants
    <3> QED BY <2>1, <3>1, <3>2, <3>3
  <2>5. ASSUME NEW d \in below, d # c PROVE c \in CC!Newer(d, below)
    <3>1. store[d].age < store[c].age BY <1>1, <1>5, <2>5 DEF Newest, CC!Active
    <3>2. store[d].age \in Nat /\ store[c].age \in Nat BY <1>1 DEF ChatShapes
    <3> HIDE DEF below
    <3> QED BY <2>4, <3>1, <3>2 DEF CC!Newer
  <2>6. CC!Newer(c, below) = {}
    <3> HIDE DEF below
    <3> QED BY <1>1, <2>2 DEF CC!Newer
  <2> HIDE DEF below
  <2>7. newest = {c} BY <2>4, <2>5, <2>6
  <2> HIDE DEF newest
  <2> QED BY <2>4, <2>7
<1> HIDE DEF first, newest
<1>6. ReplyShape(y) BY <1>1, <1>2, <1>4, NoThreadIs DEF ReplyShape
<1> HIDE DEF below
<1> QED BY <1>1, <1>2, <1>5, <1>6, ActiveIs

-----------------------------------------------------------------------------
(* What the steps have in common.  Calls keep their shape. *)

LEMMA CallsShaped ==
    ASSUME ChatShapes, NEW s \in Procs, OnlyCall(s), CallShape(calls'[s], asks'), asks' \in Nat, asks <= asks'
    PROVE  DOMAIN calls' = Procs /\ \A t \in Procs : CallShape(calls'[t], asks')
<1>1. \A t \in Procs : CallShape(calls[t], asks') BY DEF ChatShapes, CallShape
<1> QED BY <1>1 DEF OnlyCall

LEMMA EmptyShaped == ASSUME NEW n PROVE CallShape(CC!NoCall, n)
BY NoCallIs, NoReplyIs, NoThreadIs DEF CallShape, Light, Heavy, Ids, OfOne, Ok, Reads

LEMMA OpenedShaped ==
    ASSUME ChatShapes, NEW n, NEW m, NEW kind \in Light \cup Heavy, NEW c \in Ids, Opened(m, kind, c), kind # "none",
           m.place \in Ids, kind \in OfOne => c \in Convs, kind \in Light => m.owner = "none",
           kind = "submit" => m.key \in 1..n /\ m.prompt \in 1..MaxPrompts /\ m.owner = "submit"
    PROVE  CallShape(m, n)
BY NoReplyIs DEF CallShape, Opened, ChatShapes, Ok

LEMMA AnsweredShaped ==
    ASSUME ChatShapes, NEW s \in Procs, NEW y, Answers(s, y), ReplyShape(y), calls[s].at # "idle",
           y.out = "ok" /\ calls[s].kind \in Reads => y.thread.id \in Convs
    PROVE  CallShape(calls'[s], asks)
BY DEF CallShape, Answers, ChatShapes, Ok

LEMMA FollowsShaped ==
    ASSUME ChatShapes, NEW s \in Procs, NEW kind \in {"relist", "reload"}, NEW c \in Ids, Follows(s, kind, c),
           kind = "reload" => c \in Convs
    PROVE  CallShape(calls'[s], asks)
<1>1. calls[s].place \in Ids BY DEF ChatShapes, CallShape
<1> QED BY <1>1, OpenedShaped DEF Follows, Light, Heavy, OfOne

\* No call sends anything: the sender and what is stored stay.
LightCall(m) == m.kind \in Light /\ m.owner = "none"
LightSteps ==
    /\ DOMAIN calls' = Procs
    /\ \A t \in Procs : calls'[t] = calls[t] \/ (LightCall(calls[t]) /\ LightCall(calls'[t]))
TurnsStay ==
    \A c \in Convs : /\ DOMAIN store'[c].turns = DOMAIN store[c].turns
                     /\ \A i \in DOMAIN store[c].turns : /\ store'[c].turns[i].key = store[c].turns[i].key
                                                         /\ store'[c].turns[i].prompt = store[c].turns[i].prompt

LEMMA LightCalls == ASSUME ChatShapes, NEW s \in Procs, calls[s].kind \in Light PROVE LightCall(calls[s])
BY DEF LightCall, ChatShapes, CallShape

LEMMA StoreStays ==
    ASSUME SendInv, ChatShapes, TurnsStay, asks \in Nat, asks' \in Nat, asks <= asks', typed' = typed
    PROVE  /\ \A c \in Convs : \A i, j \in DOMAIN store'[c].turns :
                 store'[c].turns[i].key = store'[c].turns[j].key => i = j
           /\ \A c \in Convs : \A i \in DOMAIN store'[c].turns : store'[c].turns[i].key <= asks'
           /\ PromptsApart => PromptsApart'
           /\ \A c \in Convs : \A i \in DOMAIN store'[c].turns : store'[c].turns[i].prompt <= typed'
<1>1. \A c \in Convs : \A i \in DOMAIN store[c].turns : store[c].turns[i].key \in Nat
  <2>1. ASSUME NEW c \in Convs, NEW i \in DOMAIN store[c].turns PROVE store[c].turns[i].key \in Nat
    <3>1. store[c].turns \in Seq(CC!Turn) BY DEF ChatShapes
    <3>2. store[c].turns[i] \in CC!Turn BY <3>1
    <3> QED BY <3>2, ChatConstants DEF CC!Turn
  <2> QED BY <2>1
<1>2. \A c \in Convs : \A i \in DOMAIN store'[c].turns : store'[c].turns[i].key <= asks'
    BY <1>1 DEF SendInv, KeysApart, TurnsStay
<1>3. \A c \in Convs : \A i, j \in DOMAIN store'[c].turns : store'[c].turns[i].key = store'[c].turns[j].key => i = j
    BY DEF SendInv, KeysApart, TurnsStay
<1>4. PromptsApart => PromptsApart' BY DEF PromptsApart, TurnsStay
<1>5. \A c \in Convs : \A i \in DOMAIN store'[c].turns : store'[c].turns[i].prompt <= typed'
    BY DEF SendInv, PromptsKnown, TurnsStay
<1> QED BY <1>2, <1>3, <1>4, <1>5

LEMMA SendLight ==
    ASSUME ChatShapes, SendInv, LightSteps, TurnsStay, asks' \in Nat, asks <= asks', typed' = typed,
           draft' \in {0, draft}, sending' = sending, excuses \subseteq excuses'
    PROVE  SendInv'
<1>1. \A t \in Procs : calls'[t].owner = "submit" \/ calls'[t].kind = "submit" \/ calls[t].kind = "submit"
                       => calls'[t] = calls[t]
    BY DEF LightSteps, LightCall, Light
<1>2. asks \in Nat BY DEF ChatShapes
<1>3. OneSender' BY <1>1 DEF SendInv, OneSender
<1>4. KeysApart'
  <2>1. ASSUME NEW t \in Procs, calls'[t].kind = "submit", calls'[t].at = "sent", NEW c \in Convs,
               NEW i \in DOMAIN store'[c].turns
        PROVE  store'[c].turns[i].key # calls'[t].key
      BY <1>1, <2>1 DEF SendInv, KeysApart, TurnsStay
  <2> QED BY <1>2, <2>1, StoreStays DEF KeysApart
<1>5. PromptsKnown' BY <1>1, <1>2, StoreStays DEF SendInv, PromptsKnown
<1>6. PromptsOnce'
  <2>1. SUFFICES ASSUME "unanswered" \notin excuses' PROVE PromptsOnce' BY DEF PromptsOnce
  <2>2. "unanswered" \notin excuses BY <2>1
  <2>3. PromptsApart' BY <1>2, <2>2, StoreStays DEF SendInv, PromptsOnce
  <2>4. ASSUME NEW t \in Procs, Unplaced(calls'[t]) PROVE ~Prompted(calls[t].prompt)'
    <3>1. calls'[t] = calls[t] BY <1>1, <2>4 DEF Unplaced
    <3>2. ~Prompted(calls[t].prompt) BY <2>2, <2>4, <3>1 DEF SendInv, PromptsOnce
    <3> QED BY <3>1, <3>2 DEF Prompted, TurnsStay
  <2>5. ASSUME draft' # 0, Prompted(draft)' PROVE \E t \in Procs : Placed(calls'[t])
    <3>1. draft' = draft /\ Prompted(draft) BY <2>5 DEF Prompted, TurnsStay
    <3>2. PICK t \in Procs : Placed(calls[t]) BY <2>2, <2>5, <3>1 DEF SendInv, PromptsOnce
    <3>3. calls'[t] = calls[t] BY <1>1, <3>2 DEF Placed
    <3> QED BY <3>2, <3>3
  <2> QED BY <2>3, <2>4, <2>5 DEF PromptsOnce
<1> QED BY <1>3, <1>4, <1>5, <1>6 DEF SendInv

\* One call goes on, and its submission with it.
SendsOn(s) ==
    /\ OnlyCall(s)
    /\ sending' = sending \/ (calls[s].owner = "submit" /\ calls'[s].owner # "submit")
    /\ calls'[s].owner = "submit" => calls[s].owner = "submit"
    /\ calls'[s].kind = "submit" => /\ calls[s].kind = "submit" /\ calls'[s].key = calls[s].key
                                    /\ calls'[s].prompt = calls[s].prompt
                                    /\ calls'[s].at = "sent" => calls[s].at = "sent"
    /\ "unanswered" \notin excuses' => /\ Unplaced(calls'[s]) => Unplaced(calls[s])
                                       /\ Placed(calls[s]) /\ draft' # 0 => Placed(calls'[s])

LEMMA SendHeavy ==
    ASSUME ChatShapes, SendInv, NEW s \in Procs, SendsOn(s), TurnsStay, asks' \in Nat, asks <= asks', typed' = typed,
           draft' \in {0, draft}, excuses \subseteq excuses'
    PROVE  SendInv'
<1>1. \A t \in Procs : t # s => calls'[t] = calls[t] BY DEF SendsOn, OnlyCall
<1>2. asks \in Nat BY DEF ChatShapes
<1>3. OneSender' BY <1>1 DEF SendInv, OneSender, SendsOn
<1>4. KeysApart'
  <2>1. ASSUME NEW t \in Procs, calls'[t].kind = "submit", calls'[t].at = "sent", NEW c \in Convs,
               NEW i \in DOMAIN store'[c].turns
        PROVE  store'[c].turns[i].key # calls'[t].key
    <3>1. calls[t].kind = "submit" /\ calls[t].at = "sent" /\ calls'[t].key = calls[t].key
        BY <1>1, <2>1 DEF SendsOn
    <3> QED BY <2>1, <3>1 DEF SendInv, KeysApart, TurnsStay
  <2> QED BY <1>2, <2>1, StoreStays DEF KeysApart
<1>5. PromptsKnown'
  <2>1. \A t \in Procs : calls'[t].kind = "submit" => calls'[t].prompt <= typed'
      BY <1>1 DEF SendInv, PromptsKnown, SendsOn
  <2> QED BY <1>2, <2>1, StoreStays DEF PromptsKnown
<1>6. PromptsOnce'
  <2>1. SUFFICES ASSUME "unanswered" \notin excuses' PROVE PromptsOnce' BY DEF PromptsOnce
  <2>2. "unanswered" \notin excuses BY <2>1
  <2>3. PromptsApart' BY <1>2, <2>2, StoreStays DEF SendInv, PromptsOnce
  <2>4. ASSUME NEW t \in Procs, Unplaced(calls'[t]) PROVE ~Prompted(calls[t].prompt)'
    <3>1. Unplaced(calls[t]) /\ calls'[t].prompt = calls[t].prompt
        BY <1>1, <2>1, <2>4 DEF SendsOn, Unplaced
    <3>2. ~Prompted(calls[t].prompt) BY <2>2, <3>1 DEF SendInv, PromptsOnce
    <3> QED BY <3>1, <3>2 DEF Prompted, TurnsStay
  <2>5. ASSUME draft' # 0, Prompted(draft)' PROVE \E t \in Procs : Placed(calls'[t])
    <3>1. draft' = draft /\ Prompted(draft) BY <2>5 DEF Prompted, TurnsStay
    <3>2. PICK t \in Procs : Placed(calls[t]) BY <2>2, <2>5, <3>1 DEF SendInv, PromptsOnce
    <3>3. Placed(calls'[t]) BY <1>1, <2>1, <2>5, <3>2 DEF SendsOn
    <3> QED BY <3>3
  <2> QED BY <2>3, <2>4, <2>5 DEF PromptsOnce
<1> QED BY <1>3, <1>4, <1>5, <1>6 DEF SendInv

\* Nobody navigates in this step.
NavKept ==
    /\ DOMAIN calls' = Procs /\ shown' = shown /\ chosen' = chosen
    /\ \A t \in Procs : \/ calls'[t] = calls[t]
                        \/ calls[t].kind \notin CC!Navigates /\ calls'[t].kind \notin CC!Navigates
    /\ \A c \in Convs : store'[c].turns = store[c].turns
    /\ \A t \in Procs : calls[t].kind \in {"submit", "relist"} => \A c \in Convs : Newest(c) => Newest(c)'

LEMMA Navigating == CC!Navigates = Heavy \cup {"select"} /\ CC!Navigates = {"select", "submit", "retry", "relist", "reload"}
BY DEF CC!Navigates, Heavy

\* A turn call's place is a conversation when it matters.
LEMMA NavCallKept ==
    ASSUME ChatShapes, NavKept, NEW t \in Procs, calls'[t] = calls[t], NavCall(calls[t])
    PROVE  NavCall(calls[t])'
<1>1. calls[t].kind = "submit" => (SubmitCall(calls[t]) => SubmitCall(calls[t])')
  <2>1. CASE calls[t].kind = "submit" /\ calls[t].at = "answered" /\ calls[t].reply.out = "failed"
             /\ NavCall(calls[t])
    <3>1. calls[t].place \in Convs BY <2>1 DEF NavCall, TurnCall
    <3> QED BY <2>1, <3>1 DEF NavKept, SubmitCall, Waits
  <2> QED BY <2>1 DEF SubmitCall, Waits
<1>2. calls[t].kind = "relist" => (RelistCall(calls[t]) => RelistCall(calls[t])')
    BY DEF RelistCall, NavKept, Ok
<1>3. TurnCall(calls[t]) => TurnCall(calls[t])' BY DEF TurnCall, NavKept, Ok
<1>4. ReloadCall(calls[t]) => ReloadCall(calls[t])' BY DEF ReloadCall, NavKept, Ok
<1> QED BY <1>1, <1>2, <1>3, <1>4 DEF NavCall, Ok, Waits

LEMMA NavLight ==
    ASSUME ChatShapes, NavInv, NavKept, excuses \subseteq excuses', "adrift" \in excuses' => "unanswered" \in excuses'
    PROVE  NavInv'
<1>1. \A t \in Procs : calls[t].kind \in CC!Navigates \/ calls'[t].kind \in CC!Navigates => calls'[t] = calls[t]
    BY DEF NavKept
<1>2. NavAlone'
  <2>1. ASSUME "overtaken" \notin excuses' PROVE "overtaken" \notin excuses BY <2>1
  <2> QED BY <1>1, <2>1, Navigating DEF NavInv, NavAlone, NavKept
<1>3. ASSUME ~Excused(Astray)' PROVE /\ PendingAtWork'
                                     /\ \A s \in Procs : NavCall(calls[s])'
                                     /\ Waits(shown.turns)' => \E s \in Procs : calls'[s].kind \in {"submit", "retry", "reload"}
                                     /\ (\A s \in Procs : calls'[s].kind \notin CC!Navigates) => shown'.id = chosen'
  <2>1. ~Excused(Astray) BY <1>3 DEF Excused
  <2>2. PendingAtWork'
    <3>1. ASSUME NEW s \in Procs, calls[s].at = "working" PROVE calls'[s] = calls[s]
        BY <1>1, <3>1, Navigating DEF ChatShapes, CallShape
    <3> QED BY <2>1, <3>1 DEF NavInv, PendingAtWork, NavKept
  <2>3. ASSUME NEW s \in Procs PROVE NavCall(calls[s])'
    <3>1. CASE calls'[s].kind \in CC!Navigates
        BY <1>1, <2>1, <3>1, NavCallKept DEF NavInv
    <3>2. CASE calls'[s].kind \notin CC!Navigates
        BY <3>2, Navigating DEF NavCall, Reads
    <3> QED BY <3>1, <3>2
  <2>4. Waits(shown.turns)' => \E s \in Procs : calls'[s].kind \in {"submit", "retry", "reload"}
      BY <1>1, <2>1, Navigating DEF NavInv, NavKept, Waits
  <2>5. (\A s \in Procs : calls'[s].kind \notin CC!Navigates) => shown'.id = chosen'
      BY <1>1, <2>1 DEF NavInv, NavKept
  <2> QED BY <2>2, <2>3, <2>4, <2>5
<1> QED BY <1>2, <1>3 DEF NavInv, Excused

\* One call navigates, and no other.
Clear(s) == \A t \in Procs : t # s => calls[t].kind \notin CC!Navigates
Waiting == {"submit", "retry", "reload"}
NavMoves(s) ==
    /\ OnlyCall(s) /\ excuses \subseteq excuses'
    /\ "adrift" \in excuses' => "unanswered" \in excuses'
    /\ "overtaken" \notin excuses' => Clear(s) /\ (calls'[s].kind = "submit" => calls'[s].seen.id = shown'.id)
    /\ ~Excused(Astray)' =>
         /\ PendingAtWork' /\ NavCall(calls[s])'
         /\ Waits(shown.turns)' => calls'[s].kind \in Waiting
         /\ calls'[s].kind \notin CC!Navigates => shown'.id = chosen'

LEMMA NavHeavy == ASSUME NEW s \in Procs, NavMoves(s) PROVE NavInv'
<1>1. \A t \in Procs : t # s => calls'[t] = calls[t] BY DEF NavMoves, OnlyCall
<1>2. ~Excused(Astray)' => "overtaken" \notin excuses' BY DEF Excused, Astray
<1>3. NavAlone' BY <1>1, Navigating DEF NavAlone, NavMoves, Clear
<1>4. ASSUME ~Excused(Astray)', NEW t \in Procs PROVE NavCall(calls[t])'
  <2>1. CASE t = s BY <1>4, <2>1 DEF NavMoves
  <2>2. CASE t # s
    <3>1. calls'[t].kind \notin CC!Navigates BY <1>1, <1>2, <1>4, <2>2 DEF NavMoves, Clear
    <3> QED BY <3>1, Navigating DEF NavCall, Reads
  <2> QED BY <2>1, <2>2
<1>5. ASSUME ~Excused(Astray)' PROVE PendingAtWork'
    BY <1>5 DEF NavMoves
<1>6. ASSUME ~Excused(Astray)', Waits(shown.turns)' PROVE \E t \in Procs : calls'[t].kind \in {"submit", "retry", "reload"}
    BY <1>6 DEF NavMoves, Waiting
<1>7. ASSUME ~Excused(Astray)', \A t \in Procs : calls'[t].kind \notin CC!Navigates PROVE shown'.id = chosen'
    BY <1>7 DEF NavMoves
<1>8. "adrift" \in excuses' => "unanswered" \in excuses' BY DEF NavMoves
<1> QED BY <1>3, <1>4, <1>5, <1>6, <1>7, <1>8 DEF NavInv, Excused

LEMMA Solo ==
    ASSUME NavInv, NEW s \in Procs, calls[s].kind \in CC!Navigates, "overtaken" \notin excuses
    PROVE  Clear(s)
BY DEF NavInv, NavAlone, Clear

\* What is pending is worked on by the only one that navigates.
LEMMA WorksAlone ==
    ASSUME ChatShapes, NavInv, ~Excused(Astray), NEW s \in Procs, Clear(s), NEW c \in Convs, Waits(store[c].turns)
    PROVE  /\ calls[s].at = "working" /\ calls[s].place = c
           /\ \A i \in DOMAIN store[c].turns : store[c].turns[i].status = "pending" =>
                 calls[s].key = store[c].turns[i].key
<1>1. \A t \in Procs : calls[t].at = "working" => t = s
    BY Navigating DEF ChatShapes, CallShape, Clear
<1> QED BY <1>1 DEF NavInv, PendingAtWork, Waits

\* Nobody navigates: nothing is pending, and what is shown is what was chosen.
LEMMA NobodyNavigates ==
    ASSUME ChatShapes, NavInv, ~Excused(Astray), \A t \in Procs : calls[t].kind \notin CC!Navigates
    PROVE  /\ \A c \in Convs : ~Waits(store[c].turns)
           /\ ~Waits(shown.turns) /\ shown.id = chosen
<1>1. \A t \in Procs : calls[t].at # "working" BY Navigating DEF ChatShapes, CallShape
<1> QED BY <1>1, Navigating DEF NavInv, PendingAtWork, Waits

LEMMA Overtakes ==
    ASSUME NEW kinds, CC!Excuse("overtaken", CC!Busy(kinds))
    PROVE  /\ excuses \subseteq excuses' /\ excuses' \subseteq excuses \cup {"overtaken"}
           /\ "overtaken" \notin excuses' => \A t \in Procs : calls[t].kind \notin kinds
BY DEF CC!Excuse, CC!Busy

LEMMA ExcusesGrow ==
    ASSUME excuses \subseteq excuses'
    PROVE  \A es : Excused(es) => Excused(es)'
BY DEF Excused

\* Nothing is deleted, and nothing that was is offered.
Harmless(t) ==
    /\ calls[t].kind = "delete" /\ Ok(calls[t]) => "unsaid" \in excuses'
    /\ calls'[t].kind = "undo" =>
         /\ calls'[t].conv = last \/ (calls[t].kind = "undo" /\ calls'[t].conv = calls[t].conv)
         /\ Ok(calls'[t]) => IsActive(calls[t].conv)' 
    /\ calls'[t].kind \in CC!Lists /\ Ok(calls'[t]) =>
         /\ \A c \in calls'[t].reply.rows : IsActive(c)'
         /\ calls'[t].kind \in Reads => IsActive(calls[t].reply.thread.id)'
    /\ calls'[t].kind = "select" /\ Ok(calls'[t]) => IsActive(calls[t].reply.thread.id)'
DeletesKept ==
    /\ DOMAIN calls' = Procs /\ excuses \subseteq excuses'
    /\ toast' = toast /\ timers' = timers /\ last' = last
    /\ \A c \in Convs : IsActive(c) => IsActive(c)'
    /\ \A c \in Convs : store'[c].stage = "deleted" => store[c].stage = "deleted"
    /\ \A t \in Procs : calls'[t] = calls[t] \/ Harmless(t)
    /\ Excused(Astern)' \/ \A c \in (listed' \cup {shown'.id}) \ {None} :
                              c \in listed \cup {shown.id} \/ IsActive(c)' \/ Deleting(c)'

LEMMA DeletingStays ==
    ASSUME DeletesKept, "unsaid" \notin excuses', NEW c, Deleting(c)
    PROVE  Deleting(c)'
<1>1. PICK s \in Procs : calls[s].kind = "delete" /\ calls[s].conv = c /\ Ok(calls[s]) BY DEF Deleting
<1>2. calls'[s] = calls[s] BY <1>1 DEF DeletesKept, Harmless
<1> QED BY <1>1, <1>2 DEF Deleting, Ok

LEMMA DeletesLight ==
    ASSUME ChatShapes, DeleteInv, DeletesKept
    PROVE  DeleteInv'
<1>1. \A t \in Procs : calls'[t] = calls[t] \/ Harmless(t) BY DEF DeletesKept
<1>2. \A c \in Ids : IsActive(c) => IsActive(c)' BY DEF DeletesKept, IsActive
<1>3. excuses \subseteq excuses' /\ toast' = toast /\ timers' = timers /\ last' = last BY DEF DeletesKept
<1>4. toast' \in {None, last'} /\ timers' \subseteq {toast'} BY <1>3 DEF DeleteInv
<1>5. ASSUME ~Excused({"undoing"})', NEW t \in Procs, calls'[t].kind = "undo" PROVE calls'[t].conv = last'
  <2>1. ~Excused({"undoing"}) BY <1>3, <1>5, ExcusesGrow
  <2> QED BY <1>1, <1>3, <1>5, <2>1 DEF DeleteInv, Harmless
<1>6. ASSUME ~Excused({"undoing", "unsaid"})' 
      PROVE  /\ last' # None /\ store'[last'].stage = "deleted" => toast' = last' \/ Deleting(last)'
             /\ \A t \in Procs : calls'[t].kind = "undo" /\ Ok(calls'[t]) =>
                   IsActive(calls[t].conv)' \/ Deleting(calls[t].conv)'
  <2>1. ~Excused({"undoing", "unsaid"}) /\ "unsaid" \notin excuses' BY <1>3, <1>6, ExcusesGrow DEF Excused
  <2>2. ASSUME last' # None, store'[last'].stage = "deleted" PROVE toast' = last' \/ Deleting(last)'
    <3>1. last \in Convs BY <1>3, <2>2 DEF ChatShapes, Ids
    <3>2. store[last].stage = "deleted" BY <1>3, <2>2, <3>1 DEF DeletesKept
    <3>3. toast = last \/ Deleting(last) BY <1>3, <2>1, <2>2, <3>2 DEF DeleteInv
    <3>4. Deleting(last) => Deleting(last)' 
      <4>1. ASSUME NEW c, c = last, Deleting(c) PROVE Deleting(last)'
        <5>1. Deleting(c)' BY <2>1, <4>1, DeletingStays
        <5> QED BY <1>3, <4>1, <5>1 DEF Deleting
      <4> QED BY <4>1
    <3> QED BY <1>3, <3>3, <3>4
  <2>3. ASSUME NEW t \in Procs, calls'[t].kind = "undo", Ok(calls'[t])
        PROVE  IsActive(calls[t].conv)' \/ Deleting(calls[t].conv)'
    <3>1. CASE Harmless(t) BY <2>3, <3>1 DEF Harmless
    <3>2. CASE calls'[t] = calls[t]
      <4>1. IsActive(calls[t].conv) \/ Deleting(calls[t].conv) BY <2>1, <2>3, <3>2 DEF DeleteInv, Ok
      <4>2. ASSUME NEW c, c = calls[t].conv, Deleting(c) PROVE Deleting(calls[t].conv)'
        <5>1. Deleting(c)' BY <2>1, <4>2, DeletingStays
        <5> QED BY <3>2, <4>2, <5>1 DEF Deleting
      <4>3. ASSUME NEW c, c = calls[t].conv, IsActive(c) PROVE IsActive(calls[t].conv)'
        <5>1. IsActive(c)' BY <1>2, <4>3 DEF IsActive, Ids
        <5> QED BY <3>2, <4>3, <5>1 DEF IsActive
      <4> QED BY <4>1, <4>2, <4>3
    <3> QED BY <1>1, <3>1, <3>2
  <2> QED BY <2>2, <2>3
<1>7. ASSUME ~Excused({"listing"})', NEW t \in Procs, calls'[t].kind \in CC!Lists, Ok(calls'[t])
      PROVE  /\ \A c \in calls'[t].reply.rows : IsActive(c)'
             /\ calls'[t].kind \in Reads => IsActive(calls[t].reply.thread.id)'
  <2>1. ~Excused({"listing"}) BY <1>3, <1>7, ExcusesGrow
  <2>2. CASE Harmless(t) BY <1>7, <2>2 DEF Harmless
  <2>3. CASE calls'[t] = calls[t]
    <3>1. /\ \A c \in calls[t].reply.rows : IsActive(c)
          /\ calls[t].kind \in Reads => IsActive(calls[t].reply.thread.id)
        BY <1>7, <2>1, <2>3 DEF DeleteInv, Ok
    <3>2. \A c : IsActive(c) => IsActive(c)' BY <1>2 DEF IsActive, Ids
    <3> QED BY <1>7, <2>3, <3>1, <3>2 DEF IsActive
  <2> QED BY <1>1, <2>2, <2>3
<1>8. ASSUME ~Excused({"overtaken"})', NEW t \in Procs, calls'[t].kind = "select", Ok(calls'[t])
      PROVE  IsActive(calls[t].reply.thread.id)'
  <2>1. ~Excused({"overtaken"}) BY <1>3, <1>8, ExcusesGrow
  <2>2. CASE Harmless(t) BY <1>8, <2>2 DEF Harmless
  <2>3. CASE calls'[t] = calls[t]
    <3>1. IsActive(calls[t].reply.thread.id)
        BY <1>8, <2>1, <2>3 DEF DeleteInv, Ok
    <3>2. \A c : IsActive(c) => IsActive(c)' BY <1>2 DEF IsActive, Ids
    <3> QED BY <1>8, <2>3, <3>1, <3>2 DEF IsActive
  <2> QED BY <1>1, <2>2, <2>3
<1>9. ASSUME ~Excused(Astern)', NEW c \in (listed' \cup {shown'.id}) \ {None} PROVE IsActive(c)' \/ Deleting(c)'
  <2>1. ~Excused(Astern) /\ "unsaid" \notin excuses' BY <1>3, <1>9, ExcusesGrow DEF Excused, Astern
  <2>2. \/ IsActive(c)' \/ Deleting(c)'
        \/ c \in (listed \cup {shown.id}) \ {None}
      BY <1>9 DEF DeletesKept
  <2>3. ASSUME c \in (listed \cup {shown.id}) \ {None} PROVE IsActive(c) \/ Deleting(c)
      BY <2>1, <2>3 DEF DeleteInv
  <2>4. IsActive(c) => IsActive(c)' BY <1>2 DEF IsActive, Ids
  <2>5. Deleting(c) => Deleting(c)' BY <2>1, DeletingStays
  <2> QED BY <2>2, <2>3, <2>4, <2>5
<1> QED BY <1>4, <1>5, <1>6, <1>7, <1>8, <1>9 DEF DeleteInv, Excused

-----------------------------------------------------------------------------
(* The page opens. *)

LEMMA ChatInit == ASSUME CC!Init PROVE ChatInv
<1>1. PICK s \in Procs : calls = [[t \in Procs |-> CC!NoCall] EXCEPT ![s] = CC!Call("load", None)] BY DEF CC!Init
<1>2. shown = CC!NoThread BY DEF CC!Init
<1>3. DOMAIN calls = Procs /\ Opened(calls[s], "load", None) /\ calls[s].owner = "none" /\ calls[s].place = None
    BY <1>1, CallIs
<1>4. \A t \in Procs : t # s => calls[t] = CC!NoCall BY <1>1
<1>5. \A t \in Procs : calls[t].kind \in {"none", "load"} /\ calls[t].owner = "none" /\ ~Ok(calls[t])
    BY <1>3, <1>4, NoCallIs DEF Opened, Ok
<1>6. store \in [Convs -> [stage : Stages, age : Nat, turns : Seq(CC!Turn)]] /\ \A c \in Convs : store[c].turns = <<>>
  <2>1. PICK age \in [Existing -> 1..CC!Cardinality(Existing)] :
           store = [c \in Convs |-> IF c \in Existing
                      THEN [stage |-> "active", age |-> age[c], turns |-> <<>>]
                      ELSE [stage |-> "absent", age |-> 0, turns |-> <<>>]]
      BY DEF CC!Init
  <2>2. \A c \in Existing : age[c] \in Nat
    <3>1. \A S : CC!Cardinality(S) = Cardinality(S) BY DEF CC!Cardinality, Cardinality
    <3>2. Cardinality(Existing) \in Nat BY ChatConstants, FS_Subset, FS_CardinalityType
    <3> QED BY <3>1, <3>2
  <2>3. <<>> \in Seq(CC!Turn) OBVIOUS
  <2> HIDE DEF Stages
  <2> QED BY <2>1, <2>2, <2>3 DEF Stages
<1>7. /\ listed = {} /\ draft = 0 /\ sending = FALSE /\ toast = None /\ timers = {} /\ typed = 0 /\ asks = 0
      /\ chosen = None /\ last = None /\ excuses = {}
    BY DEF CC!Init
<1>8. ChatShapes
  <2>1. CallShape(calls[s], asks)
    <3>1. shown \in Threads BY <1>2, NoThreadIs
    <3> QED BY <1>3, <3>1, NoReplyIs DEF CallShape, Opened, Ok, Light, Heavy, Ids, OfOne, Reads
  <2>2. \A t \in Procs : CallShape(calls[t], asks) BY <1>4, <2>1, EmptyShaped
  <2> QED BY <1>2, <1>3, <1>6, <1>7, <2>2, NoThreadIs, ChatConstants DEF ChatShapes, Ids
<1>9. SendInv
    BY <1>5, <1>6, <1>7 DEF SendInv, OneSender, KeysApart, PromptsKnown, PromptsOnce, PromptsApart, Unplaced
<1>10. NavInv
  <2>1. \A t \in Procs : calls[t].kind \notin CC!Navigates BY <1>5, Navigating DEF Heavy
  <2>2. \A t \in Procs : NavCall(calls[t]) BY <1>5 DEF NavCall
  <2>3. ~Waits(shown.turns) /\ shown.id = chosen BY <1>2, <1>7, NoThreadIs DEF Waits
  <2> QED BY <1>5, <1>6, <1>7, <2>1, <2>2, <2>3 DEF NavInv, NavAlone, PendingAtWork
<1>11. DeleteInv
  <2>1. shown.id = None BY <1>2, NoThreadIs
  <2> QED BY <1>5, <1>7, <2>1 DEF DeleteInv
<1> QED BY <1>8, <1>9, <1>10, <1>11 DEF ChatInv

-----------------------------------------------------------------------------
(* The user.  Steps without a call. *)

\* All calls stay.
LEMMA CallsStay ==
    ASSUME ChatShapes, calls' = calls
    PROVE  /\ LightSteps /\ DOMAIN calls' = Procs
           /\ asks' = asks => \A s \in Procs : CallShape(calls'[s], asks')
BY DEF LightSteps, ChatShapes

LEMMA TurnsSame == ASSUME \A c \in Convs : store'[c].turns = store[c].turns PROVE TurnsStay
BY DEF TurnsStay

LEMMA TypesStep == ASSUME ChatInv, CC!Types PROVE ChatInv'
<1>1. ChatShapes /\ SendInv /\ NavInv /\ DeleteInv BY DEF ChatInv
<1>2. /\ UNCHANGED <<store, shown, listed, sending, toast, timers, calls, asks, chosen, last, excuses>>
      /\ typed' = typed + 1 /\ draft' = typed + 1 /\ typed < MaxPrompts
    BY DEF CC!Types, CC!Server
<1>3. typed \in Nat /\ MaxPrompts \in Nat BY <1>1, ChatConstants DEF ChatShapes
<1>4. ChatShapes' BY <1>1, <1>2, <1>3, CallsStay DEF ChatShapes
<1>5. SendInv'
  <2>1. OneSender' /\ KeysApart' BY <1>1, <1>2 DEF SendInv, OneSender, KeysApart
  <2>2. \A c \in Convs : \A i \in DOMAIN store[c].turns :
           store[c].turns[i].prompt <= typed /\ store[c].turns[i].prompt \in Nat
    <3>1. ASSUME NEW c \in Convs, NEW i \in DOMAIN store[c].turns PROVE store[c].turns[i].prompt \in Nat
      <4>1. store[c].turns \in Seq(CC!Turn) BY <1>1 DEF ChatShapes
      <4>2. store[c].turns[i] \in CC!Turn BY <4>1
      <4> QED BY <4>2, ChatConstants DEF CC!Turn
    <3> QED BY <1>1, <3>1 DEF SendInv, PromptsKnown
  <2>3. \A s \in Procs : calls[s].kind = "submit" => calls[s].prompt <= typed /\ calls[s].prompt \in Nat
    <3>1. \A s \in Procs : calls[s].kind = "submit" => calls[s].prompt \in Nat
        BY <1>1, ChatConstants DEF ChatShapes, CallShape
    <3> QED BY <1>1, <3>1 DEF SendInv, PromptsKnown
  <2>4. PromptsKnown' BY <1>2, <1>3, <2>2, <2>3 DEF PromptsKnown
  <2>5. ~Prompted(draft)' BY <1>2, <1>3, <2>2 DEF Prompted
  <2>6. PromptsOnce'
    <3>1. \A s \in Procs : Unplaced(calls[s]) /\ ~Prompted(calls[s].prompt) => ~Prompted(calls[s].prompt)'
        BY <1>2 DEF Prompted
    <3> QED BY <1>1, <1>2, <2>5, <3>1 DEF SendInv, PromptsOnce, PromptsApart
  <2> QED BY <2>1, <2>4, <2>6 DEF SendInv
<1>6. NavInv'
  <2>1. NavKept BY <1>1, <1>2 DEF NavKept, ChatShapes, Newest
  <2>2. excuses \subseteq excuses' /\ ("adrift" \in excuses' => "unanswered" \in excuses') BY <1>1, <1>2 DEF NavInv
  <2> QED BY <1>1, <2>1, <2>2, NavLight
<1>7. DeleteInv'
  <2>1. DeletesKept BY <1>1, <1>2 DEF DeletesKept, ChatShapes, IsActive
  <2> QED BY <1>1, <2>1, DeletesLight
<1> QED BY <1>4, <1>5, <1>6, <1>7 DEF ChatInv

LEMMA StartStep == ASSUME ChatInv, CC!StartNewChat PROVE ChatInv'
<1>1. ChatShapes /\ SendInv /\ NavInv /\ DeleteInv BY DEF ChatInv
<1>2. /\ UNCHANGED <<store, listed, sending, toast, timers, calls, typed, asks, last>>
      /\ shown' = CC!NoThread /\ draft' = 0 /\ chosen' = None /\ CC!Excuse("overtaken", CC!Busy(CC!Navigates))
    BY DEF CC!StartNewChat, CC!Server
<1>3. /\ excuses \subseteq excuses' /\ excuses' \subseteq excuses \cup {"overtaken"}
      /\ "overtaken" \notin excuses' => \A t \in Procs : calls[t].kind \notin CC!Navigates
    BY <1>2, Overtakes
<1>4. ChatShapes' BY <1>1, <1>2, CallsStay, NoThreadIs DEF ChatShapes
<1>5. SendInv'
  <2>1. asks \in Nat /\ asks <= asks' /\ asks' \in Nat BY <1>1, <1>2 DEF ChatShapes
  <2>2. LightSteps /\ TurnsStay BY <1>1, <1>2, CallsStay, TurnsSame
  <2> QED BY <1>1, <1>2, <1>3, <2>1, <2>2, SendLight
<1>6. NavInv'
  <2>1. "adrift" \in excuses' => "unanswered" \in excuses' BY <1>1, <1>3 DEF NavInv
  <2>2. NavAlone' BY <1>2, <1>3, Navigating DEF NavAlone
  <2>3. ASSUME ~Excused(Astray)'
        PROVE  /\ PendingAtWork' /\ \A s \in Procs : NavCall(calls[s])'
               /\ ~Waits(shown.turns)' /\ shown'.id = chosen'
    <3>1. ~Excused(Astray) BY <1>3, <2>3 DEF Excused
    <3>2. \A t \in Procs : calls[t].kind \notin CC!Navigates BY <1>3, <2>3 DEF Excused, Astray
    <3>3. PendingAtWork' BY <1>1, <1>2, <3>1 DEF NavInv, PendingAtWork
    <3>4. \A s \in Procs : NavCall(calls[s])' BY <1>2, <3>2, Navigating DEF NavCall, Reads
    <3> QED BY <1>2, <3>3, <3>4, NoThreadIs DEF Waits
  <2> QED BY <2>1, <2>2, <2>3 DEF NavInv, Excused
<1>7. DeleteInv'
  <2>1. DeletesKept BY <1>1, <1>2, <1>3, NoThreadIs DEF DeletesKept, ChatShapes, IsActive
  <2> QED BY <1>1, <2>1, DeletesLight
<1> QED BY <1>4, <1>5, <1>6, <1>7 DEF ChatInv

-----------------------------------------------------------------------------
(* The user.  Steps that open a call. *)

LEMMA OpensCall ==
    ASSUME ChatShapes, NEW s \in Procs, NEW m, CC!Asks(s, m), CallShape(m, asks + 1)
    PROVE  /\ calls[s] = CC!NoCall /\ OnlyCall(s) /\ calls'[s] = m /\ asks' = asks + 1
           /\ asks \in Nat /\ asks' \in Nat /\ asks <= asks' /\ asks' <= MaxAsks
           /\ DOMAIN calls' = Procs /\ \A t \in Procs : CallShape(calls'[t], asks')
<1>1. /\ calls[s] = CC!NoCall /\ asks < MaxAsks /\ calls' = [calls EXCEPT ![s] = m] /\ asks' = asks + 1
    BY DEF CC!Asks
<1>2. asks \in Nat /\ MaxAsks \in Nat BY ChatConstants DEF ChatShapes
<1>3. OnlyCall(s) /\ calls'[s] = m BY <1>1, PutCall DEF ChatShapes
<1> QED BY <1>1, <1>2, <1>3, CallsShaped

\* A call that shows nothing else than rows, or deletes, or undoes it.
LEMMA OpensAside ==
    ASSUME ChatInv, NEW s \in Procs, NEW m, CC!Asks(s, m), NEW kind \in {"more", "delete", "undo", "load"}, NEW c \in Ids,
           Opened(m, kind, c), m.owner = "none", m.place = None,
           kind \in OfOne => c \in Convs, kind = "undo" => c = last,
           UNCHANGED <<store, shown, listed, draft, sending, toast, timers, typed, chosen, last, excuses>>
    PROVE  ChatInv'
<1>1. ChatShapes /\ SendInv /\ NavInv /\ DeleteInv BY DEF ChatInv
<1>2. m.kind = kind /\ m.at = "sent" /\ m.conv = c /\ ~Ok(m) BY DEF Opened, Ok
<1>3. CallShape(m, asks + 1)
  <2>1. kind \in Light \cup Heavy /\ kind # "none" /\ m.place \in Ids BY DEF Light, Ids
  <2> QED BY <1>1, <2>1, OpenedShaped
<1>4. /\ calls[s] = CC!NoCall /\ OnlyCall(s) /\ calls'[s] = m /\ asks' = asks + 1
      /\ asks \in Nat /\ asks' \in Nat /\ asks <= asks' /\ asks' <= MaxAsks
      /\ DOMAIN calls' = Procs /\ \A t \in Procs : CallShape(calls'[t], asks')
    BY <1>1, <1>3, OpensCall
<1>5. LightSteps
  <2>1. LightCall(calls[s]) /\ LightCall(calls'[s]) BY <1>2, <1>4, NoCallIs DEF LightCall, Light
  <2> QED BY <1>4, <2>1 DEF LightSteps, OnlyCall
<1>6. ChatShapes' BY <1>1, <1>4 DEF ChatShapes
<1>7. SendInv'
  <2>1. TurnsStay BY TurnsSame
  <2> QED BY <1>1, <1>4, <1>5, <2>1, SendLight
<1>8. NavInv'
  <2>1. NavKept
    <3>1. calls[s].kind \notin CC!Navigates /\ calls'[s].kind \notin CC!Navigates
        BY <1>2, <1>4, NoCallIs, Navigating
    <3> QED BY <1>4, <3>1 DEF NavKept, OnlyCall, Newest
  <2>2. excuses \subseteq excuses' /\ ("adrift" \in excuses' => "unanswered" \in excuses') BY <1>1 DEF NavInv
  <2> QED BY <1>1, <2>1, <2>2, NavLight
<1>9. DeleteInv'
  <2>1. Harmless(s) BY <1>2, <1>4, NoCallIs DEF Harmless
  <2>2. DeletesKept BY <1>4, <2>1 DEF DeletesKept, OnlyCall, IsActive
  <2> QED BY <1>1, <2>2, DeletesLight
<1> QED BY <1>6, <1>7, <1>8, <1>9 DEF ChatInv

LEMMA LoadMoreStep == ASSUME ChatInv, NEW s \in Procs, CC!LoadMore(s) PROVE ChatInv'
<1> DEFINE k == CC!Call("more", None)
           n == v4
           m == [k EXCEPT !.key = n]
<1>1. Opened(k, "more", None) /\ k.owner = "none" /\ k.place = None BY CallIs
<1>2. CC!Asks(s, m) /\ UNCHANGED <<store, shown, listed, draft, sending, toast, timers, typed, chosen, last, excuses>>
    BY DEF CC!LoadMore, CC!Server
<1> HIDE DEF k, n
<1>3. Opened(m, "more", None) /\ m.owner = "none" /\ m.place = None BY <1>1 DEF Opened, CallFields
<1> HIDE DEF m
<1>4. None \in Ids BY DEF Ids
<1> QED BY <1>2, <1>3, <1>4, OpensAside DEF OfOne

LEMMA DeleteVisibleStep == ASSUME ChatInv, NEW s \in Procs, NEW c \in Convs, CC!DeleteVisible(s, c) PROVE ChatInv'
<1> DEFINE m == CC!Call("delete", c)
<1>1. Opened(m, "delete", c) /\ m.owner = "none" /\ m.place = None BY CallIs
<1>2. CC!Asks(s, m) /\ UNCHANGED <<store, shown, listed, draft, sending, toast, timers, typed, chosen, last, excuses>>
    BY DEF CC!DeleteVisible, CC!Server
<1> HIDE DEF m
<1> QED BY <1>1, <1>2, OpensAside DEF Ids

LEMMA UndoDeletedStep == ASSUME ChatInv, NEW s \in Procs, CC!UndoDeleted(s) PROVE ChatInv'
<1> DEFINE m == CC!Call("undo", toast)
<1>1. toast \in Convs /\ toast = last BY DEF CC!UndoDeleted, ChatInv, ChatShapes, DeleteInv, Ids
<1>2. Opened(m, "undo", toast) /\ m.owner = "none" /\ m.place = None BY CallIs
<1>3. CC!Asks(s, m) /\ UNCHANGED <<store, shown, listed, draft, sending, toast, timers, typed, chosen, last, excuses>>
    BY DEF CC!UndoDeleted, CC!Server
<1> HIDE DEF m
<1> QED BY <1>1, <1>2, <1>3, OpensAside DEF Ids

\* The list is loaded again, and no answer to an earlier load is heard.
LEMMA RerendersStep == ASSUME ChatInv, NEW s \in Procs, CC!Rerenders(s) PROVE ChatInv'
<1> DEFINE kept == [t \in Procs |-> IF calls[t].kind = "load" THEN CC!NoCall ELSE calls[t]]
           m == CC!Call("load", None)
<1>1. ChatShapes /\ SendInv /\ NavInv /\ DeleteInv BY DEF ChatInv
<1>2. /\ kept[s] = CC!NoCall /\ asks < MaxAsks /\ calls' = [kept EXCEPT ![s] = m] /\ asks' = asks + 1
      /\ UNCHANGED <<store, shown, listed, draft, sending, toast, timers, typed, chosen, last, excuses>>
    BY DEF CC!Rerenders, CC!Server, CC!pageVars
<1>3. Opened(m, "load", None) /\ m.owner = "none" /\ m.place = None BY CallIs
<1>4. asks \in Nat /\ MaxAsks \in Nat BY <1>1, ChatConstants DEF ChatShapes
<1>5. CallShape(m, asks + 1)
  <2>1. "load" \in Light \cup Heavy /\ None \in Ids BY DEF Light, Ids
  <2> HIDE DEF m
  <2> QED BY <1>1, <1>3, <2>1, OpenedShaped DEF OfOne
<1> HIDE DEF m
<1>6. calls'[s] = m /\ DOMAIN calls' = Procs BY <1>2
<1>7. \A t \in Procs : t # s => calls'[t] = IF calls[t].kind = "load" THEN CC!NoCall ELSE calls[t] BY <1>2
<1>8. calls[s].kind \in {"none", "load"}
  <2>1. kept[s] = IF calls[s].kind = "load" THEN CC!NoCall ELSE calls[s] OBVIOUS
  <2> QED BY <1>2, <2>1, NoCallIs
<1> HIDE DEF kept
<1>9. \A t \in Procs : calls'[t] = calls[t] \/ (calls[t].kind \in {"none", "load"} /\ (calls'[t] = m \/ calls'[t] = CC!NoCall))
    BY <1>6, <1>7, <1>8
<1>10. m.kind = "load" /\ m.at = "sent" /\ ~Ok(m) BY <1>3 DEF Opened, Ok
<1>11. LightSteps
  <2>1. LightCall(m) /\ LightCall(CC!NoCall) BY <1>3, <1>10, NoCallIs DEF LightCall, Light
  <2>2. \A t \in Procs : calls[t].kind \in {"none", "load"} => LightCall(calls[t]) BY <1>1, LightCalls DEF Light
  <2> QED BY <1>6, <1>9, <2>1, <2>2 DEF LightSteps
<1>12. ChatShapes'
  <2>1. \A t \in Procs : CallShape(calls[t], asks + 1) BY <1>1, <1>4 DEF ChatShapes, CallShape
  <2>2. \A t \in Procs : CallShape(calls'[t], asks + 1) BY <1>5, <1>9, <2>1, EmptyShaped
  <2> QED BY <1>1, <1>2, <1>4, <1>6, <2>2 DEF ChatShapes
<1>13. SendInv'
  <2>1. TurnsStay BY <1>2, TurnsSame
  <2>2. asks' \in Nat /\ asks <= asks' BY <1>2, <1>4
  <2> QED BY <1>1, <1>2, <1>11, <2>1, <2>2, SendLight
<1>14. NavInv'
  <2>1. NavKept BY <1>2, <1>6, <1>9, <1>10, NoCallIs, Navigating DEF NavKept, Newest
  <2>2. excuses \subseteq excuses' /\ ("adrift" \in excuses' => "unanswered" \in excuses') BY <1>1, <1>2 DEF NavInv
  <2> QED BY <1>1, <2>1, <2>2, NavLight
<1>15. DeleteInv'
  <2>1. ASSUME NEW t \in Procs PROVE calls'[t] = calls[t] \/ Harmless(t)
    <3>1. ~Ok(CC!NoCall) BY NoCallIs DEF Ok
    <3> QED BY <1>9, <1>10, <3>1, NoCallIs DEF Harmless
  <2>2. DeletesKept BY <1>2, <1>6, <2>1 DEF DeletesKept, IsActive
  <2> QED BY <1>1, <2>2, DeletesLight
<1> QED BY <1>12, <1>13, <1>14, <1>15 DEF ChatInv

LEMMA SelectStep == ASSUME ChatInv, NEW s \in Procs, NEW c \in Convs, CC!SelectConversation(s, c) PROVE ChatInv'
<1> DEFINE m == CC!Call("select", c)
<1>1. ChatShapes /\ SendInv /\ NavInv /\ DeleteInv BY DEF ChatInv
<1>2. /\ CC!Asks(s, m) /\ chosen' = c /\ CC!Excuse("overtaken", CC!Busy(CC!Navigates))
      /\ UNCHANGED <<store, shown, listed, draft, sending, toast, timers, typed, last>>
    BY DEF CC!SelectConversation, CC!Server, CC!pageVars
<1>3. Opened(m, "select", c) /\ m.owner = "none" /\ m.place = None BY CallIs
<1> HIDE DEF m
<1>4. CallShape(m, asks + 1)
  <2>1. "select" \in Light \cup Heavy /\ c \in Ids /\ None \in Ids BY DEF Light, Ids
  <2> QED BY <1>1, <1>3, <2>1, OpenedShaped
<1>5. /\ calls[s] = CC!NoCall /\ OnlyCall(s) /\ calls'[s] = m /\ asks' = asks + 1
      /\ asks \in Nat /\ asks' \in Nat /\ asks <= asks' /\ asks' <= MaxAsks
      /\ DOMAIN calls' = Procs /\ \A t \in Procs : CallShape(calls'[t], asks')
    BY <1>1, <1>2, <1>4, OpensCall
<1>6. m.kind = "select" /\ m.at = "sent" /\ ~Ok(m) BY <1>3 DEF Opened, Ok
<1>7. /\ excuses \subseteq excuses' /\ excuses' \subseteq excuses \cup {"overtaken"}
      /\ "overtaken" \notin excuses' => \A t \in Procs : calls[t].kind \notin CC!Navigates
    BY <1>2, Overtakes
<1>8. ChatShapes' BY <1>1, <1>2, <1>5 DEF ChatShapes
<1>9. SendInv'
  <2>1. LightCall(calls[s]) /\ LightCall(calls'[s]) BY <1>3, <1>5, <1>6, NoCallIs DEF LightCall, Light
  <2>2. LightSteps BY <1>5, <2>1 DEF LightSteps, OnlyCall
  <2>3. TurnsStay BY <1>2, TurnsSame
  <2> QED BY <1>1, <1>2, <1>5, <1>7, <2>2, <2>3, SendLight
<1>10. NavInv'
  <2>1. ASSUME ~Excused(Astray)'
        PROVE PendingAtWork' /\ NavCall(calls[s])' /\ ~Waits(shown.turns)'
    <3>1. ~Excused(Astray) /\ \A t \in Procs : calls[t].kind \notin CC!Navigates
        BY <1>7, <2>1 DEF Excused, Astray
    <3>2. /\ \A d \in Convs : ~Waits(store[d].turns)
          /\ ~Waits(shown.turns) /\ shown.id = chosen
        BY <1>1, <3>1, NobodyNavigates
    <3>3. PendingAtWork' BY <1>2, <3>2 DEF PendingAtWork, Waits
    <3>4. NavCall(calls[s])' BY <1>5, <1>6 DEF NavCall, Ok
    <3> QED BY <1>2, <3>2, <3>3, <3>4 DEF Waits
  <2>2. NavMoves(s)
      BY <1>1, <1>5, <1>6, <1>7, <2>1, Navigating DEF NavMoves, Clear, NavInv
  <2> QED BY <2>2, NavHeavy
<1>11. DeleteInv'
  <2>1. Harmless(s) BY <1>5, <1>6, NoCallIs DEF Harmless, CC!Lists
  <2>2. DeletesKept BY <1>2, <1>5, <1>7, <2>1 DEF DeletesKept, OnlyCall, IsActive
  <2> QED BY <1>1, <2>2, DeletesLight
<1> QED BY <1>8, <1>9, <1>10, <1>11 DEF ChatInv

LEMMA SubmitTurnStep == ASSUME ChatInv, NEW s \in Procs, CC!Submit(s) PROVE ChatInv'
<1> DEFINE k == CC!Call("submit", shown.id)
           n == asks + 1
           p == draft
           m == [k EXCEPT !.key = n, !.prompt = p, !.owner = "submit"]
           turn == [key |-> n, prompt |-> p, status |-> "pending"]
<1>1. ChatShapes /\ SendInv /\ NavInv /\ DeleteInv BY DEF ChatInv
<1>2. /\ draft # 0 /\ ~Waits(shown.turns) /\ ~sending /\ CC!Asks(s, m) /\ sending' = TRUE
      /\ shown' = IF shown = CC!NoThread THEN shown ELSE [shown EXCEPT !.turns = Append(shown.turns, turn)]
      /\ CC!Excuse("overtaken", CC!Busy(CC!Navigates))
      /\ UNCHANGED <<store, listed, draft, toast, timers, typed, chosen, last>>
    BY DEF CC!Submit, CC!CanSubmit, CC!Pending, Waits, CC!Server
<1>3. /\ asks \in Nat /\ MaxAsks \in Nat /\ MaxPrompts \in Nat /\ draft \in Nat /\ draft <= typed /\ typed <= MaxPrompts
      /\ typed \in Nat /\ shown \in Threads
    BY <1>1, ChatConstants DEF ChatShapes
<1>4. Opened(k, "submit", shown.id) /\ k.place = None BY CallIs
<1>5. asks < MaxAsks /\ n \in 1..MaxAsks /\ p \in 1..MaxPrompts /\ n \in 1..n
    BY <1>2, <1>3 DEF CC!Asks
<1>6. turn \in CC!Turn
  <2> HIDE DEF n, p
  <2> QED BY <1>5 DEF CC!Turn
<1> HIDE DEF k, n, p
<1>7. /\ Opened(m, "submit", shown.id) /\ m.key = n /\ m.prompt = p /\ m.owner = "submit" /\ m.place = None
    BY <1>4 DEF Opened, CallFields
<1> HIDE DEF m, turn
<1>8. CallShape(m, asks + 1)
  <2>1. "submit" \in Light \cup Heavy /\ shown.id \in Ids /\ None \in Ids /\ "submit" \notin Light /\ "submit" \notin OfOne
      BY <1>3, ThreadIs DEF Heavy, Ids, Light, OfOne
  <2> QED BY <1>1, <1>5, <1>7, <2>1, OpenedShaped DEF n
<1>9. /\ calls[s] = CC!NoCall /\ OnlyCall(s) /\ calls'[s] = m /\ asks' = asks + 1
      /\ asks \in Nat /\ asks' \in Nat /\ asks <= asks' /\ asks' <= MaxAsks
      /\ DOMAIN calls' = Procs /\ \A t \in Procs : CallShape(calls'[t], asks')
    BY <1>1, <1>2, <1>8, OpensCall
<1>10. m.kind = "submit" /\ m.at = "sent" /\ ~Ok(m) /\ m.conv = shown.id /\ m.seen = shown BY <1>7 DEF Opened, Ok
<1>11. /\ excuses \subseteq excuses' /\ excuses' \subseteq excuses \cup {"overtaken"}
       /\ "overtaken" \notin excuses' => \A t \in Procs : calls[t].kind \notin CC!Navigates
    BY <1>2, Overtakes
<1>12. shown' \in Threads /\ shown'.id = shown.id
  <2>1. CASE shown = CC!NoThread BY <1>2, <1>3, <2>1
  <2>2. CASE shown # CC!NoThread
    <3>1. shown \in [id : Convs, turns : Seq(CC!Turn)] BY <1>3, <2>2 DEF Threads
    <3>2. Append(shown.turns, turn) \in Seq(CC!Turn) BY <1>6, <3>1
    <3>3. shown' = [shown EXCEPT !.turns = Append(shown.turns, turn)] BY <1>2, <2>2
    <3> QED BY <3>1, <3>2, <3>3 DEF Threads
  <2> QED BY <2>1, <2>2
<1>13. ChatShapes' BY <1>1, <1>2, <1>9, <1>12 DEF ChatShapes
<1>14. SendInv'
  <2>1. \A t \in Procs : calls[t].owner # "submit" /\ calls[t].kind # "submit"
      BY <1>1, <1>2 DEF SendInv, OneSender, ChatShapes, CallShape
  <2>2. \A t \in Procs : t # s => calls'[t] = calls[t] BY <1>9 DEF OnlyCall
  <2>3. OneSender' BY <1>2, <2>1, <2>2 DEF OneSender
  <2>4. TurnsStay BY <1>2, TurnsSame
  <2>5. ASSUME NEW c \in Convs, NEW i \in DOMAIN store[c].turns PROVE store[c].turns[i].key # n
    <3>1. store[c].turns \in Seq(CC!Turn) BY <1>1 DEF ChatShapes
    <3>2. store[c].turns[i] \in CC!Turn BY <3>1
    <3>3. store[c].turns[i].key \in Nat BY <3>2, ChatConstants DEF CC!Turn
    <3>4. store[c].turns[i].key <= asks BY <1>1 DEF SendInv, KeysApart
    <3> QED BY <1>3, <3>3, <3>4 DEF n
  <2>6. KeysApart'
    <3>1. /\ \A c \in Convs : \A i, j \in DOMAIN store'[c].turns :
                store'[c].turns[i].key = store'[c].turns[j].key => i = j
          /\ \A c \in Convs : \A i \in DOMAIN store'[c].turns : store'[c].turns[i].key <= asks'
        BY <1>1, <1>2, <1>9, <2>4, StoreStays
    <3>2. \A t \in Procs : calls'[t].kind = "submit" => calls'[t].key = n
        BY <1>7, <1>9, <2>1, <2>2
    <3> QED BY <1>2, <2>5, <3>1, <3>2 DEF KeysApart
  <2>7. PromptsKnown' 
    <3>1. \A t \in Procs : calls'[t].kind = "submit" => calls'[t].prompt = draft
        BY <1>7, <1>9, <2>1, <2>2 DEF p
    <3> QED BY <1>1, <1>2, <1>3, <3>1 DEF SendInv, PromptsKnown
  <2>8. ASSUME "unanswered" \notin excuses' PROVE ~Prompted(draft)
    <3>1. "unanswered" \notin excuses BY <1>11, <2>8
    <3> QED BY <1>1, <1>2, <2>1, <3>1 DEF SendInv, PromptsOnce, Placed
  <2>9. PromptsOnce'
    <3>1. SUFFICES ASSUME "unanswered" \notin excuses' PROVE PromptsOnce' BY DEF PromptsOnce
    <3>2. "unanswered" \notin excuses /\ ~Prompted(draft) BY <1>11, <2>8, <3>1
    <3>3. PromptsApart' BY <1>1, <1>2, <3>2 DEF SendInv, PromptsOnce, PromptsApart
    <3>4. ~Prompted(draft)' BY <1>2, <3>2 DEF Prompted
    <3>5. ASSUME NEW t \in Procs, Unplaced(calls'[t]) PROVE ~Prompted(calls[t].prompt)'
      <4>1. t = s /\ calls'[t].prompt = draft' BY <1>2, <1>7, <1>9, <2>1, <2>2, <3>5 DEF Unplaced, p
      <4> QED BY <3>4, <4>1 DEF Prompted
    <3> QED BY <3>3, <3>4, <3>5 DEF PromptsOnce
  <2> QED BY <2>3, <2>6, <2>7, <2>9 DEF SendInv
<1>15. NavInv'
  <2>1. ASSUME ~Excused(Astray)'
        PROVE PendingAtWork' /\ NavCall(calls[s])'
    <3>1. ~Excused(Astray) /\ \A t \in Procs : calls[t].kind \notin CC!Navigates
        BY <1>11, <2>1 DEF Excused, Astray
    <3>2. /\ \A d \in Convs : ~Waits(store[d].turns)
          /\ ~Waits(shown.turns) /\ shown.id = chosen
        BY <1>1, <3>1, NobodyNavigates
    <3>3. PendingAtWork' BY <1>2, <3>2 DEF PendingAtWork, Waits
    <3>4. NavCall(calls[s])'
        BY <1>2, <1>9, <1>10, <1>12, <3>2 DEF NavCall, TurnCall, SubmitCall, Waits, Ok
    <3> QED BY <3>3, <3>4
  <2>2. NavMoves(s)
      BY <1>1, <1>9, <1>10, <1>11, <1>12, <2>1, Navigating DEF NavMoves, Clear, NavInv, Waiting
  <2> QED BY <2>2, NavHeavy
<1>16. DeleteInv'
  <2>1. Harmless(s) BY <1>9, <1>10, NoCallIs DEF Harmless, CC!Lists
  <2>2. DeletesKept BY <1>2, <1>9, <1>11, <1>12, <2>1 DEF DeletesKept, OnlyCall, IsActive
  <2> QED BY <1>1, <2>2, DeletesLight
<1> QED BY <1>13, <1>14, <1>15, <1>16 DEF ChatInv

LEMMA RetryAskedStep == ASSUME ChatInv, NEW s \in Procs, CC!Retry(s) PROVE ChatInv'
<1>1. ChatShapes /\ SendInv /\ NavInv /\ DeleteInv BY DEF ChatInv
<1> DEFINE k == CC!Call("retry", shown.id)
           turns2 == [j \in DOMAIN shown.turns |->
                        IF shown.turns[j].status = "failed" THEN [shown.turns[j] EXCEPT !.status = "pending"]
                        ELSE shown.turns[j]]
<1>2. PICK i \in DOMAIN shown.turns :
         /\ CC!Asks(s, [k EXCEPT !.key = shown.turns[i].key, !.owner = "retry"])
         /\ shown' = [shown EXCEPT !.turns = turns2]
    BY DEF CC!Retry
<1>3. CC!Excuse("overtaken", CC!Busy(CC!Navigates)) /\ UNCHANGED <<store, listed, draft, sending, toast, timers, typed, chosen, last>>
    BY DEF CC!Retry, CC!Server
<1> DEFINE n == shown.turns[i].key
           m == [k EXCEPT !.key = n, !.owner = "retry"]
<1>4. CC!Asks(s, m) BY <1>2
<1>5. shown \in [id : Convs, turns : Seq(CC!Turn)]
  <2>1. shown \in Threads BY <1>1 DEF ChatShapes
  <2>2. shown # CC!NoThread BY <1>2, NoThreadIs
  <2> QED BY <2>1, <2>2 DEF Threads
<1>6. Opened(k, "retry", shown.id) /\ k.place = None BY CallIs
<1> HIDE DEF k, n
<1>7. Opened(m, "retry", shown.id) /\ m.owner = "retry" /\ m.place = None BY <1>6 DEF Opened, CallFields
<1> HIDE DEF m
<1>8. CallShape(m, asks + 1)
  <2>1. "retry" \in Light \cup Heavy /\ shown.id \in Ids /\ None \in Ids /\ "retry" \notin Light /\ shown.id \in Convs
      BY <1>5 DEF Heavy, Ids, Light
  <2> QED BY <1>1, <1>7, <2>1, OpenedShaped
<1>9. /\ calls[s] = CC!NoCall /\ OnlyCall(s) /\ calls'[s] = m /\ asks' = asks + 1
      /\ asks \in Nat /\ asks' \in Nat /\ asks <= asks' /\ asks' <= MaxAsks
      /\ DOMAIN calls' = Procs /\ \A t \in Procs : CallShape(calls'[t], asks')
    BY <1>1, <1>4, <1>8, OpensCall
<1>10. m.kind = "retry" /\ m.at = "sent" /\ ~Ok(m) /\ m.conv = shown.id BY <1>7 DEF Opened, Ok
<1>11. /\ excuses \subseteq excuses' /\ excuses' \subseteq excuses \cup {"overtaken"}
       /\ "overtaken" \notin excuses' => \A t \in Procs : calls[t].kind \notin CC!Navigates
    BY <1>3, Overtakes
<1>12. shown' \in Threads /\ shown'.id = shown.id
  <2>1. ASSUME NEW j \in DOMAIN shown.turns PROVE turns2[j] \in CC!Turn
    <3>1. shown.turns[j] \in CC!Turn BY <1>5
    <3> QED BY <3>1 DEF CC!Turn
  <2>2. DOMAIN shown.turns = 1..Len(shown.turns) /\ Len(shown.turns) \in Nat BY <1>5
  <2>3. turns2 \in [1..Len(shown.turns) -> CC!Turn] BY <2>1, <2>2
  <2>4. turns2 \in Seq(CC!Turn) 
    <3> HIDE DEF turns2
    <3> QED BY <2>2, <2>3
  <2> HIDE DEF turns2
  <2> QED BY <1>2, <1>5, <2>4 DEF Threads
<1>13. ChatShapes' BY <1>1, <1>3, <1>9, <1>12 DEF ChatShapes
<1>14. SendInv'
  <2>1. TurnsStay BY <1>3, TurnsSame
  <2>2. SendsOn(s) BY <1>3, <1>7, <1>9, <1>10, NoCallIs DEF SendsOn, Placed, Unplaced
  <2> QED BY <1>1, <1>3, <1>9, <1>11, <2>1, <2>2, SendHeavy
<1>15. NavInv'
  <2>1. ASSUME ~Excused(Astray)'
        PROVE PendingAtWork' /\ NavCall(calls[s])'
    <3>1. ~Excused(Astray) /\ \A t \in Procs : calls[t].kind \notin CC!Navigates
        BY <1>11, <2>1 DEF Excused, Astray
    <3>2. /\ \A d \in Convs : ~Waits(store[d].turns)
          /\ ~Waits(shown.turns) /\ shown.id = chosen
        BY <1>1, <3>1, NobodyNavigates
    <3>3. PendingAtWork' BY <1>3, <3>2 DEF PendingAtWork, Waits
    <3>4. NavCall(calls[s])'
        BY <1>3, <1>9, <1>10, <1>12, <3>2 DEF NavCall, TurnCall, Ok
    <3> QED BY <3>3, <3>4
  <2>2. NavMoves(s)
      BY <1>1, <1>9, <1>10, <1>11, <1>12, <2>1, Navigating DEF NavMoves, Clear, NavInv, Waiting
  <2> QED BY <2>2, NavHeavy
<1>16. DeleteInv'
  <2>1. Harmless(s) BY <1>9, <1>10, NoCallIs DEF Harmless, CC!Lists
  <2>2. DeletesKept BY <1>3, <1>9, <1>11, <1>12, <2>1 DEF DeletesKept, OnlyCall, IsActive
  <2> QED BY <1>1, <2>2, DeletesLight
<1> QED BY <1>13, <1>14, <1>15, <1>16 DEF ChatInv

-----------------------------------------------------------------------------
(* The server answers. *)

LEMMA IsActiveStays == ASSUME store' = store PROVE \A c : IsActive(c)' <=> IsActive(c)
BY DEF IsActive

LEMMA ReadStep ==
    ASSUME ChatInv, NEW s \in Procs, NEW y, Answers(s, y), calls[s].at = "sent", ReplyShape(y),
           calls[s].kind \in {"load", "more", "select", "relist", "reload"}, \A c \in y.rows : IsActive(c),
           calls[s].kind \in {"select", "reload"} /\ y.out = "ok" =>
               y.thread.id = calls[s].conv /\ y.thread.turns = store[calls[s].conv].turns /\ IsActive(calls[s].conv),
           calls[s].kind = "relist" => y.out = "ok" /\ \A c \in Convs : Newest(c) => y.first = c,
           UNCHANGED <<store, shown, listed, draft, sending, toast, timers, typed, asks, chosen, last, excuses>>
    PROVE  ChatInv'
<1>1. ChatShapes /\ SendInv /\ NavInv /\ DeleteInv BY DEF ChatInv
<1>2. CallShape(calls[s], asks) BY <1>1 DEF ChatShapes
<1>3. calls[s].kind \in OfOne => calls[s].conv \in Convs BY <1>2 DEF CallShape
<1>4. OnlyCall(s) /\ calls'[s].kind = calls[s].kind /\ calls'[s].at = "answered" /\ calls'[s].reply = y
    BY DEF Answers
<1>5. CallShape(calls'[s], asks)
  <2>1. calls[s].kind \in Reads => calls[s].kind \in {"select", "reload"} BY DEF Reads
  <2> QED BY <1>1, <1>2, <1>3, <2>1, AnsweredShaped DEF OfOne
<1>6. asks \in Nat BY <1>1 DEF ChatShapes
<1>7. DOMAIN calls' = Procs /\ \A t \in Procs : CallShape(calls'[t], asks')
    BY <1>1, <1>4, <1>5, <1>6, CallsShaped
<1>8. ChatShapes' BY <1>1, <1>7 DEF ChatShapes
<1>9. SendInv'
  <2>1. TurnsStay BY TurnsSame
  <2>2. SendsOn(s) BY <1>4 DEF SendsOn, Placed, Unplaced, Answers
  <2> QED BY <1>1, <1>6, <2>1, <2>2, SendHeavy
<1>10. NavInv'
  <2>0. excuses \subseteq excuses' /\ ("adrift" \in excuses' => "unanswered" \in excuses') BY <1>1 DEF NavInv
  <2>1. CASE calls[s].kind \in {"load", "more"}
    <3>1. NavKept BY <1>4, <1>7, <2>1, Navigating DEF NavKept, OnlyCall, Newest
    <3> QED BY <1>1, <2>0, <3>1, NavLight
  <2>2. CASE calls[s].kind \in {"select", "relist", "reload"}
    <3>1. calls[s].kind \in CC!Navigates BY <2>2, Navigating
    <3>2. ASSUME ~Excused(Astray)'
          PROVE  /\ PendingAtWork' /\ NavCall(calls[s])'
                 /\ Waits(shown.turns)' => calls'[s].kind \in Waiting
      <4>1. ~Excused(Astray) /\ "overtaken" \notin excuses BY <3>2 DEF Excused, Astray
      <4>2. Clear(s) BY <1>1, <3>1, <4>1, Solo
      <4>3. \A c \in Convs : ~Waits(store[c].turns) BY <1>1, <4>1, <4>2, WorksAlone
      <4>4. PendingAtWork' BY <4>3 DEF PendingAtWork, Waits
      <4>5. NavCall(calls[s])'
        <5>1. NavCall(calls[s]) BY <1>1, <4>1 DEF NavInv
        <5>2. calls'[s].conv = calls[s].conv /\ calls'[s].place = calls[s].place BY DEF Answers
        <5>3. CASE calls[s].kind = "relist"
            BY <1>4, <5>1, <5>2, <5>3 DEF NavCall, RelistCall, Ok, Reads
        <5>4. CASE calls[s].kind = "reload"
            BY <1>3, <1>4, <4>3, <5>1, <5>2, <5>4 DEF NavCall, ReloadCall, Ok, OfOne, Waits
        <5>5. CASE calls[s].kind = "select"
            BY <1>3, <1>4, <4>3, <5>5 DEF NavCall, Ok, OfOne, Waits
        <5> QED BY <2>2, <5>3, <5>4, <5>5
      <4>6. Waits(shown.turns) => \E t \in Procs : calls[t].kind \in {"submit", "retry", "reload"}
          BY <1>1, <4>1 DEF NavInv
      <4>7. Waits(shown.turns)' => calls'[s].kind \in Waiting
          BY <1>4, <4>2, <4>6, Navigating DEF Clear, Waiting, Waits
      <4> QED BY <4>4, <4>5, <4>7
    <3>3. "overtaken" \notin excuses' => Clear(s) BY <1>1, <3>1, Solo
    <3>4. NavMoves(s)
        BY <1>4, <2>0, <2>2, <3>1, <3>2, <3>3 DEF NavMoves
    <3> QED BY <3>4, NavHeavy
  <2> QED BY <2>1, <2>2
<1>11. DeleteInv'
  <2>1. Harmless(s)
    <3>1. \A c : IsActive(c)' <=> IsActive(c) BY IsActiveStays
    <3>2. calls'[s].kind \in Reads /\ Ok(calls'[s]) => IsActive(calls[s].reply.thread.id)'
        BY <1>4 DEF Reads, Ok, IsActive
    <3>3. \A c \in y.rows : IsActive(c)' BY <3>1
    <3> QED BY <1>4, <3>2, <3>3 DEF Harmless, Reads
  <2>2. DeletesKept BY <1>4, <1>7, <2>1 DEF DeletesKept, OnlyCall, IsActive
  <2> QED BY <1>1, <2>2, DeletesLight
<1> QED BY <1>8, <1>9, <1>10, <1>11 DEF ChatInv

LEMMA ServesReadStep == ASSUME ChatInv, NEW s \in Procs, CC!ServesRead(s) PROVE ChatInv'
<1>1. ChatShapes BY DEF ChatInv
<1>2. /\ calls[s].at = "sent"
      /\ UNCHANGED <<store, shown, listed, draft, sending, toast, timers, typed, asks, chosen, last, excuses>>
    BY DEF CC!ServesRead, CC!Rest, CC!pageVars
<1>3. ASSUME calls[s].kind \in {"load", "relist"}, CC!Replies(s, CC!Page(0)) PROVE ChatInv'
  <2>1. Answers(s, CC!Page(0)) BY <1>1, <1>3, Replied
  <2> QED BY <1>1, <1>2, <1>3, <2>1, PageIs, ReadStep
<1>4. ASSUME calls[s].kind = "more", CC!Replies(s, CC!Page(calls[s].key)) PROVE ChatInv'
  <2>1. Answers(s, CC!Page(calls[s].key)) BY <1>1, <1>4, Replied
  <2> QED BY <1>1, <1>2, <1>4, <2>1, PageIs, ReadStep
<1>5. ASSUME calls[s].kind \in {"select", "reload"}, CC!Replies(s, CC!Detail(calls[s].conv)) PROVE ChatInv'
  <2>1. Answers(s, CC!Detail(calls[s].conv)) BY <1>1, <1>5, Replied
  <2>2. calls[s].conv \in Convs BY <1>1, <1>5 DEF ChatShapes, CallShape, OfOne
  <2> QED BY <1>1, <1>2, <1>5, <2>1, <2>2, DetailIs, ReadStep
<1> QED BY <1>3, <1>4, <1>5 DEF CC!ServesRead

-----------------------------------------------------------------------------
(* The server changes what it has stored. *)

Stored == [stage : Stages, age : Nat, turns : Seq(CC!Turn)]
OnlyRow(c) == store' \in [Convs -> Stored] /\ \A d \in Convs : d # c => store'[d] = store[d]

LEMMA PutRow ==
    ASSUME ChatShapes, NEW c \in Convs, NEW h \in Stored, store' = [store EXCEPT ![c] = h]
    PROVE  OnlyRow(c) /\ store'[c] = h
BY DEF ChatShapes, Stored, OnlyRow

\* What the server does to a turn, and to the call it takes up.
Rewrites(c, i, status) == store' = [store EXCEPT ![c].age = CC!Now, ![c].turns[i].status = status]
Employs(s, c) == calls' = [calls EXCEPT ![s].at = "working", ![s].place = c]

\* A turn of c gets another status, and c becomes the newest.
Restated(c, i, status) ==
    /\ OnlyRow(c) /\ store'[c].stage = store[c].stage /\ store'[c].age = CC!Now
    /\ DOMAIN store'[c].turns = DOMAIN store[c].turns
    /\ \A j \in DOMAIN store[c].turns : j # i => store'[c].turns[j] = store[c].turns[j]
    /\ store'[c].turns[i].key = store[c].turns[i].key /\ store'[c].turns[i].prompt = store[c].turns[i].prompt
    /\ store'[c].turns[i].status = status

LEMMA Restates ==
    ASSUME ChatShapes, NEW c \in Convs, NEW i \in DOMAIN store[c].turns,
           NEW status \in {"pending", "completed", "failed"}, Rewrites(c, i, status)
    PROVE  Restated(c, i, status)
<1> DEFINE turn == [store[c].turns[i] EXCEPT !.status = status]
           turns2 == [store[c].turns EXCEPT ![i] = turn]
           n == CC!Now
           h == [store[c] EXCEPT !.age = n, !.turns = turns2]
<1>1. store \in [Convs -> Stored] /\ store[c] \in Stored /\ store[c].turns \in Seq(CC!Turn) BY DEF ChatShapes, Stored
<1>2. n \in Nat BY NowIs
<1>3. store' = [store EXCEPT ![c] = h] BY <1>1 DEF Rewrites
<1>4. store[c].turns[i] \in CC!Turn BY <1>1
<1>5. turn \in CC!Turn /\ turn.key = store[c].turns[i].key /\ turn.prompt = store[c].turns[i].prompt
      /\ turn.status = status
    BY <1>4 DEF CC!Turn
<1> HIDE DEF turn
<1>6. /\ turns2 \in Seq(CC!Turn) /\ DOMAIN turns2 = DOMAIN store[c].turns /\ turns2[i] = turn
      /\ \A j \in DOMAIN store[c].turns : j # i => turns2[j] = store[c].turns[j]
    BY <1>1, <1>5
<1> HIDE DEF turns2, n
<1>7. h \in Stored /\ h.stage = store[c].stage /\ h.age = n /\ h.turns = turns2
  <2>1. h.stage = store[c].stage BY <1>1 DEF Stored
  <2>2. h.age = n BY <1>1 DEF Stored
  <2>3. h.turns = turns2 BY <1>1 DEF Stored
  <2>4. h \in Stored BY <1>1, <1>2, <1>6 DEF Stored
  <2> QED BY <2>1, <2>2, <2>3, <2>4
<1> HIDE DEF h
<1>8. OnlyRow(c) /\ store'[c] = h BY <1>3, <1>7, PutRow
<1> QED BY <1>5, <1>6, <1>7, <1>8 DEF Restated, n

LEMMA RestatedStays ==
    ASSUME NEW c \in Convs, NEW i, NEW status, Restated(c, i, status)
    PROVE  TurnsStay /\ \A d \in Convs : store'[d].stage = store[d].stage /\ (IsActive(d)' <=> IsActive(d))
<1>1. \A d \in Convs : d # c => store'[d] = store[d] BY DEF Restated, OnlyRow
<1>2. ASSUME NEW d \in Convs
      PROVE  /\ DOMAIN store'[d].turns = DOMAIN store[d].turns
             /\ \A j \in DOMAIN store[d].turns : /\ store'[d].turns[j].key = store[d].turns[j].key
                                                 /\ store'[d].turns[j].prompt = store[d].turns[j].prompt
  <2>1. CASE d = c BY <2>1 DEF Restated
  <2>2. CASE d # c BY <1>1, <2>2
  <2> QED BY <2>1, <2>2
<1>3. \A d \in Convs : store'[d].stage = store[d].stage BY <1>1 DEF Restated
<1> QED BY <1>2, <1>3 DEF TurnsStay, IsActive

LEMMA WindowStep == ASSUME ChatInv, NEW c \in Convs, CC!UndoWindowCloses(c) PROVE ChatInv'
<1>1. ChatShapes /\ SendInv /\ NavInv /\ DeleteInv BY DEF ChatInv
<1> DEFINE h == [store[c] EXCEPT !.stage = "expired"]
<1>2. /\ store[c].stage = "deleted" /\ store' = [store EXCEPT ![c].stage = "expired"]
      /\ UNCHANGED <<shown, listed, draft, sending, toast, timers, calls, typed, asks, chosen, last, excuses>>
    BY DEF CC!UndoWindowCloses, CC!Rest, CC!pageVars
<1>3. store \in [Convs -> Stored] /\ store[c] \in Stored BY <1>1 DEF ChatShapes, Stored
<1>4. store' = [store EXCEPT ![c] = h] BY <1>2, <1>3
<1>5. h \in Stored /\ h.stage = "expired" /\ h.turns = store[c].turns BY <1>3 DEF Stored, Stages
<1> HIDE DEF h
<1>6. OnlyRow(c) /\ store'[c] = h BY <1>1, <1>4, <1>5, PutRow
<1>7. \A d \in Convs : /\ store'[d].turns = store[d].turns /\ (IsActive(d)' <=> IsActive(d))
                       /\ store'[d].stage = "deleted" => store[d].stage = "deleted"
                       /\ Newest(d) => Newest(d)'
  <2>1. \A d \in Convs : d # c => store'[d] = store[d] BY <1>6 DEF OnlyRow
  <2>2. \A d \in Convs : /\ store'[d].turns = store[d].turns /\ (IsActive(d)' <=> IsActive(d))
                         /\ store'[d].stage = "deleted" => store[d].stage = "deleted"
      BY <1>2, <1>5, <1>6, <2>1 DEF IsActive
  <2>3. \A d \in Convs : Newest(d) => Newest(d)' BY <1>2, <1>5, <1>6, <2>1 DEF Newest
  <2> QED BY <2>2, <2>3
<1>8. ChatShapes' BY <1>1, <1>2, <1>6 DEF ChatShapes, OnlyRow, Stored
<1>9. SendInv'
  <2>1. TurnsStay BY <1>7, TurnsSame
  <2>2. LightSteps BY <1>1, <1>2, CallsStay
  <2>3. asks \in Nat BY <1>1 DEF ChatShapes
  <2> QED BY <1>1, <1>2, <2>1, <2>2, <2>3, SendLight
<1>10. NavInv'
  <2>1. NavKept BY <1>1, <1>2, <1>7 DEF NavKept, ChatShapes
  <2>2. excuses \subseteq excuses' /\ ("adrift" \in excuses' => "unanswered" \in excuses') BY <1>1, <1>2 DEF NavInv
  <2> QED BY <1>1, <2>1, <2>2, NavLight
<1>11. DeleteInv'
  <2>1. DeletesKept BY <1>1, <1>2, <1>7 DEF DeletesKept, ChatShapes
  <2> QED BY <1>1, <2>1, DeletesLight
<1> QED BY <1>8, <1>9, <1>10, <1>11 DEF ChatInv

\* Nobody works on the turn: the page has been excused before.
LEMMA SettlesStep ==
    ASSUME ChatInv, NEW c \in Convs, NEW status \in {"completed", "failed"}, CC!Settles(c, status) PROVE ChatInv'
<1>1. ChatShapes /\ SendInv /\ NavInv /\ DeleteInv BY DEF ChatInv
<1>2. UNCHANGED <<shown, listed, draft, sending, toast, timers, calls, typed, asks, chosen, last, excuses>>
    BY DEF CC!Settles, CC!Rest, CC!pageVars
<1>3. PICK i \in DOMAIN store[c].turns :
         /\ store[c].turns[i].status = "pending"
         /\ \A s \in Procs : calls[s].at = "working" => calls[s].key # store[c].turns[i].key
         /\ Rewrites(c, i, status)
    BY DEF CC!Settles, Rewrites
<1>4. Restated(c, i, status) BY <1>1, <1>3, Restates
<1>5. TurnsStay /\ \A d \in Convs : store'[d].stage = store[d].stage /\ (IsActive(d)' <=> IsActive(d))
    BY <1>4, RestatedStays
<1>6. ChatShapes' BY <1>1, <1>2, <1>4 DEF ChatShapes, Restated, OnlyRow, Stored
<1>7. SendInv'
  <2>1. LightSteps BY <1>1, <1>2, CallsStay
  <2>2. asks \in Nat BY <1>1 DEF ChatShapes
  <2> QED BY <1>1, <1>2, <1>5, <2>1, <2>2, SendLight
<1>8. NavInv'
  <2>1. Excused(Astray) BY <1>1, <1>3 DEF NavInv, PendingAtWork
  <2>2. NavAlone' BY <1>1, <1>2 DEF NavInv, NavAlone
  <2> QED BY <1>1, <1>2, <2>1, <2>2 DEF NavInv, Excused
<1>9. DeleteInv'
  <2>1. DeletesKept BY <1>1, <1>2, <1>5 DEF DeletesKept, ChatShapes
  <2> QED BY <1>1, <2>1, DeletesLight
<1> QED BY <1>6, <1>7, <1>8, <1>9 DEF ChatInv

\* A call is refused, or its answer is lost.
LEMMA RefusedStep ==
    ASSUME ChatInv, NEW s \in Procs, NEW y, Answers(s, y), ReplyShape(y), y.out = "error", calls[s].at # "idle",
           excuses \subseteq excuses', "adrift" \in excuses' => "unanswered" \in excuses',
           calls[s].kind \in {"submit", "retry"} /\ calls[s].at # "sent" => "unanswered" \in excuses',
           calls[s].kind \in {"reload", "relist"} => "unread" \in excuses',
           calls[s].kind \in {"delete", "undo"} /\ calls[s].at = "answered" => "unsaid" \in excuses',
           UNCHANGED <<store, shown, listed, draft, sending, toast, timers, typed, asks, chosen, last>>
    PROVE  ChatInv'
<1>1. ChatShapes /\ SendInv /\ NavInv /\ DeleteInv BY DEF ChatInv
<1>2. CallShape(calls[s], asks) BY <1>1 DEF ChatShapes
<1>3. /\ OnlyCall(s) /\ calls'[s].kind = calls[s].kind /\ calls'[s].at = "answered" /\ calls'[s].reply = y
      /\ calls'[s].seen = calls[s].seen /\ calls'[s].conv = calls[s].conv /\ ~Ok(calls'[s])
    BY DEF Answers, Ok
<1>4. CallShape(calls'[s], asks) BY <1>1, AnsweredShaped
<1>5. asks \in Nat BY <1>1 DEF ChatShapes
<1>6. DOMAIN calls' = Procs /\ \A t \in Procs : CallShape(calls'[t], asks')
    BY <1>1, <1>3, <1>4, <1>5, CallsShaped
<1>7. ChatShapes' BY <1>1, <1>6 DEF ChatShapes
<1>8. SendInv'
  <2>1. TurnsStay BY TurnsSame
  <2>2. SendsOn(s) BY <1>3 DEF SendsOn, Placed, Unplaced, Answers
  <2> QED BY <1>1, <1>5, <2>1, <2>2, SendHeavy
<1>9. NavInv'
  <2>1. CASE calls[s].kind \notin CC!Navigates
    <3>1. NavKept BY <1>3, <1>6, <2>1 DEF NavKept, OnlyCall, Newest
    <3> QED BY <1>1, <3>1, NavLight
  <2>2. CASE calls[s].kind \in CC!Navigates
    <3>1. "overtaken" \notin excuses' => Clear(s) /\ (calls'[s].kind = "submit" => calls'[s].seen.id = shown'.id)
        BY <1>1, <1>3, <2>2, Solo DEF NavInv, NavAlone
    <3>2. ASSUME ~Excused(Astray)'
          PROVE  /\ PendingAtWork' /\ NavCall(calls[s])'
                 /\ Waits(shown.turns)' => calls'[s].kind \in Waiting
      <4>1. ~Excused(Astray) /\ "overtaken" \notin excuses BY <3>2 DEF Excused, Astray
      <4>2. Clear(s) BY <1>1, <2>2, <4>1, Solo
      <4>3. \/ calls[s].kind \in {"submit", "retry"} /\ calls[s].at = "sent"
            \/ calls[s].kind = "select"
          BY <2>2, <3>2, Navigating DEF Excused, Astray
      <4>4. calls[s].at # "working" BY <1>2, <4>3 DEF CallShape
      <4>5. \A c \in Convs : ~Waits(store[c].turns) BY <1>1, <4>1, <4>2, <4>4, WorksAlone
      <4>6. PendingAtWork' BY <4>5 DEF PendingAtWork, Waits
      <4>7. NavCall(calls[s]) BY <1>1, <4>1 DEF NavInv
      <4>8. NavCall(calls[s])'
          BY <1>3, <4>3, <4>7 DEF NavCall, TurnCall, SubmitCall, Ok, Waits
      <4>9. Waits(shown.turns) => \E t \in Procs : calls[t].kind \in {"submit", "retry", "reload"}
          BY <1>1, <4>1 DEF NavInv
      <4>10. Waits(shown.turns)' => calls'[s].kind \in Waiting
          BY <1>3, <4>2, <4>9, Navigating DEF Clear, Waiting, Waits
      <4> QED BY <4>6, <4>8, <4>10
    <3>3. NavMoves(s) BY <1>3, <2>2, <3>1, <3>2 DEF NavMoves
    <3> QED BY <3>3, NavHeavy
  <2> QED BY <2>1, <2>2
<1>10. DeleteInv'
  <2>1. Harmless(s) BY <1>3 DEF Harmless, Ok
  <2>2. DeletesKept BY <1>3, <1>6, <2>1 DEF DeletesKept, OnlyCall, IsActive
  <2> QED BY <1>1, <2>2, DeletesLight
<1> QED BY <1>7, <1>8, <1>9, <1>10 DEF ChatInv

LEMMA FailsStep == ASSUME ChatInv, NEW s \in Procs, CC!Fails(s) PROVE ChatInv'
<1>1. ChatShapes /\ NavInv BY DEF ChatInv
<1>2. /\ calls[s].at \in {"sent", "working", "answered"} /\ CC!Replies(s, CC!Error)
      /\ excuses' = excuses \cup
            (IF calls[s].kind \in {"submit", "retry"} /\ calls[s].at # "sent" THEN {"unanswered"} ELSE {}) \cup
            (IF calls[s].at = "working" THEN {"adrift"} ELSE {}) \cup
            (IF calls[s].kind \in {"reload", "relist"} THEN {"unread"} ELSE {}) \cup
            (IF calls[s].kind \in {"delete", "undo"} /\ calls[s].at = "answered" THEN {"unsaid"} ELSE {})
      /\ UNCHANGED <<store, shown, listed, draft, sending, toast, timers, typed, asks, chosen, last>>
    BY DEF CC!Fails, CC!Rest, CC!pageVars
<1>3. Answers(s, CC!Error) BY <1>1, <1>2, Replied
<1>4. calls[s].at = "working" => calls[s].kind \in {"submit", "retry"} BY <1>1 DEF ChatShapes, CallShape
<1>5. "adrift" \in excuses' => "unanswered" \in excuses' BY <1>1, <1>2, <1>4 DEF NavInv
<1>6. excuses \subseteq excuses' BY <1>2
<1>7. /\ calls[s].kind \in {"submit", "retry"} /\ calls[s].at # "sent" => "unanswered" \in excuses'
      /\ calls[s].kind \in {"reload", "relist"} => "unread" \in excuses'
      /\ (calls[s].kind \in {"delete", "undo"} /\ calls[s].at = "answered" => "unsaid" \in excuses')
    BY <1>2
<1>8. calls[s].at # "idle" BY <1>2
<1> QED BY <1>2, <1>3, <1>5, <1>6, <1>7, <1>8, ErrorIs, RefusedStep

LEMMA DeletingGrows ==
    ASSUME \A t \in Procs : Ok(calls[t]) => calls'[t] = calls[t]
    PROVE  \A c : Deleting(c) => Deleting(c)'
BY DEF Deleting, Ok

LEMMA ServesDeleteStep == ASSUME ChatInv, NEW s \in Procs, CC!ServesDelete(s) PROVE ChatInv'
<1>1. ChatShapes /\ SendInv /\ NavInv /\ DeleteInv BY DEF ChatInv
<1> DEFINE c == calls[s].conv
           y == [CC!NoReply EXCEPT !.out = "ok"]
<1>2. /\ calls[s].at = "sent" /\ calls[s].kind = "delete"
      /\ UNCHANGED <<shown, listed, draft, sending, toast, timers, typed, asks, chosen, last>>
    BY DEF CC!ServesDelete, CC!Rest, CC!pageVars
<1>3. CallShape(calls[s], asks) /\ c \in Convs BY <1>1, <1>2 DEF ChatShapes, CallShape, OfOne
<1>4. CASE store[c].stage # "active"
  <2>1. CC!Replies(s, CC!Error) /\ UNCHANGED <<store, excuses>> BY <1>4 DEF CC!ServesDelete
  <2>2. Answers(s, CC!Error) BY <1>1, <2>1, Replied
  <2>3. "adrift" \in excuses' => "unanswered" \in excuses' BY <1>1, <2>1 DEF NavInv
  <2> QED BY <1>2, <2>1, <2>2, <2>3, ErrorIs, RefusedStep
<1>5. CASE store[c].stage = "active"
  <2>1. /\ store' = [store EXCEPT ![c].stage = "deleted"] /\ CC!Replies(s, y)
        /\ excuses' = excuses \cup (IF CC!Busy(CC!Lists) THEN {"listing"} ELSE {})
                              \cup (IF CC!Busy(CC!Navigates) THEN {"overtaken"} ELSE {})
      BY <1>5 DEF CC!ServesDelete
  <2>2. ReplyShape(y) /\ y.out = "ok" BY NoReplyIs DEF ReplyShape, ReplyFields
  <2> DEFINE h == [store[c] EXCEPT !.stage = "deleted"]
  <2>3. store \in [Convs -> Stored] /\ store[c] \in Stored BY <1>1, <1>3 DEF ChatShapes, Stored
  <2>4. store' = [store EXCEPT ![c] = h] BY <1>3, <2>1, <2>3
  <2>5. h \in Stored /\ h.stage = "deleted" /\ h.turns = store[c].turns BY <2>3 DEF Stored, Stages
  <2> HIDE DEF h, y
  <2>6. OnlyRow(c) /\ store'[c] = h BY <1>1, <1>3, <2>4, <2>5, PutRow
  <2>7. Answers(s, y) BY <1>1, <2>1, Replied
  <2>8. /\ OnlyCall(s) /\ calls'[s].kind = "delete" /\ calls'[s].conv = c /\ Ok(calls'[s])
      BY <1>2, <2>2, <2>7 DEF Answers, Ok
  <2>9. /\ excuses \subseteq excuses' /\ excuses' \subseteq excuses \cup {"listing", "overtaken"}
        /\ "listing" \notin excuses' => \A t \in Procs : calls[t].kind \notin CC!Lists
        /\ "overtaken" \notin excuses' => \A t \in Procs : calls[t].kind \notin CC!Navigates
      BY <2>1 DEF CC!Busy
  <2>10. CallShape(calls'[s], asks)
      BY <1>1, <1>2, <2>2, <2>7, AnsweredShaped DEF Reads
  <2>11. asks \in Nat BY <1>1 DEF ChatShapes
  <2>12. DOMAIN calls' = Procs /\ \A t \in Procs : CallShape(calls'[t], asks')
      BY <1>1, <1>2, <2>8, <2>10, <2>11, CallsShaped
  <2>13. ChatShapes' BY <1>1, <1>2, <2>6, <2>12 DEF ChatShapes, OnlyRow, Stored
  <2>14. \A d \in Convs : store'[d].turns = store[d].turns BY <2>5, <2>6 DEF OnlyRow
  <2>15. SendInv'
    <3>1. TurnsStay BY <2>14, TurnsSame
    <3>2. SendsOn(s) BY <1>2, <2>7, <2>8 DEF SendsOn, Placed, Unplaced, Answers
    <3> QED BY <1>1, <1>2, <2>9, <2>11, <3>1, <3>2, SendHeavy
  <2>16. NavInv'
    <3>1. "adrift" \in excuses' => "unanswered" \in excuses' BY <1>1, <2>9 DEF NavInv
    <3>2. CASE "overtaken" \in excuses' BY <3>1, <3>2 DEF NavInv, NavAlone, Excused, Astray
    <3>3. CASE "overtaken" \notin excuses'
      <4>1. NavKept
          BY <1>2, <2>8, <2>9, <2>12, <2>14, <3>3, Navigating DEF NavKept, OnlyCall
      <4> QED BY <1>1, <2>9, <3>1, <4>1, NavLight
    <3> QED BY <3>2, <3>3
  <2>17. DeleteInv'
    <3>1. Deleting(c)' BY <2>8 DEF Deleting
    <3>2. \A d : Deleting(d) => Deleting(d)' BY <1>2, <2>8, DeletingGrows DEF OnlyCall, Ok
    <3>3. \A d \in Ids : IsActive(d) => IsActive(d)' \/ Deleting(d)'
      <4>1. ASSUME NEW d \in Ids, IsActive(d), d # c PROVE IsActive(d)'
          BY <2>6, <4>1 DEF IsActive, OnlyRow
      <4>2. ASSUME NEW d, d = c PROVE Deleting(d)' BY <2>8, <4>2 DEF Deleting
      <4> QED BY <4>1, <4>2
    <3>4. \A t \in Procs : t # s => calls'[t] = calls[t] BY <2>8 DEF OnlyCall
    <3>5. toast' \in {None, last'} /\ timers' \subseteq {toast'} BY <1>1, <1>2 DEF DeleteInv
    <3>6. ASSUME ~Excused({"undoing"})', NEW t \in Procs, calls'[t].kind = "undo" PROVE calls'[t].conv = last'
        BY <1>1, <1>2, <2>8, <2>9, <3>4, <3>6, ExcusesGrow DEF DeleteInv
    <3>7. ASSUME ~Excused({"undoing", "unsaid"})', last' # None, store'[last'].stage = "deleted"
          PROVE  toast' = last' \/ Deleting(last)'
      <4>1. ~Excused({"undoing", "unsaid"}) BY <2>9, <3>7, ExcusesGrow
      <4>2. CASE last = c
          BY <1>2, <2>8, <4>2 DEF Deleting
      <4>3. CASE last # c
        <5>1. last \in Convs BY <1>1, <1>2, <3>7 DEF ChatShapes, Ids
        <5>2. store[last].stage = "deleted" BY <1>2, <2>6, <3>7, <4>3, <5>1 DEF OnlyRow
        <5>3. toast = last \/ Deleting(last) BY <1>1, <1>2, <3>7, <4>1, <5>2 DEF DeleteInv
        <5> QED BY <1>2, <3>2, <5>3 DEF Deleting
      <4> QED BY <4>2, <4>3
    <3>8. ASSUME ~Excused({"undoing", "unsaid"})', NEW t \in Procs, calls'[t].kind = "undo", Ok(calls'[t])
          PROVE  IsActive(calls[t].conv)' \/ Deleting(calls[t].conv)'
      <4>1. ~Excused({"undoing", "unsaid"}) BY <2>9, <3>8, ExcusesGrow
      <4>2. calls'[t] = calls[t] BY <2>8, <3>4, <3>8
      <4>3. IsActive(calls[t].conv) \/ Deleting(calls[t].conv)
          BY <1>1, <3>8, <4>1, <4>2 DEF DeleteInv, Ok
      <4>4. calls[t].conv \in Ids BY <1>1 DEF ChatShapes, CallShape
      <4> DEFINE d == calls[t].conv
      <4>5. IsActive(d) => IsActive(calls[t].conv)' \/ Deleting(calls[t].conv)'
          BY <3>3, <4>2, <4>4 DEF IsActive, Deleting
      <4>6. Deleting(d) => Deleting(calls[t].conv)' BY <3>2, <4>2 DEF Deleting
      <4> QED BY <4>3, <4>5, <4>6
    <3>9. ASSUME ~Excused({"listing"})', NEW t \in Procs, calls'[t].kind \in CC!Lists PROVE FALSE
        BY <2>8, <2>9, <3>4, <3>9 DEF Excused, CC!Lists
    <3>10. ASSUME ~Excused({"overtaken"})', NEW t \in Procs, calls'[t].kind = "select" PROVE FALSE
        BY <2>8, <2>9, <3>4, <3>10, Navigating DEF Excused
    <3>11. ASSUME ~Excused(Astern)', NEW d \in (listed' \cup {shown'.id}) \ {None}
           PROVE IsActive(d)' \/ Deleting(d)'
      <4>1. ~Excused(Astern) BY <2>9, <3>11, ExcusesGrow
      <4>2. IsActive(d) \/ Deleting(d) BY <1>1, <1>2, <3>11, <4>1 DEF DeleteInv
      <4> QED BY <3>2, <3>3, <4>2 DEF IsActive, Ids
    <3> QED BY <3>5, <3>6, <3>7, <3>8, <3>9, <3>10, <3>11 DEF DeleteInv, Excused
  <2> QED BY <2>13, <2>15, <2>16, <2>17 DEF ChatInv
<1> QED BY <1>4, <1>5

LEMMA ServesUndoStep == ASSUME ChatInv, NEW s \in Procs, CC!ServesUndo(s) PROVE ChatInv'
<1>1. ChatShapes /\ SendInv /\ NavInv /\ DeleteInv BY DEF ChatInv
<1> DEFINE c == calls[s].conv
           y == [CC!NoReply EXCEPT !.out = "ok"]
           n == CC!Now
<1>2. /\ calls[s].at = "sent" /\ calls[s].kind = "undo" /\ CC!Excuse("overtaken", CC!Busy({"submit", "relist"}))
      /\ UNCHANGED <<shown, listed, draft, sending, toast, timers, typed, asks, chosen, last>>
    BY DEF CC!ServesUndo, CC!Rest, CC!pageVars
<1>3. CallShape(calls[s], asks) /\ c \in Convs BY <1>1, <1>2 DEF ChatShapes, CallShape, OfOne
<1>4. /\ excuses \subseteq excuses' /\ excuses' \subseteq excuses \cup {"overtaken"}
      /\ "overtaken" \notin excuses' => \A t \in Procs : calls[t].kind \notin {"submit", "relist"}
    BY <1>2, Overtakes
<1>5. "adrift" \in excuses' => "unanswered" \in excuses' BY <1>1, <1>4 DEF NavInv
<1>6. CASE store[c].stage # "deleted"
  <2>1. CC!Replies(s, CC!Error) /\ UNCHANGED store BY <1>6 DEF CC!ServesUndo
  <2>2. Answers(s, CC!Error) BY <1>1, <2>1, Replied
  <2> QED BY <1>2, <1>4, <1>5, <2>1, <2>2, ErrorIs, RefusedStep
<1>7. CASE store[c].stage = "deleted"
  <2>1. store' = [store EXCEPT ![c].stage = "active", ![c].age = n] /\ CC!Replies(s, y)
      BY <1>7 DEF CC!ServesUndo
  <2>2. ReplyShape(y) /\ y.out = "ok" BY NoReplyIs DEF ReplyShape, ReplyFields
  <2> DEFINE h == [store[c] EXCEPT !.stage = "active", !.age = n]
  <2>3. store \in [Convs -> Stored] /\ store[c] \in Stored BY <1>1, <1>3 DEF ChatShapes, Stored
  <2>4. store' = [store EXCEPT ![c] = h] BY <1>3, <2>1, <2>3
  <2>5. n \in Nat BY <1>1, <1>3, NowIs
  <2> HIDE DEF n
  <2>6. h \in Stored /\ h.stage = "active" /\ h.turns = store[c].turns BY <2>3, <2>5 DEF Stored, Stages
  <2> HIDE DEF h, y
  <2>7. OnlyRow(c) /\ store'[c] = h BY <1>1, <1>3, <2>4, <2>6, PutRow
  <2>8. Answers(s, y) BY <1>1, <2>1, Replied
  <2>9. /\ OnlyCall(s) /\ calls'[s].kind = "undo" /\ calls'[s].conv = c /\ Ok(calls'[s])
      BY <1>2, <2>2, <2>8 DEF Answers, Ok
  <2>10. CallShape(calls'[s], asks)
      BY <1>1, <1>2, <2>2, <2>8, AnsweredShaped DEF Reads
  <2>11. asks \in Nat BY <1>1 DEF ChatShapes
  <2>12. DOMAIN calls' = Procs /\ \A t \in Procs : CallShape(calls'[t], asks')
      BY <1>1, <1>2, <2>9, <2>10, <2>11, CallsShaped
  <2>13. ChatShapes' BY <1>1, <1>2, <2>7, <2>12 DEF ChatShapes, OnlyRow, Stored
  <2>14. \A d \in Convs : store'[d].turns = store[d].turns BY <2>6, <2>7 DEF OnlyRow
  <2>15. SendInv'
    <3>1. TurnsStay BY <2>14, TurnsSame
    <3>2. SendsOn(s) BY <1>2, <2>8, <2>9 DEF SendsOn, Placed, Unplaced, Answers
    <3> QED BY <1>1, <1>2, <1>4, <2>11, <3>1, <3>2, SendHeavy
  <2>16. NavInv'
    <3>1. CASE "overtaken" \in excuses' BY <1>5, <3>1 DEF NavInv, NavAlone, Excused, Astray
    <3>2. CASE "overtaken" \notin excuses'
      <4>1. NavKept
          BY <1>2, <1>4, <2>9, <2>12, <2>14, <3>2, Navigating DEF NavKept, OnlyCall
      <4> QED BY <1>1, <1>4, <1>5, <4>1, NavLight
    <3> QED BY <3>1, <3>2
  <2>17. DeleteInv'
    <3>1. \A d \in Convs : (IsActive(d) => IsActive(d)') /\ (store'[d].stage = "deleted" => store[d].stage = "deleted")
        BY <2>6, <2>7 DEF IsActive, OnlyRow
    <3>2. Harmless(s)
      <4>1. c \in Convs /\ store'[c].stage = "active" BY <1>3, <2>6, <2>7
      <4>2. IsActive(calls[s].conv)' BY <2>9, <4>1 DEF IsActive
      <4> QED BY <1>2, <2>9, <4>2 DEF Harmless, CC!Lists
    <3>3. DeletesKept BY <1>2, <1>4, <2>9, <2>12, <3>1, <3>2 DEF DeletesKept, OnlyCall
    <3> QED BY <1>1, <3>3, DeletesLight
  <2> QED BY <2>13, <2>15, <2>16, <2>17 DEF ChatInv
<1> QED BY <1>6, <1>7

-----------------------------------------------------------------------------
(* The server takes a turn on. *)

WorksAt(s, c) ==
    /\ OnlyCall(s) /\ DOMAIN calls'[s] = DOMAIN calls[s] /\ calls'[s].at = "working" /\ calls'[s].place = c
    /\ calls'[s].kind = calls[s].kind /\ calls'[s].conv = calls[s].conv /\ calls'[s].key = calls[s].key
    /\ calls'[s].prompt = calls[s].prompt /\ calls'[s].seen = calls[s].seen /\ calls'[s].owner = calls[s].owner
    /\ calls'[s].reply = calls[s].reply

LEMMA PutToWork ==
    ASSUME ChatShapes, NEW s \in Procs, NEW c \in Convs, calls[s].kind \in {"submit", "retry"}, calls[s].at = "sent",
           Employs(s, c), asks' = asks
    PROVE  /\ WorksAt(s, c) /\ DOMAIN calls' = Procs /\ \A t \in Procs : CallShape(calls'[t], asks')
           /\ calls[s].reply.out = "none"
<1>1. DOMAIN calls = Procs /\ CallShape(calls[s], asks) /\ asks \in Nat BY DEF ChatShapes
<1> DEFINE m == [calls[s] EXCEPT !.at = "working", !.place = c]
<1>2. calls' = [calls EXCEPT ![s] = m] BY <1>1 DEF Employs
<1>3. /\ DOMAIN m = CallFields /\ m.at = "working" /\ m.place = c /\ m.reply = calls[s].reply
      /\ m.kind = calls[s].kind /\ m.conv = calls[s].conv /\ m.key = calls[s].key
      /\ m.prompt = calls[s].prompt /\ m.seen = calls[s].seen /\ m.owner = calls[s].owner
    BY <1>1 DEF CallShape, CallFields
<1> HIDE DEF m
<1>4. OnlyCall(s) /\ calls'[s] = m BY <1>1, <1>2, PutCall
<1>5. WorksAt(s, c) BY <1>1, <1>3, <1>4 DEF WorksAt, CallShape
<1>6. calls[s].reply.out = "none" BY <1>1 DEF CallShape
<1>7. CallShape(m, asks)
    BY <1>1, <1>3 DEF CallShape, Ids, Ok
<1>8. DOMAIN calls' = Procs /\ \A t \in Procs : CallShape(calls'[t], asks')
    BY <1>1, <1>4, <1>7, CallsShaped
<1> QED BY <1>5, <1>6, <1>8

LEMMA AcceptsSubmitStep == ASSUME ChatInv, NEW s \in Procs, CC!AcceptsSubmit(s) PROVE ChatInv'
<1>1. ChatShapes /\ SendInv /\ NavInv /\ DeleteInv BY DEF ChatInv
<1> DEFINE key == calls[s].key
           prompt == calls[s].prompt
           turn == [key |-> key, prompt |-> prompt, status |-> "pending"]
           b == calls[s].conv
<1>2. /\ calls[s].at = "sent" /\ calls[s].kind = "submit"
      /\ UNCHANGED <<shown, listed, draft, sending, toast, timers, typed, asks, chosen, last, excuses>>
    BY DEF CC!AcceptsSubmit, CC!Rest, CC!pageVars
<1>3. PICK c \in IF b = None THEN {d \in Convs : store[d].stage = "absent"} ELSE {b} :
         IF \/ b # None /\ store[c].stage # "active"
            \/ \E i \in DOMAIN store[c].turns : store[c].turns[i].status = "pending"
         THEN CC!Replies(s, CC!Error) /\ UNCHANGED store
         ELSE /\ store' = [store EXCEPT ![c] = [stage |-> "active", age |-> CC!Now, turns |-> Append(store[c].turns, turn)]]
              /\ Employs(s, c)
    BY DEF CC!AcceptsSubmit, Employs
<1>4. /\ CallShape(calls[s], asks) /\ b \in Ids /\ key \in 1..asks /\ prompt \in 1..MaxPrompts /\ calls[s].owner = "submit"
    BY <1>1, <1>2 DEF ChatShapes, CallShape
<1>5. c \in Convs /\ (b # None => c = b) /\ (b = None => store[c].stage = "absent") BY <1>3, <1>4 DEF Ids
<1>6. CASE CC!Replies(s, CC!Error) /\ UNCHANGED store
  <2>1. Answers(s, CC!Error) BY <1>1, <1>6, Replied
  <2>2. "adrift" \in excuses' => "unanswered" \in excuses' BY <1>1, <1>2 DEF NavInv
  <2> QED BY <1>2, <1>6, <2>1, <2>2, ErrorIs, RefusedStep
<1>7. ASSUME /\ b # None => store[c].stage = "active"
             /\ store' = [store EXCEPT ![c] = [stage |-> "active", age |-> CC!Now, turns |-> Append(store[c].turns, turn)]]
             /\ Employs(s, c)
      PROVE  ChatInv'
  <2> DEFINE q == store[c].turns
             e == Len(q) + 1
             n == CC!Now
             r == Append(q, turn)
             h == [stage |-> "active", age |-> n, turns |-> r]
  <2>1. /\ WorksAt(s, c) /\ DOMAIN calls' = Procs /\ \A t \in Procs : CallShape(calls'[t], asks')
        /\ calls[s].reply.out = "none"
      BY <1>1, <1>2, <1>5, <1>7, PutToWork
  <2>2. /\ OnlyCall(s) /\ calls'[s].at = "working" /\ calls'[s].place = c /\ calls'[s].kind = "submit"
        /\ calls'[s].conv = b /\ calls'[s].key = key /\ calls'[s].prompt = prompt /\ calls'[s].seen = calls[s].seen
        /\ calls'[s].owner = "submit" /\ calls'[s].reply.out = "none" /\ ~Ok(calls'[s])
      BY <1>2, <1>4, <2>1 DEF WorksAt, Ok
  <2>3. asks \in Nat /\ asks <= MaxAsks /\ MaxAsks \in Nat /\ MaxPrompts \in Nat
      BY <1>1, ChatConstants DEF ChatShapes
  <2>4. turn \in CC!Turn BY <1>4, <2>3 DEF CC!Turn
  <2>5. turn.key = key /\ turn.prompt = prompt /\ turn.status = "pending" OBVIOUS
  <2>6. q \in Seq(CC!Turn) BY <1>1, <1>5 DEF ChatShapes
  <2> HIDE DEF turn
  <2>7. /\ DOMAIN q = 1..Len(q) /\ Len(q) \in Nat /\ r \in Seq(CC!Turn) /\ DOMAIN r = 1..e /\ e \notin DOMAIN q
        /\ r[e] = turn /\ \A i \in DOMAIN q : r[i] = q[i] /\ i \in DOMAIN r
      BY <2>4, <2>6
  <2>8. \A i \in DOMAIN r : i = e \/ i \in DOMAIN q BY <2>7
  <2>9. n \in Nat BY <1>1, <1>5, NowIs
  <2> HIDE DEF n, q, e
  <2>10. store' = [store EXCEPT ![c] = h] BY <1>7 DEF n, q
  <2> HIDE DEF r
  <2>11. h \in Stored /\ h.stage = "active" /\ h.turns = r BY <2>7, <2>9 DEF Stored, Stages
  <2> HIDE DEF h
  <2>12. OnlyRow(c) /\ store'[c] = h BY <1>1, <1>5, <2>10, <2>11, PutRow
  <2>13. \A d \in Convs : d # c => store'[d] = store[d] BY <2>12 DEF OnlyRow
  <2>14. ChatShapes' BY <1>1, <1>2, <2>1, <2>12 DEF ChatShapes, OnlyRow, Stored
  <2>15. \A t \in Procs : t # s => calls'[t] = calls[t] /\ calls[t].kind # "submit" /\ calls[t].owner # "submit"
      BY <1>1, <1>4, <2>2 DEF OnlyCall, SendInv, OneSender, ChatShapes, CallShape
  <2>16. ASSUME NEW d \in Convs, NEW i \in DOMAIN store'[d].turns
         PROVE  \/ i \in DOMAIN store[d].turns /\ store'[d].turns[i] = store[d].turns[i]
                \/ d = c /\ i = e /\ store'[d].turns[i] = turn
      BY <2>7, <2>8, <2>11, <2>12, <2>13 DEF q
  <2>17. SendInv'
    <3>1. OneSender' BY <1>1, <1>2, <1>4, <2>2, <2>15 DEF SendInv, OneSender
    <3>2. ASSUME NEW d \in Convs, NEW i \in DOMAIN store[d].turns
          PROVE  store[d].turns[i].key # key /\ store[d].turns[i].key <= asks /\ store[d].turns[i].prompt <= typed
        BY <1>1, <1>2 DEF SendInv, KeysApart, PromptsKnown
    <3>3. KeysApart'
      <4>1. \A d \in Convs : \A i, j \in DOMAIN store'[d].turns :
               store'[d].turns[i].key = store'[d].turns[j].key => i = j
          BY <1>1, <2>5, <2>16, <3>2 DEF SendInv, KeysApart
      <4>2. \A d \in Convs : \A i \in DOMAIN store'[d].turns : store'[d].turns[i].key <= asks'
          BY <1>2, <1>4, <2>3, <2>5, <2>16, <3>2
      <4>3. \A t \in Procs : ~(calls'[t].kind = "submit" /\ calls'[t].at = "sent")
          BY <2>2, <2>15
      <4> QED BY <4>1, <4>2, <4>3 DEF KeysApart
    <3>4. prompt <= typed BY <1>1, <1>2 DEF SendInv, PromptsKnown
    <3>5. PromptsKnown'
      <4>1. \A d \in Convs : \A i \in DOMAIN store'[d].turns : store'[d].turns[i].prompt <= typed'
          BY <1>2, <2>5, <2>16, <3>2, <3>4
      <4> QED BY <1>2, <2>2, <2>15, <3>4, <4>1 DEF PromptsKnown
    <3>6. PromptsOnce'
      <4>1. SUFFICES ASSUME "unanswered" \notin excuses' PROVE PromptsOnce' BY DEF PromptsOnce
      <4>2. PromptsApart /\ ~Prompted(prompt)
          BY <1>1, <1>2, <4>1 DEF SendInv, PromptsOnce, Unplaced
      <4>3. ASSUME NEW d \in Convs, NEW i \in DOMAIN store[d].turns PROVE store[d].turns[i].prompt # prompt
          BY <4>2 DEF Prompted
      <4>4. PromptsApart' BY <2>5, <2>16, <4>2, <4>3 DEF PromptsApart
      <4>5. \A t \in Procs : ~Unplaced(calls'[t]) BY <2>2, <2>15 DEF Unplaced
      <4>6. Placed(calls'[s]) BY <2>2 DEF Placed
      <4> QED BY <4>4, <4>5, <4>6 DEF PromptsOnce
    <3> QED BY <3>1, <3>3, <3>5, <3>6 DEF SendInv
  <2>18. NavInv'
    <3>1. calls[s].kind \in CC!Navigates BY <1>2, Navigating
    <3>2. "overtaken" \notin excuses' => Clear(s) /\ calls'[s].seen.id = shown'.id
        BY <1>1, <1>2, <2>2, <3>1, Solo DEF NavInv, NavAlone
    <3>3. ASSUME ~Excused(Astray)' PROVE PendingAtWork' /\ NavCall(calls[s])'
      <4>1. ~Excused(Astray) /\ "overtaken" \notin excuses BY <1>2, <3>3 DEF Excused, Astray
      <4>2. \A d \in Convs : ~Waits(store[d].turns) BY <1>1, <1>2, <3>1, <4>1, Solo, WorksAlone
      <4>3. ASSUME NEW d \in Convs, NEW i \in DOMAIN store'[d].turns, store'[d].turns[i].status = "pending"
            PROVE  calls'[s].place = d /\ calls'[s].key = store'[d].turns[i].key
          BY <2>2, <2>5, <2>16, <4>2, <4>3 DEF Waits
      <4>4. PendingAtWork' BY <2>2, <4>3 DEF PendingAtWork
      <4>5. NavCall(calls[s]) BY <1>1, <4>1 DEF NavInv
      <4>6. NavCall(calls[s])'
          BY <1>2, <1>5, <2>2, <4>5 DEF NavCall, TurnCall, SubmitCall, Waits
      <4> QED BY <4>4, <4>6
    <3>4. NavMoves(s)
        BY <1>1, <1>2, <2>2, <3>2, <3>3, Navigating DEF NavMoves, NavInv, Waiting
    <3> QED BY <3>4, NavHeavy
  <2>19. DeleteInv'
    <3>1. \A d \in Convs : (IsActive(d) => IsActive(d)') /\ (store'[d].stage = "deleted" => store[d].stage = "deleted")
        BY <2>11, <2>12, <2>13 DEF IsActive
    <3>2. Harmless(s) BY <1>2, <2>2 DEF Harmless
    <3>3. DeletesKept BY <1>2, <2>1, <2>2, <3>1, <3>2 DEF DeletesKept, OnlyCall
    <3> QED BY <1>1, <3>3, DeletesLight
  <2> QED BY <2>14, <2>17, <2>18, <2>19 DEF ChatInv
<1> QED BY <1>3, <1>6, <1>7

\* The turn was answered for before: the server says so again.
LEMMA AnsweredBefore ==
    ASSUME ChatInv, NEW s \in Procs, NEW y, Answers(s, y), ReplyShape(y), y.out = "ok", y.rows = {},
           calls[s].kind = "retry", calls[s].at = "sent",
           y.thread.id = calls[s].conv, y.thread.turns = store[calls[s].conv].turns, IsActive(calls[s].conv),
           UNCHANGED <<store, shown, listed, draft, sending, toast, timers, typed, asks, chosen, last, excuses>>
    PROVE  ChatInv'
<1>1. ChatShapes /\ SendInv /\ NavInv /\ DeleteInv BY DEF ChatInv
<1>2. CallShape(calls[s], asks) /\ calls[s].conv \in Convs BY <1>1 DEF ChatShapes, CallShape, OfOne
<1>3. /\ OnlyCall(s) /\ calls'[s].kind = "retry" /\ calls'[s].at = "answered" /\ calls'[s].reply = y
      /\ calls'[s].conv = calls[s].conv /\ Ok(calls'[s])
    BY DEF Answers, Ok
<1>4. CallShape(calls'[s], asks) BY <1>1, <1>2, AnsweredShaped
<1>5. asks \in Nat BY <1>1 DEF ChatShapes
<1>6. DOMAIN calls' = Procs /\ \A t \in Procs : CallShape(calls'[t], asks')
    BY <1>1, <1>3, <1>4, <1>5, CallsShaped
<1>7. ChatShapes' BY <1>1, <1>6 DEF ChatShapes
<1>8. SendInv'
  <2>1. TurnsStay BY TurnsSame
  <2>2. SendsOn(s) BY <1>3 DEF SendsOn, Placed, Unplaced, Answers
  <2> QED BY <1>1, <1>5, <2>1, <2>2, SendHeavy
<1>9. NavInv'
  <2>1. calls[s].kind \in CC!Navigates BY Navigating
  <2>2. ASSUME ~Excused(Astray)' PROVE PendingAtWork' /\ NavCall(calls[s])'
    <3>1. ~Excused(Astray) /\ "overtaken" \notin excuses BY <2>2 DEF Excused, Astray
    <3>2. \A c \in Convs : ~Waits(store[c].turns) BY <1>1, <2>1, <3>1, Solo, WorksAlone
    <3>3. PendingAtWork' BY <3>2 DEF PendingAtWork, Waits
    <3>4. NavCall(calls[s]) BY <1>1, <3>1 DEF NavInv
    <3>5. NavCall(calls[s])' BY <1>2, <1>3, <3>2, <3>4 DEF NavCall, TurnCall, Waits
    <3> QED BY <3>3, <3>5
  <2>3. NavMoves(s) BY <1>1, <1>3, <2>1, <2>2, Solo, Navigating DEF NavMoves, NavInv, Waiting
  <2> QED BY <2>3, NavHeavy
<1>10. DeleteInv'
  <2>1. IsActive(calls[s].reply.thread.id)' BY <1>3 DEF IsActive
  <2>2. Harmless(s) BY <1>3, <2>1 DEF Harmless
  <2>3. DeletesKept BY <1>3, <1>6, <2>2 DEF DeletesKept, OnlyCall, IsActive
  <2> QED BY <1>1, <2>3, DeletesLight
<1> QED BY <1>7, <1>8, <1>9, <1>10 DEF ChatInv

LEMMA AcceptsRetryStep == ASSUME ChatInv, NEW s \in Procs, CC!AcceptsRetry(s) PROVE ChatInv'
<1>1. ChatShapes /\ SendInv /\ NavInv /\ DeleteInv BY DEF ChatInv
<1>2. /\ calls[s].at = "sent" /\ calls[s].kind = "retry"
      /\ UNCHANGED <<shown, listed, draft, sending, toast, timers, typed, asks, chosen, last, excuses>>
    BY DEF CC!AcceptsRetry, CC!Rest, CC!pageVars
<1> DEFINE key == calls[s].key
           c == calls[s].conv
           found == {i \in DOMAIN store[c].turns : store[c].turns[i].key = key}
           e == CHOOSE i \in found : TRUE
           status == IF found = {} THEN "none" ELSE store[c].turns[e].status
<1>3. \/ status = "failed" /\ Rewrites(c, e, "pending") /\ Employs(s, c)
      \/ CC!Replies(s, CC!Detail(c)) /\ UNCHANGED store
      \/ CC!Replies(s, CC!Error) /\ UNCHANGED store
    BY DEF CC!AcceptsRetry, Rewrites, Employs
<1>3a. status = "failed" => e \in DOMAIN store[c].turns /\ store[c].turns[e].key = key
  <2>1. found # {} => e \in found
    <3> HIDE DEF found, status
    <3> QED BY Zenon
  <2> HIDE DEF e
  <2> QED BY <2>1
<1> HIDE DEF status, e, found
<1>4. CallShape(calls[s], asks) /\ c \in Convs BY <1>1, <1>2 DEF ChatShapes, CallShape, OfOne
<1>5. "adrift" \in excuses' => "unanswered" \in excuses' BY <1>1, <1>2 DEF NavInv
<1>6. ASSUME CC!Replies(s, CC!Error), UNCHANGED store PROVE ChatInv'
  <2>1. Answers(s, CC!Error) BY <1>1, <1>6, Replied
  <2> QED BY <1>2, <1>5, <1>6, <2>1, ErrorIs, RefusedStep
<1>7. ASSUME CC!Replies(s, CC!Detail(c)), UNCHANGED store PROVE ChatInv'
  <2>1. Answers(s, CC!Detail(c)) BY <1>1, <1>7, Replied
  <2> DEFINE y == CC!Detail(c)
  <2>2. /\ ReplyShape(y) /\ y.out \in {"ok", "error"} /\ y.rows = {}
        /\ y.out = "ok" => y.thread.id = c /\ y.thread.turns = store[c].turns /\ IsActive(c)
      BY <1>1, <1>4, DetailIs
  <2> HIDE DEF y
  <2>3. Answers(s, y) BY <2>1 DEF y
  <2>4. CASE y.out = "error" BY <1>2, <1>5, <1>7, <2>2, <2>3, <2>4, RefusedStep
  <2>5. CASE y.out = "ok" BY <1>2, <1>7, <2>2, <2>3, <2>5, AnsweredBefore
  <2> QED BY <2>2, <2>4, <2>5
<1>8. ASSUME status = "failed", Rewrites(c, e, "pending"), Employs(s, c) PROVE ChatInv'
  <2>1. /\ WorksAt(s, c) /\ DOMAIN calls' = Procs /\ \A t \in Procs : CallShape(calls'[t], asks')
        /\ calls[s].reply.out = "none"
      BY <1>1, <1>2, <1>4, <1>8, PutToWork
  <2>2. /\ OnlyCall(s) /\ calls'[s].at = "working" /\ calls'[s].place = c /\ calls'[s].kind = "retry"
        /\ calls'[s].conv = c /\ calls'[s].key = key /\ calls'[s].owner = calls[s].owner
        /\ ~Ok(calls'[s])
      BY <1>2, <2>1 DEF WorksAt, Ok
  <2>3. e \in DOMAIN store[c].turns /\ store[c].turns[e].key = key BY <1>3a, <1>8
  <2>4. Restated(c, e, "pending") BY <1>1, <1>4, <1>8, <2>3, Restates
  <2>5. TurnsStay /\ \A d \in Convs : store'[d].stage = store[d].stage /\ (IsActive(d)' <=> IsActive(d))
      BY <1>4, <2>4, RestatedStays
  <2>6. ChatShapes' BY <1>1, <1>2, <2>1, <2>4 DEF ChatShapes, Restated, OnlyRow, Stored
  <2>7. SendInv'
    <3>1. SendsOn(s) BY <1>2, <2>2 DEF SendsOn, Placed, Unplaced
    <3>2. asks \in Nat BY <1>1 DEF ChatShapes
    <3> QED BY <1>1, <1>2, <2>5, <3>1, <3>2, SendHeavy
  <2>8. NavInv'
    <3>1. calls[s].kind \in CC!Navigates BY <1>2, Navigating
    <3>2. ASSUME ~Excused(Astray)' PROVE PendingAtWork' /\ NavCall(calls[s])'
      <4>1. ~Excused(Astray) /\ "overtaken" \notin excuses BY <1>2, <3>2 DEF Excused, Astray
      <4>2. \A d \in Convs : ~Waits(store[d].turns) BY <1>1, <1>2, <3>1, <4>1, Solo, WorksAlone
      <4>3. ASSUME NEW d \in Convs, NEW i \in DOMAIN store'[d].turns, store'[d].turns[i].status = "pending"
            PROVE  calls'[s].place = d /\ calls'[s].key = store'[d].turns[i].key
        <5>1. d = c /\ i = e BY <2>4, <4>2, <4>3 DEF Restated, OnlyRow, Waits
        <5> QED BY <2>2, <2>3, <2>4, <5>1 DEF Restated
      <4>4. PendingAtWork' BY <2>2, <4>3 DEF PendingAtWork
      <4>5. NavCall(calls[s]) BY <1>1, <4>1 DEF NavInv
      <4>6. NavCall(calls[s])' BY <1>2, <1>4, <2>2, <4>5 DEF NavCall, TurnCall
      <4> QED BY <4>4, <4>6
    <3>3. NavMoves(s)
        BY <1>1, <1>2, <2>2, <3>1, <3>2, Solo, Navigating DEF NavMoves, NavInv, Waiting
    <3> QED BY <3>3, NavHeavy
  <2>9. DeleteInv'
    <3>1. Harmless(s) BY <1>2, <2>2 DEF Harmless
    <3>2. DeletesKept BY <1>2, <2>1, <2>2, <2>5, <3>1 DEF DeletesKept, OnlyCall
    <3> QED BY <1>1, <3>2, DeletesLight
  <2> QED BY <2>6, <2>7, <2>8, <2>9 DEF ChatInv
<1> HIDE DEF c
<1> QED BY <1>3, <1>6, <1>7, <1>8, Zenon

\* The only turn that waits is resolved: nothing waits, and c is the newest.
LEMMA NothingWaits ==
    ASSUME ChatInv, ~Excused(Astray), NEW s \in Procs, Clear(s), NEW c \in Convs, calls[s].place = c,
           NEW i \in DOMAIN store[c].turns, store[c].turns[i].key = calls[s].key,
           NEW status \in {"completed", "failed"}, Restated(c, i, status)
    PROVE  \A d \in Convs : ~Waits(store[d].turns)'
<1>1. ChatShapes /\ NavInv /\ KeysApart BY DEF ChatInv, SendInv
<1>2. ASSUME NEW d \in Convs, NEW j \in DOMAIN store'[d].turns, store'[d].turns[j].status = "pending" PROVE FALSE
  <2>1. j \in DOMAIN store[d].turns /\ (d = c => j # i) /\ store[d].turns[j].status = "pending"
      BY <1>2 DEF Restated, OnlyRow
  <2>2. calls[s].place = d /\ calls[s].key = store[d].turns[j].key BY <1>1, <2>1, WorksAlone DEF Waits
  <2> QED BY <1>1, <2>1, <2>2 DEF KeysApart
<1> QED BY <1>2 DEF Waits

LEMMA ResolvesStep == ASSUME ChatInv, NEW s \in Procs, CC!Resolves(s) PROVE ChatInv'
<1>1. ChatShapes /\ SendInv /\ NavInv /\ DeleteInv BY DEF ChatInv
<1> DEFINE key == calls[s].key
           c == calls[s].place
<1>2. /\ calls[s].at = "working" /\ CC!Excuse("unanswered", store[c].stage # "active")
      /\ UNCHANGED <<shown, listed, draft, sending, toast, timers, typed, asks, chosen, last>>
    BY DEF CC!Resolves, CC!Rest, CC!pageVars
<1>3. /\ CallShape(calls[s], asks) /\ c \in Convs /\ calls[s].kind \in {"submit", "retry"}
      /\ calls[s].reply.out = "none"
  <2>1. calls[s].at = "working" /\ CallShape(calls[s], asks) BY <1>1, <1>2 DEF ChatShapes
  <2> QED BY <2>1 DEF CallShape
<1> DEFINE thread == [id |-> c, turns |-> store'[c].turns]
           good == [CC!NoReply EXCEPT !.out = "ok", !.thread = thread]
           sorry == [CC!NoReply EXCEPT !.out = "failed"]
<1>4. PICK i \in DOMAIN store[c].turns, status \in {"completed", "failed"} :
         /\ store[c].turns[i].key = key
         /\ Rewrites(c, i, status)
         /\ CC!Replies(s, IF status = "failed" THEN sorry ELSE IF store[c].stage = "active" THEN good ELSE CC!Error)
    BY DEF CC!Resolves, Rewrites
<1>5. Restated(c, i, status) BY <1>1, <1>3, <1>4, Restates
<1>6. TurnsStay /\ \A d \in Convs : store'[d].stage = store[d].stage /\ (IsActive(d)' <=> IsActive(d))
    BY <1>3, <1>5, RestatedStays
<1> DEFINE y == IF status = "failed" THEN sorry ELSE IF store[c].stage = "active" THEN good ELSE CC!Error
<1>7. Answers(s, y) BY <1>1, <1>4, Replied
<1>8. thread \in Threads /\ thread.id = c /\ thread.turns = store'[c].turns
    BY <1>3, <1>5 DEF Threads, Restated, OnlyRow, Stored
<1> HIDE DEF thread
<1>9. /\ ReplyShape(good) /\ good.out = "ok" /\ good.thread = thread /\ good.rows = {}
      /\ ReplyShape(sorry) /\ sorry.out = "failed"
    BY <1>8, NoReplyIs DEF ReplyShape, ReplyFields
<1> HIDE DEF good, sorry
<1>10. /\ ReplyShape(y) /\ y.out \in {"ok", "failed", "error"}
       /\ y.out = "ok" => y.thread.id = c /\ y.thread.turns = store'[c].turns /\ y.rows = {}
       /\ y.out \in {"ok", "error"} => (y.out = "ok" <=> store[c].stage = "active")
    BY <1>4, <1>8, <1>9, ErrorIs
<1> HIDE DEF y
<1>11. /\ excuses \subseteq excuses' /\ excuses' \subseteq excuses \cup {"unanswered"}
       /\ "unanswered" \notin excuses' => store[c].stage = "active"
    BY <1>2 DEF CC!Excuse
<1>12. /\ OnlyCall(s) /\ calls'[s].at = "answered" /\ calls'[s].reply = y /\ calls'[s].kind = calls[s].kind
       /\ calls'[s].conv = calls[s].conv /\ calls'[s].place = c /\ calls'[s].seen = calls[s].seen
    BY <1>7 DEF Answers
<1>13. CallShape(calls'[s], asks) BY <1>1, <1>2, <1>3, <1>7, <1>10, AnsweredShaped
<1>14. asks \in Nat BY <1>1 DEF ChatShapes
<1>15. DOMAIN calls' = Procs /\ \A t \in Procs : CallShape(calls'[t], asks')
    BY <1>1, <1>2, <1>12, <1>13, <1>14, CallsShaped
<1>16. ChatShapes' BY <1>1, <1>2, <1>5, <1>15 DEF ChatShapes, Restated, OnlyRow, Stored
<1>17. SendInv'
  <2>1. SendsOn(s) BY <1>2, <1>3, <1>7, <1>10, <1>11 DEF SendsOn, Placed, Unplaced, Answers
  <2> QED BY <1>1, <1>2, <1>6, <1>11, <1>14, <2>1, SendHeavy
<1>18. NavInv'
  <2>1. calls[s].kind \in CC!Navigates BY <1>3, Navigating
  <2>2. "overtaken" \notin excuses' => Clear(s) /\ (calls'[s].kind = "submit" => calls'[s].seen.id = shown'.id)
      BY <1>1, <1>2, <1>11, <1>12, <2>1, Solo DEF NavInv, NavAlone
  <2>3. ASSUME ~Excused(Astray)' PROVE PendingAtWork' /\ NavCall(calls[s])'
    <3>1. ~Excused(Astray) /\ Clear(s) /\ store[c].stage = "active"
        BY <1>11, <2>2, <2>3 DEF Excused, Astray
    <3>2. \A d \in Convs : ~Waits(store[d].turns)' BY <1>3, <1>4, <1>5, <3>1, NothingWaits
    <3>3. PendingAtWork' BY <3>2 DEF PendingAtWork, Waits
    <3>4. NavCall(calls[s]) BY <1>1, <3>1 DEF NavInv
    <3>5. calls[s].conv # None => c = calls[s].conv BY <1>2, <1>3, <3>4 DEF NavCall, TurnCall
    <3>6. calls[s].kind = "retry" => calls[s].conv \in Convs /\ calls[s].conv # None
        BY <1>3, ChatConstants DEF CallShape, OfOne
    <3>7. TurnCall(calls[s])'
        BY <1>2, <1>3, <1>10, <1>12, <3>4, <3>5, <3>6 DEF NavCall, TurnCall, Ok
    <3>8. store'[c].stage = "active" /\ \A d \in Convs \ {c} : store'[d].age < store'[c].age
      <4>1. \A d \in Convs : store[d].age < CC!Now BY <1>1, <1>3, NowIs
      <4> QED BY <1>5, <3>1, <4>1 DEF Restated, OnlyRow
    <3>9. calls[s].kind = "submit" => SubmitCall(calls[s])'
      <4>1. calls[s].kind = "submit" => ~Waits(calls[s].seen.turns) BY <3>4 DEF NavCall, SubmitCall
      <4> QED BY <1>12, <3>8, <4>1 DEF SubmitCall, Newest, Waits
    <3>10. Ok(calls'[s]) => ~Waits(calls[s].reply.thread.turns)'
        BY <1>3, <1>10, <1>12, <3>2 DEF Ok, Waits
    <3> QED BY <1>3, <1>12, <3>3, <3>7, <3>9, <3>10 DEF NavCall
  <2>4. NavMoves(s)
      BY <1>1, <1>3, <1>11, <1>12, <2>2, <2>3, Navigating DEF NavMoves, NavInv, Waiting
  <2> QED BY <2>4, NavHeavy
<1>19. DeleteInv'
  <2>1. Ok(calls'[s]) => IsActive(calls[s].reply.thread.id)' /\ calls'[s].reply.rows = {}
      BY <1>3, <1>6, <1>10, <1>12 DEF Ok, IsActive
  <2>2. Harmless(s) BY <1>3, <1>12, <2>1 DEF Harmless
  <2>3. DeletesKept BY <1>2, <1>6, <1>11, <1>12, <1>15, <2>2 DEF DeletesKept, OnlyCall
  <2> QED BY <1>1, <2>3, DeletesLight
<1> QED BY <1>16, <1>17, <1>18, <1>19, Zenon DEF ChatInv

-----------------------------------------------------------------------------
(* The handlers of the page. *)

LEMMA FinishedIs ==
    ASSUME ChatShapes, NEW s \in Procs, Finishes(s), asks' = asks
    PROVE  /\ OnlyCall(s) /\ calls'[s].kind = "none" /\ calls'[s].owner = "none" /\ ~Ok(calls'[s])
           /\ calls'[s].kind \notin CC!Navigates
           /\ DOMAIN calls' = Procs /\ \A t \in Procs : CallShape(calls'[t], asks')
           /\ NavCall(calls[s])' /\ (calls[s].kind # "delete" => Harmless(s))
<1>1. OnlyCall(s) /\ calls'[s] = CC!NoCall BY DEF Finishes
<1>2. calls'[s].kind = "none" /\ calls'[s].owner = "none" /\ ~Ok(calls'[s]) BY <1>1, NoCallIs DEF Ok
<1>3. asks \in Nat BY DEF ChatShapes
<1>4. CallShape(calls'[s], asks') BY <1>1, EmptyShaped
<1>5. DOMAIN calls' = Procs /\ \A t \in Procs : CallShape(calls'[t], asks') BY <1>1, <1>3, <1>4, CallsShaped
<1>6. calls'[s].kind \notin CC!Navigates BY <1>2, Navigating
<1>7. NavCall(calls[s])' BY <1>2 DEF NavCall, Ok
<1>8. calls[s].kind # "delete" => Harmless(s) BY <1>2 DEF Harmless
<1> QED BY <1>1, <1>2, <1>5, <1>6, <1>7, <1>8

LEMMA FollowedIs ==
    ASSUME ChatShapes, NEW s \in Procs, NEW kind \in {"relist", "reload"}, NEW c \in Ids, Follows(s, kind, c),
           kind = "reload" => c \in Convs, calls[s].kind # "delete", asks' = asks
    PROVE  /\ OnlyCall(s) /\ calls'[s].kind = kind /\ calls'[s].at = "sent" /\ calls'[s].conv = c /\ ~Ok(calls'[s])
           /\ calls'[s].owner = calls[s].owner /\ calls'[s].place = calls[s].place
           /\ DOMAIN calls' = Procs /\ \A t \in Procs : CallShape(calls'[t], asks')
           /\ Harmless(s)
<1>1. /\ OnlyCall(s) /\ calls'[s].kind = kind /\ calls'[s].at = "sent" /\ calls'[s].conv = c /\ ~Ok(calls'[s])
      /\ calls'[s].owner = calls[s].owner /\ calls'[s].place = calls[s].place
    BY DEF Follows, Opened, Ok
<1>2. asks \in Nat BY DEF ChatShapes
<1>3. CallShape(calls'[s], asks') BY FollowsShaped
<1>4. DOMAIN calls' = Procs /\ \A t \in Procs : CallShape(calls'[t], asks') BY <1>1, <1>2, <1>3, CallsShaped
<1>5. Harmless(s) BY <1>1 DEF Harmless
<1> QED BY <1>1, <1>4, <1>5

LEMMA AnsweredAlone ==
    ASSUME ChatShapes, NavInv, NEW s \in Procs, calls[s].kind \in CC!Navigates, calls[s].at = "answered",
           ~Excused(Astray), store' = store
    PROVE  /\ Clear(s) /\ NavCall(calls[s]) /\ PendingAtWork'
           /\ Waits(shown.turns) => calls[s].kind \in Waiting
<1>1. Clear(s) BY Solo DEF Excused, Astray
<1>2. \A c \in Convs : ~Waits(store[c].turns) BY <1>1, WorksAlone
<1>3. PendingAtWork' BY <1>2 DEF PendingAtWork, Waits
<1>4. Waits(shown.turns) => calls[s].kind \in Waiting BY <1>1, Navigating DEF NavInv, Clear, Waiting
<1> QED BY <1>1, <1>3, <1>4 DEF NavInv

\* Rows are listed.
LEMMA RowsStep ==
    ASSUME ChatInv, NEW s \in Procs, Finishes(s), calls[s].kind \in {"load", "more"},
           listed' \subseteq listed \cup (IF Ok(calls[s]) THEN calls[s].reply.rows ELSE {}),
           UNCHANGED <<store, shown, draft, sending, toast, timers, typed, asks, chosen, last, excuses>>
    PROVE  ChatInv'
<1>1. ChatShapes /\ SendInv /\ NavInv /\ DeleteInv BY DEF ChatInv
<1>2. /\ OnlyCall(s) /\ calls'[s].kind = "none" /\ calls'[s].owner = "none" /\ calls'[s].kind \notin CC!Navigates
      /\ DOMAIN calls' = Procs /\ \A t \in Procs : CallShape(calls'[t], asks')
      /\ Harmless(s)
    BY <1>1, FinishedIs
<1>3. calls[s].reply.rows \subseteq Convs BY <1>1 DEF ChatShapes, CallShape, ReplyShape
<1>4. ChatShapes' BY <1>1, <1>2, <1>3 DEF ChatShapes
<1>5. asks \in Nat BY <1>1 DEF ChatShapes
<1>6. SendInv'
  <2>1. LightCall(calls[s]) /\ LightCall(calls'[s]) BY <1>1, <1>2, LightCalls DEF Light, LightCall
  <2>2. LightSteps BY <1>2, <2>1 DEF LightSteps, OnlyCall
  <2>3. TurnsStay BY TurnsSame
  <2> QED BY <1>1, <1>5, <2>2, <2>3, SendLight
<1>7. NavInv'
  <2>1. calls[s].kind \notin CC!Navigates BY Navigating
  <2>2. NavKept BY <1>2, <2>1 DEF NavKept, OnlyCall, Newest
  <2>3. "adrift" \in excuses' => "unanswered" \in excuses' BY <1>1 DEF NavInv
  <2> QED BY <1>1, <2>2, <2>3, NavLight
<1>8. DeleteInv'
  <2>1. ASSUME ~Excused(Astern)', NEW c \in listed', c \notin listed PROVE IsActive(c)'
    <3>1. Ok(calls[s]) /\ c \in calls[s].reply.rows BY <2>1
    <3>2. ~Excused({"listing"}) BY <2>1 DEF Excused, Astern
    <3>3. IsActive(c) BY <1>1, <3>1, <3>2 DEF DeleteInv, CC!Lists
    <3> QED BY <3>3, IsActiveStays
  <2>2. DeletesKept BY <1>2, <2>1 DEF DeletesKept, OnlyCall, IsActive
  <2> QED BY <1>1, <2>2, DeletesLight
<1> QED BY <1>4, <1>6, <1>7, <1>8 DEF ChatInv

LEMMA LoadAnsweredStep == ASSUME ChatInv, NEW s \in Procs, CC!LoadAnswered(s) PROVE ChatInv'
<1>1. ChatShapes BY DEF ChatInv
<1>2. /\ calls[s].kind = "load" /\ calls[s].at = "answered" /\ CC!Done(s)
      /\ listed' = listed \/ (calls[s].reply.out = "ok" /\ listed' = calls[s].reply.rows)
      /\ UNCHANGED <<store, shown, draft, sending, toast, timers, typed, asks, chosen, last, excuses>>
    BY DEF CC!LoadAnswered, CC!Got, CC!Quietly, CC!Server
<1>3. Finishes(s) BY <1>1, <1>2, Finished
<1> QED BY <1>2, <1>3, RowsStep DEF Ok

LEMMA MoreAnsweredStep == ASSUME ChatInv, NEW s \in Procs, CC!MoreAnswered(s) PROVE ChatInv'
<1>1. ChatShapes BY DEF ChatInv
<1>2. /\ calls[s].kind = "more" /\ calls[s].at = "answered" /\ CC!Done(s)
      /\ listed' = listed \/ (calls[s].reply.out = "ok" /\ listed' = listed \cup calls[s].reply.rows)
      /\ UNCHANGED <<store, shown, draft, sending, toast, timers, typed, asks, chosen, last, excuses>>
    BY DEF CC!MoreAnswered, CC!Got, CC!Quietly, CC!Server
<1>3. Finishes(s) BY <1>1, <1>2, Finished
<1> QED BY <1>2, <1>3, RowsStep DEF Ok

\* The call that navigates is over.
LEMMA ArrivesStep ==
    ASSUME ChatInv, NEW s \in Procs, Finishes(s), calls[s].kind \in CC!Navigates, calls[s].at = "answered",
           shown' \in Threads, listed' \subseteq Convs, sending' = sending \/ calls[s].owner = "submit",
           draft' \in {0, draft}, Placed(calls[s]) => draft' = 0,
           excuses \subseteq excuses', "adrift" \in excuses' => "unanswered" \in excuses',
           ~Excused(Astray)' => shown'.id = chosen' /\ ~Waits(shown.turns)',
           ~Excused(Astern)' => \A c \in (listed' \cup {shown'.id}) \ {None} : c \in listed \cup {shown.id} \/ IsActive(c),
           UNCHANGED <<store, toast, timers, typed, asks, last>>
    PROVE  ChatInv'
<1>1. ChatShapes /\ SendInv /\ NavInv /\ DeleteInv BY DEF ChatInv
<1>2. /\ OnlyCall(s) /\ calls'[s].kind = "none" /\ calls'[s].owner = "none" /\ calls'[s].kind \notin CC!Navigates
      /\ DOMAIN calls' = Procs /\ \A t \in Procs : CallShape(calls'[t], asks')
      /\ NavCall(calls[s])' /\ (calls[s].kind # "delete" => Harmless(s))
    BY <1>1, FinishedIs
<1>3. asks \in Nat /\ draft' \in 0..typed BY <1>1 DEF ChatShapes
<1>4. ChatShapes' BY <1>1, <1>2, <1>3 DEF ChatShapes
<1>5. SendInv'
  <2>1. TurnsStay BY TurnsSame
  <2>2. SendsOn(s) BY <1>2 DEF SendsOn, Unplaced, Placed
  <2> QED BY <1>1, <1>3, <2>1, <2>2, SendHeavy
<1>6. NavInv'
  <2>1. ~Excused(Astray)' => ~Excused(Astray) BY DEF Excused
  <2>2. NavMoves(s)
      BY <1>1, <1>2, <2>1, AnsweredAlone, Solo DEF NavMoves
  <2> QED BY <2>2, NavHeavy
<1>7. DeleteInv'
  <2>1. calls[s].kind # "delete" BY Navigating
  <2>2. DeletesKept BY <1>2, <2>1 DEF DeletesKept, OnlyCall, IsActive
  <2> QED BY <1>1, <2>2, DeletesLight
<1> QED BY <1>4, <1>5, <1>6, <1>7 DEF ChatInv

\* The call that navigates reads what is stored.
LEMMA ReadsOnStep ==
    ASSUME ChatInv, NEW s \in Procs, NEW kind \in {"relist", "reload"}, NEW c \in Ids, Follows(s, kind, c),
           kind = "reload" => c \in Convs, calls[s].kind \in CC!Navigates, calls[s].at = "answered",
           listed' \subseteq Convs, draft' \in {0, draft}, Placed(calls[s]) => draft' = 0,
           ~Excused(Astray) /\ kind = "relist" => RelistCall(calls[s])',
           ~Excused(Astray) /\ kind = "reload" => ReloadCall(calls[s])',
           ~Excused(Astern) => \A d \in listed' : d \in listed \/ IsActive(d),
           UNCHANGED <<store, shown, sending, toast, timers, typed, asks, chosen, last, excuses>>
    PROVE  ChatInv'
<1>1. ChatShapes /\ SendInv /\ NavInv /\ DeleteInv BY DEF ChatInv
<1>2. /\ OnlyCall(s) /\ calls'[s].kind = kind /\ calls'[s].at = "sent" /\ ~Ok(calls'[s])
      /\ calls'[s].owner = calls[s].owner
      /\ DOMAIN calls' = Procs /\ \A t \in Procs : CallShape(calls'[t], asks')
      /\ Harmless(s)
    BY <1>1, Navigating, FollowedIs
<1>3. asks \in Nat /\ draft' \in 0..typed BY <1>1 DEF ChatShapes
<1>4. ChatShapes' BY <1>1, <1>2, <1>3 DEF ChatShapes
<1>5. SendInv'
  <2>1. TurnsStay BY TurnsSame
  <2>2. SendsOn(s) BY <1>2 DEF SendsOn, Unplaced, Placed
  <2> QED BY <1>1, <1>3, <2>1, <2>2, SendHeavy
<1>6. NavInv'
  <2>1. ASSUME ~Excused(Astray)'
        PROVE  /\ PendingAtWork' /\ NavCall(calls[s])'
               /\ Waits(shown.turns)' => calls'[s].kind \in Waiting
    <3>1. ~Excused(Astray) BY <2>1 DEF Excused
    <3>2. PendingAtWork' BY <1>1, <3>1, AnsweredAlone
    <3>3. NavCall(calls[s])' BY <1>2, <3>1 DEF NavCall, Ok
    <3>4. kind = "relist" => ~Waits(shown.turns)
        BY <3>1, NoThreadIs DEF RelistCall, Waits
    <3> QED BY <1>2, <3>2, <3>3, <3>4 DEF Waiting, Waits
  <2>2. NavMoves(s)
      BY <1>1, <1>2, <2>1, Solo, Navigating DEF NavMoves, NavInv
  <2> QED BY <2>2, NavHeavy
<1>7. DeleteInv'
  <2>1. DeletesKept
    <3>1. Excused(Astern)' \/ ~Excused(Astern) BY DEF Excused
    <3> QED BY <1>2, <3>1 DEF DeletesKept, OnlyCall, IsActive
  <2> QED BY <1>1, <2>1, DeletesLight
<1> QED BY <1>4, <1>5, <1>6, <1>7 DEF ChatInv

LEMMA ReplyThread ==
    ASSUME ChatShapes, NEW s \in Procs
    PROVE  /\ calls[s].reply.thread \in Threads /\ calls[s].seen \in Threads /\ calls[s].reply.rows \subseteq Convs
           /\ calls[s].reply.first \in Ids
           /\ Ok(calls[s]) /\ calls[s].kind \in Reads => calls[s].reply.thread.id \in Convs
BY DEF ChatShapes, CallShape, ReplyShape

\* What an answer shows is not deleted.
LEMMA AnswerActive ==
    ASSUME DeleteInv, NEW s \in Procs, Ok(calls[s]), ~Excused(Astern)
    PROVE  /\ calls[s].kind \in CC!Lists => \A c \in calls[s].reply.rows : IsActive(c)
           /\ calls[s].kind \in Reads => IsActive(calls[s].reply.thread.id)
BY DEF DeleteInv, CC!Lists, Reads, Excused, Astern

LEMMA SelectAnsweredStep == ASSUME ChatInv, NEW s \in Procs, CC!SelectAnswered(s) PROVE ChatInv'
<1>1. ChatShapes /\ NavInv /\ DeleteInv BY DEF ChatInv
<1>2. /\ calls[s].kind = "select" /\ calls[s].at = "answered" /\ CC!Done(s)
      /\ shown' = IF calls[s].reply.out = "ok" THEN calls[s].reply.thread ELSE shown
      /\ chosen' = shown'.id
      /\ UNCHANGED <<store, listed, draft, sending, toast, timers, typed, asks, last, excuses>>
    BY DEF CC!SelectAnswered, CC!Got, CC!Quietly, CC!Server, CC!Screen
<1>3. Finishes(s) BY <1>1, <1>2, Finished
<1>4. shown' \in Threads /\ listed' \subseteq Convs BY <1>1, <1>2, ReplyThread DEF ChatShapes
<1>5. calls[s].kind \in CC!Navigates /\ ~Placed(calls[s]) BY <1>2, Navigating DEF Placed
<1>6. ASSUME ~Excused(Astray)' PROVE ~Waits(shown.turns)'
  <2>1. ~Excused(Astray) BY <1>2, <1>6 DEF Excused
  <2>2. NavCall(calls[s]) /\ ~Waits(shown.turns) BY <1>1, <1>2, <1>5, <2>1, AnsweredAlone DEF Waiting
  <2> QED BY <1>2, <2>2 DEF NavCall, Ok, Reads, Waits
<1>7. ASSUME ~Excused(Astern)' PROVE shown'.id = shown.id \/ IsActive(shown'.id)
  <2>1. ~Excused(Astern) BY <1>2, <1>7 DEF Excused
  <2> QED BY <1>1, <1>2, <2>1, AnswerActive DEF Ok, Reads
<1>8. "adrift" \in excuses' => "unanswered" \in excuses' BY <1>1, <1>2 DEF NavInv
<1> QED BY <1>2, <1>3, <1>4, <1>5, <1>6, <1>7, <1>8, ArrivesStep

LEMMA TurnAnsweredStep == ASSUME ChatInv, NEW s \in Procs, CC!TurnAnswered(s) PROVE ChatInv'
<1>1. ChatShapes /\ NavInv /\ DeleteInv BY DEF ChatInv
<1> DEFINE h == calls[s].reply.thread
           owner == calls[s].owner
<1>2. /\ calls[s].kind \in {"submit", "retry"} /\ calls[s].at = "answered" /\ calls[s].reply.out = "ok" /\ CC!Done(s)
      /\ sending' = IF owner = "submit" THEN FALSE ELSE sending
      /\ shown' = h /\ listed' = listed \cup {h.id}
      /\ draft' = IF owner = "submit" THEN 0 ELSE draft
      /\ chosen' = IF owner = "submit" /\ calls[s].conv = None THEN h.id ELSE chosen
      /\ UNCHANGED <<store, toast, timers, typed, asks, last, excuses>>
    BY DEF CC!TurnAnswered, CC!Got, CC!Quietly, CC!Server, CC!Clears
<1>3. Finishes(s) BY <1>1, <1>2, Finished
<1>4. Ok(calls[s]) /\ calls[s].kind \in Reads BY <1>2 DEF Ok, Reads
<1>5. h \in Threads /\ h.id \in Convs BY <1>1, <1>4, ReplyThread
<1>6. shown' \in Threads /\ listed' \subseteq Convs BY <1>1, <1>2, <1>5 DEF ChatShapes
<1>7. calls[s].kind \in CC!Navigates /\ calls[s].kind \in CC!Lists BY <1>2, Navigating DEF CC!Lists
<1>8. Placed(calls[s]) => owner = "submit" BY <1>1 DEF Placed, ChatShapes, CallShape
<1>9. ASSUME ~Excused(Astray)' PROVE shown'.id = chosen' /\ ~Waits(shown.turns)'
  <2>1. ~Excused(Astray) BY <1>2, <1>9 DEF Excused
  <2>2. NavCall(calls[s]) BY <1>1, <1>2, <1>7, <2>1, AnsweredAlone
  <2>3. ~Waits(h.turns) BY <1>4, <2>2 DEF NavCall
  <2>4. CASE calls[s].kind = "submit"
    <3>1. calls[s].conv = chosen /\ h.id = calls[s].place /\ (calls[s].conv # None => calls[s].place = calls[s].conv)
        BY <1>2, <1>4, <2>2, <2>4 DEF NavCall, TurnCall
    <3>2. owner = "submit" BY <1>1, <2>4 DEF ChatShapes, CallShape
    <3> QED BY <1>2, <2>3, <3>1, <3>2 DEF Waits
  <2>5. CASE calls[s].kind = "retry"
    <3>1. calls[s].conv \in Convs /\ calls[s].conv # None
        BY <1>1, <2>5, ChatConstants DEF ChatShapes, CallShape, OfOne
    <3>2. calls[s].conv = chosen /\ h.id = calls[s].conv BY <1>4, <2>2, <2>5 DEF NavCall, TurnCall
    <3> QED BY <1>2, <2>3, <3>1, <3>2 DEF Waits
  <2> QED BY <1>2, <2>4, <2>5
<1>10. ASSUME ~Excused(Astern)' PROVE IsActive(h.id)
  <2>1. ~Excused(Astern) BY <1>2, <1>10 DEF Excused
  <2> QED BY <1>1, <1>4, <2>1, AnswerActive
<1>11. "adrift" \in excuses' => "unanswered" \in excuses' BY <1>1, <1>2 DEF NavInv
<1>12. /\ sending' = sending \/ calls[s].owner = "submit"
       /\ draft' \in {0, draft} /\ (Placed(calls[s]) => draft' = 0)
    BY <1>2, <1>8
<1>13. ~Excused(Astern)' => \A c \in (listed' \cup {shown'.id}) \ {None} : c \in listed \cup {shown.id} \/ IsActive(c)
    BY <1>2, <1>10
<1> HIDE DEF h, owner
<1>14. UNCHANGED <<store, toast, timers, typed, asks, last>> /\ excuses \subseteq excuses' BY <1>2
<1> QED BY <1>2, <1>3, <1>6, <1>7, <1>9, <1>11, <1>12, <1>13, <1>14, ArrivesStep

LEMMA TurnFailedStep == ASSUME ChatInv, NEW s \in Procs, CC!TurnFailed(s) PROVE ChatInv'
<1>1. ChatShapes /\ NavInv /\ DeleteInv BY DEF ChatInv
<1> DEFINE kind == IF calls[s].conv = None THEN "relist" ELSE "reload"
           c == calls[s].conv
<1>2. /\ calls[s].at = "answered"
      /\ \/ calls[s].kind = "submit" /\ calls[s].reply.out = "failed" /\ draft' = 0
         \/ calls[s].kind = "retry" /\ draft' = draft
      /\ CC!Then(s, kind, c)
      /\ UNCHANGED <<store, shown, listed, sending, toast, timers, typed, asks, chosen, last, excuses>>
    BY DEF CC!TurnFailed, CC!Got, CC!Quietly, CC!Server, CC!Screen
<1>3. c \in Ids BY <1>1 DEF ChatShapes, CallShape
<1>4. kind \in {"relist", "reload"} /\ (kind = "reload" <=> c # None) /\ (kind = "reload" => c \in Convs)
    BY <1>3 DEF Ids
<1>5. calls[s].kind = "retry" => kind = "reload"
    BY <1>1, ChatConstants DEF ChatShapes, CallShape, OfOne
<1> HIDE DEF kind, c
<1>6. Follows(s, kind, c) BY <1>1, <1>2, GoesOnWith
<1>7. /\ calls'[s].kind = kind /\ calls'[s].at = "sent" /\ calls'[s].conv = c /\ ~Ok(calls'[s])
      /\ calls'[s].place = calls[s].place
    BY <1>6 DEF Follows, Opened, Ok
<1>8. calls[s].kind \in CC!Navigates BY <1>2, Navigating
<1>9. ASSUME ~Excused(Astray)
      PROVE  /\ kind = "relist" => RelistCall(calls[s])'
             /\ kind = "reload" => ReloadCall(calls[s])'
  <2>1. NavCall(calls[s]) BY <1>1, <1>2, <1>8, <1>9, AnsweredAlone
  <2>2. TurnCall(calls[s]) BY <1>2, <2>1 DEF NavCall
  <2>3. c = shown.id /\ c = chosen BY <2>2 DEF TurnCall, c
  <2>4. ASSUME kind = "reload" PROVE ReloadCall(calls[s])'
      BY <1>2, <1>4, <1>7, <2>3, <2>4 DEF ReloadCall
  <2>5. ASSUME kind = "relist" PROVE RelistCall(calls[s])'
    <3>1. calls[s].kind = "submit" /\ calls[s].reply.out = "failed" /\ c = None BY <1>2, <1>4, <1>5, <2>5
    <3>2. calls[s].place \in Convs BY <1>2, <2>2, <3>1 DEF TurnCall
    <3>3. Newest(calls[s].place) BY <1>2, <2>1, <3>1 DEF NavCall, SubmitCall, c
    <3>4. shown = CC!NoThread BY <1>1, <2>3, <3>1, ThreadIs DEF ChatShapes
    <3> QED BY <1>2, <1>7, <2>3, <3>1, <3>2, <3>3, <3>4 DEF RelistCall, Newest
  <2> QED BY <2>4, <2>5
<1>10. draft' \in {0, draft} /\ (Placed(calls[s]) => draft' = 0) BY <1>2 DEF Placed
<1>11. listed' \subseteq Convs BY <1>1, <1>2 DEF ChatShapes
<1>12. \A d \in listed' : d \in listed BY <1>2
<1> QED BY <1>2, <1>3, <1>4, <1>6, <1>8, <1>9, <1>10, <1>11, <1>12, ReadsOnStep

LEMMA SubmitRefusedStep == ASSUME ChatInv, NEW s \in Procs, CC!SubmitRefused(s) PROVE ChatInv'
<1>1. ChatShapes /\ NavInv /\ DeleteInv BY DEF ChatInv
<1>2. /\ calls[s].kind = "submit" /\ calls[s].at = "answered" /\ calls[s].reply.out = "error" /\ CC!Done(s)
      /\ shown' = calls[s].seen
      /\ UNCHANGED <<store, listed, draft, toast, timers, typed, asks, chosen, last, excuses>>
    BY DEF CC!SubmitRefused, CC!Got, CC!Quietly, CC!Server, CC!Clears, CC!PreviousConversation, CC!Screen
<1>3. Finishes(s) BY <1>1, <1>2, Finished
<1>4. calls[s].owner = "submit" /\ ~Placed(calls[s]) BY <1>1, <1>2 DEF ChatShapes, CallShape, Placed
<1>5. shown' \in Threads /\ listed' \subseteq Convs BY <1>1, <1>2, ReplyThread DEF ChatShapes
<1>6. calls[s].kind \in CC!Navigates BY <1>2, Navigating
<1>7. "overtaken" \notin excuses => shown'.id = shown.id BY <1>1, <1>2 DEF NavInv, NavAlone
<1>8. ASSUME ~Excused(Astray)' PROVE shown'.id = chosen' /\ ~Waits(shown.turns)'
  <2>1. ~Excused(Astray) /\ "overtaken" \notin excuses BY <1>2, <1>8 DEF Excused, Astray
  <2>2. NavCall(calls[s]) BY <1>1, <1>2, <1>6, <2>1, AnsweredAlone
  <2>3. shown.id = chosen /\ ~Waits(calls[s].seen.turns) BY <1>2, <2>2 DEF NavCall, TurnCall, SubmitCall
  <2> QED BY <1>2, <1>7, <2>1, <2>3 DEF Waits
<1>9. ASSUME ~Excused(Astern)' PROVE shown'.id = shown.id
    BY <1>2, <1>7, <1>9 DEF Excused, Astern
<1>10. "adrift" \in excuses' => "unanswered" \in excuses' BY <1>1, <1>2 DEF NavInv
<1> QED BY <1>2, <1>3, <1>4, <1>5, <1>6, <1>8, <1>9, <1>10, ArrivesStep

LEMMA RelistAnsweredStep == ASSUME ChatInv, NEW s \in Procs, CC!RelistAnswered(s) PROVE ChatInv'
<1>1. ChatShapes /\ NavInv /\ DeleteInv BY DEF ChatInv
<1> DEFINE y == calls[s].reply
           c == y.first
<1>2. /\ calls[s].kind = "relist" /\ calls[s].at = "answered" /\ y.out = "ok" /\ listed' = y.rows
      /\ UNCHANGED <<store, shown, draft, toast, timers, typed, asks, chosen, last, excuses>>
    BY DEF CC!RelistAnswered, CC!Got, CC!Quietly, CC!Server
<1>3. \/ c = None /\ CC!Done(s) /\ sending' = IF calls[s].owner = "submit" THEN FALSE ELSE sending
      \/ c # None /\ CC!Then(s, "reload", c) /\ sending' = sending
    BY DEF CC!RelistAnswered, CC!Latest, CC!Clears
<1>4. y.rows \subseteq Convs /\ c \in Ids BY <1>1, ReplyThread
<1>5. Ok(calls[s]) /\ calls[s].kind \in CC!Lists /\ calls[s].kind \in CC!Navigates /\ ~Placed(calls[s])
    BY <1>2, Navigating DEF Ok, CC!Lists, Placed
<1>6. ASSUME ~Excused(Astern) PROVE \A d \in listed' : IsActive(d)
    BY <1>1, <1>2, <1>5, <1>6, AnswerActive
<1>7. ASSUME ~Excused(Astray) PROVE RelistCall(calls[s])
    BY <1>1, <1>2, <1>5, <1>7, AnsweredAlone DEF NavCall
<1>8. CASE c # None
  <2>1. c \in Convs BY <1>4, <1>8 DEF Ids
  <2>2. Follows(s, "reload", c) BY <1>1, <1>3, <1>8, GoesOnWith
  <2>3. /\ calls'[s].kind = "reload" /\ calls'[s].at = "sent" /\ calls'[s].conv = c /\ ~Ok(calls'[s])
        /\ calls'[s].place = calls[s].place
      BY <2>2 DEF Follows, Opened, Ok
  <2>4. ASSUME ~Excused(Astray) PROVE ReloadCall(calls[s])'
    <3>1. RelistCall(calls[s]) BY <1>7, <2>4
    <3>2. shown = CC!NoThread /\ chosen = None /\ c = calls[s].place BY <1>5, <3>1 DEF RelistCall
    <3> QED BY <1>2, <2>3, <3>2, NoThreadIs DEF ReloadCall
  <2> HIDE DEF y, c
  <2>5. listed' \subseteq Convs /\ draft' \in {0, draft} BY <1>2, <1>4
  <2> QED BY <1>2, <1>3, <1>4, <1>5, <1>6, <1>8, <2>1, <2>2, <2>4, <2>5, ReadsOnStep
<1>9. CASE c = None
  <2>1. Finishes(s) BY <1>1, <1>3, <1>9, Finished
  <2>2. ASSUME ~Excused(Astray)' PROVE FALSE
    <3>1. ~Excused(Astray) BY <1>2, <2>2 DEF Excused
    <3> QED BY <1>5, <1>7, <1>9, <3>1, ChatConstants DEF RelistCall
  <2>3. "adrift" \in excuses' => "unanswered" \in excuses' BY <1>1, <1>2 DEF NavInv
  <2>4. ~Excused(Astern)' => \A d \in (listed' \cup {shown'.id}) \ {None} : d \in listed \cup {shown.id} \/ IsActive(d)
    <3>1. ~Excused(Astern)' => ~Excused(Astern) BY <1>2 DEF Excused
    <3> QED BY <1>2, <1>6, <3>1
  <2>5. sending' = sending \/ calls[s].owner = "submit" BY <1>3, <1>9
  <2>6. shown' \in Threads /\ listed' \subseteq Convs BY <1>1, <1>2, <1>4 DEF ChatShapes
  <2> HIDE DEF y, c
  <2> QED BY <1>2, <1>5, <2>1, <2>2, <2>3, <2>4, <2>5, <2>6, ArrivesStep
<1> QED BY <1>8, <1>9

LEMMA ReloadAnsweredStep == ASSUME ChatInv, NEW s \in Procs, CC!ReloadAnswered(s) PROVE ChatInv'
<1>1. ChatShapes /\ NavInv /\ DeleteInv BY DEF ChatInv
<1> DEFINE h == calls[s].reply.thread
<1>2. /\ calls[s].kind = "reload" /\ calls[s].at = "answered" /\ calls[s].reply.out = "ok" /\ CC!Done(s)
      /\ sending' = IF calls[s].owner = "submit" THEN FALSE ELSE sending
      /\ shown' = h /\ listed' = listed \cup {h.id}
      /\ chosen' = IF chosen = None THEN calls[s].place ELSE chosen
      /\ UNCHANGED <<store, draft, toast, timers, typed, asks, last, excuses>>
    BY DEF CC!ReloadAnswered, CC!Got, CC!Quietly, CC!Server, CC!Clears
<1>3. Finishes(s) BY <1>1, <1>2, Finished
<1>4. Ok(calls[s]) /\ calls[s].kind \in Reads BY <1>2 DEF Ok, Reads
<1>5. h \in Threads /\ h.id \in Convs BY <1>1, <1>4, ReplyThread
<1>6. shown' \in Threads /\ listed' \subseteq Convs BY <1>1, <1>2, <1>5 DEF ChatShapes
<1>7. calls[s].kind \in CC!Navigates /\ ~Placed(calls[s]) BY <1>2, Navigating DEF Placed
<1>8. ASSUME ~Excused(Astray)' PROVE shown'.id = chosen' /\ ~Waits(shown.turns)'
  <2>1. ~Excused(Astray) BY <1>2, <1>8 DEF Excused
  <2>2. NavCall(calls[s]) BY <1>1, <1>2, <1>7, <2>1, AnsweredAlone
  <2>3. ~Waits(h.turns) BY <1>4, <2>2 DEF NavCall
  <2>4. h.id = calls[s].conv /\ calls[s].conv = (IF chosen = None THEN calls[s].place ELSE chosen)
      BY <1>2, <1>4, <2>2 DEF NavCall, ReloadCall
  <2> QED BY <1>2, <2>3, <2>4 DEF Waits
<1>9. ASSUME ~Excused(Astern)' PROVE IsActive(h.id)
  <2>1. ~Excused(Astern) BY <1>2, <1>9 DEF Excused
  <2> QED BY <1>1, <1>4, <2>1, AnswerActive
<1>10. "adrift" \in excuses' => "unanswered" \in excuses' BY <1>1, <1>2 DEF NavInv
<1>11. ~Excused(Astern)' => \A c \in (listed' \cup {shown'.id}) \ {None} : c \in listed \cup {shown.id} \/ IsActive(c)
    BY <1>2, <1>9
<1> HIDE DEF h
<1>12. /\ UNCHANGED <<store, toast, timers, typed, asks, last>> /\ excuses \subseteq excuses' /\ draft' \in {0, draft}
       /\ sending' = sending \/ calls[s].owner = "submit"
    BY <1>2
<1>13. sending' = sending \/ calls[s].owner = "submit" BY <1>2
<1> QED BY <1>2, <1>3, <1>6, <1>7, <1>8, <1>10, <1>11, <1>12, <1>13, ArrivesStep

LEMMA ReloadFailedStep == ASSUME ChatInv, NEW s \in Procs, CC!ReloadFailed(s) PROVE ChatInv'
<1>1. ChatShapes /\ NavInv BY DEF ChatInv
<1>2. /\ calls[s].kind \in {"relist", "reload"} /\ calls[s].at = "answered" /\ CC!Done(s)
      /\ sending' = IF calls[s].owner = "submit" THEN FALSE ELSE sending
      /\ excuses' = excuses \cup {"unread"}
      /\ UNCHANGED <<store, shown, listed, draft, toast, timers, typed, asks, chosen, last>>
    BY DEF CC!ReloadFailed, CC!Got, CC!Quietly, CC!Server, CC!Clears, CC!Screen
<1>3. Finishes(s) BY <1>1, <1>2, Finished
<1>4. calls[s].kind \in CC!Navigates /\ ~Placed(calls[s]) BY <1>2, Navigating DEF Placed
<1>5. Excused(Astray)' BY <1>2 DEF Excused, Astray
<1>6. shown' \in Threads /\ listed' \subseteq Convs BY <1>1, <1>2 DEF ChatShapes
<1>7. "adrift" \in excuses' => "unanswered" \in excuses' BY <1>1, <1>2 DEF NavInv
<1>8. sending' = sending \/ calls[s].owner = "submit" BY <1>2
<1> QED BY <1>2, <1>3, <1>4, <1>5, <1>6, <1>7, <1>8, ArrivesStep

-----------------------------------------------------------------------------
(* A deletion is answered, and undone. *)

\* The other deletions are still to be heard of.
LEMMA OthersDelete ==
    ASSUME NEW s \in Procs, OnlyCall(s), calls'[s].kind = "none"
    PROVE  \A c : Deleting(c) /\ c # calls[s].conv => Deleting(c)'
BY DEF Deleting, OnlyCall, Ok

\* Nobody hears of it: the call ends.
LEMMA EndsAsideStep ==
    ASSUME ChatInv, NEW s \in Procs, Finishes(s), calls[s].kind \in {"delete", "undo"}, ~Ok(calls[s]),
           UNCHANGED <<store, shown, listed, draft, sending, toast, timers, typed, asks, chosen, last, excuses>>
    PROVE  ChatInv'
<1>1. ChatShapes /\ SendInv /\ NavInv /\ DeleteInv BY DEF ChatInv
<1>2. /\ OnlyCall(s) /\ calls'[s].kind = "none" /\ calls'[s].owner = "none" /\ calls'[s].kind \notin CC!Navigates
      /\ DOMAIN calls' = Procs /\ \A t \in Procs : CallShape(calls'[t], asks')
    BY <1>1, FinishedIs
<1>3. ChatShapes' BY <1>1, <1>2 DEF ChatShapes
<1>4. asks \in Nat BY <1>1 DEF ChatShapes
<1>5. SendInv'
  <2>1. LightCall(calls[s]) /\ LightCall(calls'[s]) BY <1>1, <1>2, LightCalls DEF Light, LightCall
  <2>2. LightSteps BY <1>2, <2>1 DEF LightSteps, OnlyCall
  <2>3. TurnsStay BY TurnsSame
  <2> QED BY <1>1, <1>4, <2>2, <2>3, SendLight
<1>6. NavInv'
  <2>1. calls[s].kind \notin CC!Navigates BY Navigating
  <2>2. NavKept BY <1>2, <2>1 DEF NavKept, OnlyCall, Newest
  <2>3. "adrift" \in excuses' => "unanswered" \in excuses' BY <1>1 DEF NavInv
  <2> QED BY <1>1, <2>2, <2>3, NavLight
<1>7. DeleteInv'
  <2>1. Harmless(s) BY <1>2 DEF Harmless, CC!Lists
  <2>2. DeletesKept BY <1>2, <2>1 DEF DeletesKept, OnlyCall, IsActive
  <2> QED BY <1>1, <2>2, DeletesLight
<1> QED BY <1>3, <1>5, <1>6, <1>7 DEF ChatInv

LEMMA DeletionHeard ==
    ASSUME ChatInv, NEW s \in Procs, Finishes(s), calls[s].kind = "delete",
           NEW c \in Convs, calls[s].conv = c, listed' = listed \ {c},
           shown' = IF calls[s].seen.id = c THEN CC!NoThread ELSE shown,
           chosen' = IF calls[s].seen.id = c THEN None ELSE chosen,
           toast' = c, timers' = {c}, last' = c, excuses \subseteq excuses',
           excuses' \subseteq excuses \cup {"undoing", "overtaken"},
           "undoing" \notin excuses' => \A t \in Procs : calls[t].kind # "undo",
           "overtaken" \notin excuses' => /\ \A t \in Procs : calls[t].kind \notin CC!Navigates
                                          /\ calls[s].seen.id = c <=> shown.id = c,
           UNCHANGED <<store, draft, sending, typed, asks>>
    PROVE  ChatInv'
<1>1. ChatShapes /\ SendInv /\ NavInv /\ DeleteInv BY DEF ChatInv
<1>2. /\ OnlyCall(s) /\ calls'[s].kind = "none" /\ calls'[s].owner = "none" /\ calls'[s].kind \notin CC!Navigates
      /\ DOMAIN calls' = Procs /\ \A t \in Procs : CallShape(calls'[t], asks')
    BY <1>1, FinishedIs
<1>3. \A t \in Procs : t # s => calls'[t] = calls[t] BY <1>2 DEF OnlyCall
<1>4. ChatShapes' BY <1>1, <1>2, NoThreadIs DEF ChatShapes, Ids
<1>5. asks \in Nat BY <1>1 DEF ChatShapes
<1>6. SendInv'
  <2>1. LightCall(calls[s]) /\ LightCall(calls'[s]) BY <1>1, <1>2, LightCalls DEF Light, LightCall
  <2>2. LightSteps BY <1>2, <2>1 DEF LightSteps, OnlyCall
  <2>3. TurnsStay BY TurnsSame
  <2> QED BY <1>1, <1>5, <2>2, <2>3, SendLight
<1>7. NavInv'
  <2>1. "adrift" \in excuses' => "unanswered" \in excuses' BY <1>1 DEF NavInv
  <2>2. "overtaken" \notin excuses' => \A t \in Procs : calls'[t].kind \notin CC!Navigates BY <1>2, <1>3
  <2>3. NavAlone' BY <2>2, Navigating DEF NavAlone
  <2>4. ASSUME ~Excused(Astray)'
        PROVE  /\ PendingAtWork' /\ \A t \in Procs : NavCall(calls[t])'
               /\ ~Waits(shown.turns)' /\ shown'.id = chosen'
    <3>1. ~Excused(Astray) /\ "overtaken" \notin excuses' BY <2>4 DEF Excused, Astray
    <3>2. /\ \A d \in Convs : ~Waits(store[d].turns)
          /\ ~Waits(shown.turns) /\ shown.id = chosen
        BY <1>1, <3>1, NobodyNavigates
    <3>3. PendingAtWork' BY <3>2 DEF PendingAtWork, Waits
    <3>4. \A t \in Procs : NavCall(calls[t])' BY <2>2, <3>1, Navigating DEF NavCall, Reads
    <3> QED BY <3>2, <3>3, <3>4, NoThreadIs DEF Waits
  <2> QED BY <2>1, <2>3, <2>4 DEF NavInv, Excused
<1>8. DeleteInv'
  <2>1. \A d : d # c /\ Deleting(d) => Deleting(d)' BY <1>2, OthersDelete
  <2>2. \A d : IsActive(d)' <=> IsActive(d) BY IsActiveStays
  <2>3. toast' \in {None, last'} /\ timers' \subseteq {toast'} OBVIOUS
  <2>4. ASSUME ~Excused({"undoing"})', NEW t \in Procs, calls'[t].kind = "undo" PROVE FALSE
      BY <1>2, <1>3, <2>4 DEF Excused
  <2>5. Excused({"undoing", "unsaid"})' \/ ~Excused({"undoing"})' BY DEF Excused
  <2>6. ASSUME ~Excused({"listing"})', NEW t \in Procs, calls'[t].kind \in CC!Lists, Ok(calls'[t])
        PROVE  /\ \A d \in calls'[t].reply.rows : IsActive(d)'
               /\ calls'[t].kind \in Reads => IsActive(calls[t].reply.thread.id)'
    <3>1. ~Excused({"listing"}) BY <2>6, ExcusesGrow
    <3>2. calls'[t] = calls[t] BY <1>2, <1>3, <2>6 DEF CC!Lists
    <3>3. /\ \A d \in calls[t].reply.rows : IsActive(d)
          /\ calls[t].kind \in Reads => IsActive(calls[t].reply.thread.id)
        BY <1>1, <2>6, <3>1, <3>2 DEF DeleteInv, Ok
    <3> QED BY <2>2, <3>2, <3>3 DEF IsActive
  <2>7. ASSUME ~Excused({"overtaken"})', NEW t \in Procs, calls'[t].kind = "select" PROVE FALSE
      BY <1>2, <1>3, <2>7, Navigating DEF Excused
  <2>8. ASSUME ~Excused(Astern)', NEW d \in (listed' \cup {shown'.id}) \ {None} PROVE IsActive(d)' \/ Deleting(d)'
    <3>1. ~Excused(Astern) /\ "overtaken" \notin excuses' BY <2>8, ExcusesGrow DEF Excused, Astern
    <3>2. d # c /\ d \in (listed \cup {shown.id}) \ {None} BY <2>8, <3>1, NoThreadIs
    <3>3. IsActive(d) \/ Deleting(d) BY <1>1, <3>1, <3>2 DEF DeleteInv
    <3> QED BY <2>1, <2>2, <3>2, <3>3
  <2> QED BY <2>3, <2>4, <2>5, <2>6, <2>7, <2>8 DEF DeleteInv, Excused
<1> QED BY <1>4, <1>6, <1>7, <1>8 DEF ChatInv

LEMMA DeleteAnsweredStep == ASSUME ChatInv, NEW s \in Procs, CC!DeleteAnswered(s) PROVE ChatInv'
<1>1. ChatShapes BY DEF ChatInv
<1> DEFINE c == calls[s].conv
           open == calls[s].seen.id = c
<1>2. /\ calls[s].kind = "delete" /\ calls[s].at = "answered" /\ CC!Done(s)
      /\ UNCHANGED <<store, draft, sending, typed, asks>>
    BY DEF CC!DeleteAnswered, CC!Got, CC!Quietly, CC!Server
<1>3. IF calls[s].reply.out = "ok"
      THEN /\ listed' = listed \ {c} /\ shown' = IF calls[s].seen.id = c THEN CC!NoThread ELSE shown
           /\ chosen' = IF open THEN None ELSE chosen
           /\ toast' = c /\ timers' = {c} /\ last' = c
           /\ excuses' = excuses \cup (IF CC!Busy({"undo"}) THEN {"undoing"} ELSE {})
                                 \cup (IF open # (shown.id = c) \/ CC!Busy(CC!Navigates) THEN {"overtaken"} ELSE {})
      ELSE UNCHANGED <<listed, shown, chosen, toast, timers, last, excuses>>
    BY DEF CC!DeleteAnswered, CC!Closed, CC!Restarted
<1>4. Finishes(s) BY <1>1, <1>2, Finished
<1>5. c \in Convs BY <1>1, <1>2 DEF ChatShapes, CallShape, OfOne
<1>6. CASE calls[s].reply.out # "ok" BY <1>2, <1>3, <1>4, <1>6, EndsAsideStep DEF Ok
<1>7. CASE calls[s].reply.out = "ok"
  <2>1. /\ "undoing" \notin excuses' => \A t \in Procs : calls[t].kind # "undo"
        /\ "overtaken" \notin excuses' => /\ \A t \in Procs : calls[t].kind \notin CC!Navigates
                                          /\ calls[s].seen.id = c <=> shown.id = c
      BY <1>3, <1>7 DEF CC!Busy
  <2>2. excuses \subseteq excuses' /\ excuses' \subseteq excuses \cup {"undoing", "overtaken"} BY <1>3, <1>7
  <2> QED BY <1>2, <1>3, <1>4, <1>5, <1>7, <2>1, <2>2, DeletionHeard
<1> QED BY <1>6, <1>7

LEMMA UndoHeard ==
    ASSUME ChatInv, NEW s \in Procs, Finishes(s), calls[s].kind = "undo", Ok(calls[s]),
           NEW c \in Convs, calls[s].conv = c, listed' = listed \cup {c}, toast' = None, timers' = {},
           UNCHANGED <<store, shown, draft, sending, typed, asks, chosen, last, excuses>>
    PROVE  ChatInv'
<1>1. ChatShapes /\ SendInv /\ NavInv /\ DeleteInv BY DEF ChatInv
<1>2. /\ OnlyCall(s) /\ calls'[s].kind = "none" /\ calls'[s].owner = "none" /\ calls'[s].kind \notin CC!Navigates
      /\ DOMAIN calls' = Procs /\ \A t \in Procs : CallShape(calls'[t], asks')
    BY <1>1, FinishedIs
<1>3. \A t \in Procs : t # s => calls'[t] = calls[t] BY <1>2 DEF OnlyCall
<1>4. ChatShapes' BY <1>1, <1>2 DEF ChatShapes, Ids
<1>5. asks \in Nat BY <1>1 DEF ChatShapes
<1>6. SendInv'
  <2>1. LightCall(calls[s]) /\ LightCall(calls'[s]) BY <1>1, <1>2, LightCalls DEF Light, LightCall
  <2>2. LightSteps BY <1>2, <2>1 DEF LightSteps, OnlyCall
  <2>3. TurnsStay BY TurnsSame
  <2> QED BY <1>1, <1>5, <2>2, <2>3, SendLight
<1>7. NavInv'
  <2>1. calls[s].kind \notin CC!Navigates BY Navigating
  <2>2. NavKept BY <1>2, <2>1 DEF NavKept, OnlyCall, Newest
  <2>3. "adrift" \in excuses' => "unanswered" \in excuses' BY <1>1 DEF NavInv
  <2> QED BY <1>1, <2>2, <2>3, NavLight
<1>8. DeleteInv'
  <2>1. \A d : Deleting(d) => Deleting(d)' BY <1>3 DEF Deleting, Ok
  <2>2. \A d : IsActive(d)' <=> IsActive(d) BY IsActiveStays
  <2>3. \A es : Excused(es)' <=> Excused(es) BY DEF Excused
  <2>4. ASSUME ~Excused({"undoing", "unsaid"}) PROVE c = last /\ (IsActive(c) \/ Deleting(c))
    <3>1. ~Excused({"undoing"}) BY <2>4 DEF Excused
    <3> QED BY <1>1, <2>4, <3>1 DEF DeleteInv
  <2>5. toast' \in {None, last'} /\ timers' \subseteq {toast'} OBVIOUS
  <2>6. ASSUME ~Excused({"undoing"})', NEW t \in Procs, calls'[t].kind = "undo" PROVE calls'[t].conv = last'
      BY <1>1, <1>2, <1>3, <2>3, <2>6 DEF DeleteInv
  <2>7. ASSUME ~Excused({"undoing", "unsaid"})', last' # None, store'[last'].stage = "deleted" PROVE Deleting(last)'
    <3>1. c = last /\ Deleting(c) BY <2>3, <2>4, <2>7 DEF IsActive
    <3> QED BY <2>1, <3>1 DEF Deleting
  <2>8. ASSUME ~Excused({"undoing", "unsaid"})', NEW t \in Procs, calls'[t].kind = "undo", Ok(calls'[t])
        PROVE  IsActive(calls[t].conv)' \/ Deleting(calls[t].conv)'
    <3>1. calls'[t] = calls[t] BY <1>2, <1>3, <2>8
    <3> DEFINE d == calls[t].conv
    <3>2. IsActive(d) \/ Deleting(d) BY <1>1, <2>3, <2>8, <3>1 DEF DeleteInv, Ok
    <3>3. IsActive(d) => IsActive(calls[t].conv)' BY <3>1 DEF IsActive
    <3>4. Deleting(d) => Deleting(calls[t].conv)' BY <2>1, <3>1 DEF Deleting
    <3> QED BY <3>2, <3>3, <3>4
  <2>9. ASSUME ~Excused({"listing"})', NEW t \in Procs, calls'[t].kind \in CC!Lists, Ok(calls'[t])
        PROVE  /\ \A d \in calls'[t].reply.rows : IsActive(d)'
               /\ calls'[t].kind \in Reads => IsActive(calls[t].reply.thread.id)'
    <3>1. calls'[t] = calls[t] BY <1>2, <1>3, <2>9 DEF CC!Lists
    <3>2. /\ \A d \in calls[t].reply.rows : IsActive(d)
          /\ calls[t].kind \in Reads => IsActive(calls[t].reply.thread.id)
        BY <1>1, <2>3, <2>9, <3>1 DEF DeleteInv, Ok
    <3> QED BY <2>2, <3>1, <3>2 DEF IsActive
  <2>10. ASSUME ~Excused({"overtaken"})', NEW t \in Procs, calls'[t].kind = "select", Ok(calls'[t])
         PROVE  IsActive(calls[t].reply.thread.id)'
    <3>1. calls'[t] = calls[t] BY <1>2, <1>3, <2>10
    <3>2. IsActive(calls[t].reply.thread.id) BY <1>1, <2>3, <2>10, <3>1 DEF DeleteInv, Ok
    <3> QED BY <3>1, <3>2 DEF IsActive
  <2>11. ASSUME ~Excused(Astern)', NEW d \in (listed' \cup {shown'.id}) \ {None} PROVE IsActive(d)' \/ Deleting(d)'
    <3>1. ~Excused(Astern) /\ ~Excused({"undoing", "unsaid"}) BY <2>11 DEF Excused, Astern
    <3>2. d = c \/ d \in (listed \cup {shown.id}) \ {None} BY <2>11
    <3>3. IsActive(d) \/ Deleting(d) BY <1>1, <2>4, <3>1, <3>2 DEF DeleteInv
    <3> QED BY <2>1, <2>2, <3>3
  <2> QED BY <2>5, <2>6, <2>7, <2>8, <2>9, <2>10, <2>11 DEF DeleteInv, Excused
<1> QED BY <1>4, <1>6, <1>7, <1>8 DEF ChatInv

LEMMA UndoAnsweredStep == ASSUME ChatInv, NEW s \in Procs, CC!UndoAnswered(s) PROVE ChatInv'
<1>1. ChatShapes BY DEF ChatInv
<1> DEFINE c == calls[s].conv
<1>2. /\ calls[s].kind = "undo" /\ calls[s].at = "answered" /\ CC!Done(s)
      /\ UNCHANGED <<store, shown, draft, sending, typed, asks, chosen, last, excuses>>
    BY DEF CC!UndoAnswered, CC!Got, CC!Quietly, CC!Server
<1>3. IF calls[s].reply.out = "ok"
      THEN listed' = listed \cup {c} /\ toast' = None /\ timers' = {}
      ELSE UNCHANGED <<listed, toast, timers>>
    BY DEF CC!UndoAnswered
<1>4. Finishes(s) BY <1>1, <1>2, Finished
<1>5. c \in Convs BY <1>1, <1>2 DEF ChatShapes, CallShape, OfOne
<1>6. CASE calls[s].reply.out # "ok" BY <1>2, <1>3, <1>4, <1>6, EndsAsideStep DEF Ok
<1>7. CASE calls[s].reply.out = "ok" BY <1>2, <1>3, <1>4, <1>5, <1>7, UndoHeard DEF Ok
<1> QED BY <1>6, <1>7

\* The time to undo is over, on the page as in the server.
LEMMA TimerStep == ASSUME ChatInv, NEW c \in Convs, CC!TimerFires(c) PROVE ChatInv'
<1>1. ChatShapes /\ SendInv /\ NavInv /\ DeleteInv BY DEF ChatInv
<1>2. /\ c \in timers /\ store[c].stage # "deleted" /\ timers' = timers \ {c} /\ toast' = None
      /\ UNCHANGED <<store, shown, listed, draft, sending, calls, typed, asks, chosen, last, excuses>>
    BY DEF CC!TimerFires, CC!Server
<1>3. c = toast /\ toast = last /\ timers' = {} BY <1>1, <1>2, ChatConstants DEF DeleteInv
<1>4. ChatShapes' BY <1>1, <1>2 DEF ChatShapes, Ids
<1>5. SendInv'
  <2>1. LightSteps BY <1>1, <1>2, CallsStay
  <2>2. TurnsStay BY <1>2, TurnsSame
  <2>3. asks \in Nat BY <1>1 DEF ChatShapes
  <2> QED BY <1>1, <1>2, <2>1, <2>2, <2>3, SendLight
<1>6. NavInv'
  <2>1. NavKept BY <1>1, <1>2 DEF NavKept, ChatShapes, Newest
  <2>2. excuses' = excuses BY <1>2
  <2>3. "adrift" \in excuses => "unanswered" \in excuses BY <1>1, Zenon DEF NavInv
  <2> QED BY <1>1, <2>1, <2>2, <2>3, NavLight
<1>7. DeleteInv'
  <2>1. toast' \in {None, last'} /\ timers' \subseteq {toast'} BY <1>2, <1>3
  <2>2. /\ \A d : IsActive(d)' <=> IsActive(d)
        /\ \A d : Deleting(d)' <=> Deleting(d)
        /\ \A S : Excused(S)' <=> Excused(S)
      BY <1>2 DEF IsActive, Deleting, Excused
  <2>3. store[last].stage # "deleted" BY <1>2, <1>3
  <2> QED BY <1>1, <1>2, <2>1, <2>2, <2>3 DEF DeleteInv
<1> QED BY <1>4, <1>5, <1>6, <1>7 DEF ChatInv

-----------------------------------------------------------------------------
(* All steps, and what follows. *)

LEMMA ChatStep == ASSUME ChatInv, CC!Next PROVE ChatInv'
<1>1. ASSUME CC!UserStep PROVE ChatInv'
    BY <1>1, TypesStep, StartStep, SubmitTurnStep, RetryAskedStep, LoadMoreStep, UndoDeletedStep, RerendersStep, SelectStep,
       DeleteVisibleStep DEF CC!UserStep
<1>2. ASSUME CC!ServerStep PROVE ChatInv'
    BY <1>2, ServesReadStep, ServesDeleteStep, ServesUndoStep, AcceptsSubmitStep, AcceptsRetryStep, ResolvesStep,
       FailsStep, WindowStep, SettlesStep DEF CC!ServerStep
<1>3. ASSUME CC!HandlerStep PROVE ChatInv'
    BY <1>3, LoadAnsweredStep, MoreAnsweredStep, SelectAnsweredStep, TurnAnsweredStep, TurnFailedStep, SubmitRefusedStep,
       RelistAnsweredStep, ReloadAnsweredStep, ReloadFailedStep, DeleteAnsweredStep, UndoAnsweredStep DEF CC!HandlerStep
<1> QED BY <1>1, <1>2, <1>3, TimerStep DEF CC!Next

LEMMA ChatUnchanged == ASSUME ChatInv, UNCHANGED CC!clientVars PROVE ChatInv'
<1>1. ChatShapes /\ SendInv /\ NavInv /\ DeleteInv BY DEF ChatInv
<1>2. UNCHANGED <<store, shown, listed, draft, sending, toast, timers, calls, typed, asks, chosen, last, excuses>>
    BY DEF CC!clientVars, CC!pageVars
<1>3. ChatShapes' BY <1>1, <1>2 DEF ChatShapes
<1>4. SendInv'
  <2>1. LightSteps BY <1>1, <1>2, CallsStay
  <2>2. TurnsStay BY <1>2, TurnsSame
  <2>3. asks \in Nat BY <1>1 DEF ChatShapes
  <2> QED BY <1>1, <1>2, <2>1, <2>2, <2>3, SendLight
<1>5. NavInv'
  <2>1. NavKept BY <1>1, <1>2 DEF NavKept, ChatShapes, Newest
  <2>2. excuses \subseteq excuses' /\ ("adrift" \in excuses' => "unanswered" \in excuses') BY <1>1, <1>2 DEF NavInv
  <2> QED BY <1>1, <2>1, <2>2, NavLight
<1>6. DeleteInv'
  <2>1. DeletesKept BY <1>1, <1>2 DEF DeletesKept, ChatShapes, IsActive
  <2> QED BY <1>1, <2>1, DeletesLight
<1> QED BY <1>3, <1>4, <1>5, <1>6 DEF ChatInv

LEMMA PromptStoredOnce == ASSUME ChatInv PROVE CC!SendsOnce
<1> SUFFICES ASSUME NEW p \in 1..typed, excuses \cap {"unanswered"} = {}
             PROVE  CC!Cardinality({x \in Convs \X (1..MaxAsks) :
                                      /\ x[2] \in DOMAIN store[x[1]].turns
                                      /\ store[x[1]].turns[x[2]].prompt = p}) <= 1
    BY DEF CC!SendsOnce
<1> DEFINE S == {x \in Convs \X (1..MaxAsks) : /\ x[2] \in DOMAIN store[x[1]].turns
                                               /\ store[x[1]].turns[x[2]].prompt = p}
<1>1. PromptsApart BY DEF ChatInv, SendInv, PromptsOnce
<1>2. ASSUME NEW x \in S, NEW z \in S PROVE x = z
  <2>1. x[1] = z[1] /\ x[2] = z[2] BY <1>1 DEF PromptsApart
  <2>2. x = <<x[1], x[2]>> /\ z = <<z[1], z[2]>> OBVIOUS
  <2> QED BY <2>1, <2>2
<1>3. \A T : CC!Cardinality(T) = Cardinality(T) BY DEF CC!Cardinality, Cardinality
<1> HIDE DEF S
<1>4. Cardinality(S) <= 1 BY <1>2, AtMostOne
<1> QED BY <1>3, <1>4 DEF S

LEMMA ChatHolds ==
    ASSUME ChatInv
    PROVE  /\ CC!SendsOnce /\ CC!PendingIsBacked
           /\ CC!ShownIsChosen /\ CC!NothingDeletedIsShown /\ CC!DeleteOffersUndo
<1>1. ChatShapes /\ NavInv /\ DeleteInv BY DEF ChatInv
<1>2. ASSUME CC!Quiet, NEW s \in Procs PROVE calls[s].kind = "none" /\ calls[s].kind \notin CC!Navigates
    BY <1>2, NoCallIs, Navigating DEF CC!Quiet
<1>3. ASSUME CC!Quiet, ~Excused(Astray) PROVE ~Waits(shown.turns) /\ shown.id = chosen
    BY <1>1, <1>2, <1>3, NobodyNavigates
<1>4. CC!PendingIsBacked BY <1>3 DEF CC!PendingIsBacked, Excused, Astray, Waits
<1>5. CC!ShownIsChosen BY <1>3 DEF CC!ShownIsChosen, Excused, Astray
<1>6. CC!Quiet => \A c : ~Deleting(c) BY <1>2 DEF Deleting
<1>7. CC!NothingDeletedIsShown
    BY <1>1, <1>6, ActiveIs DEF CC!NothingDeletedIsShown, DeleteInv, Excused, Astern
<1>8. CC!DeleteOffersUndo
    BY <1>1, <1>6 DEF CC!DeleteOffersUndo, DeleteInv, Excused
<1> QED BY <1>4, <1>5, <1>7, <1>8, PromptStoredOnce

-----------------------------------------------------------------------------
(* What the chat page and the search session promise. *)

ClientInv == (part = "chat" => ChatInv) /\ (part = "search" => SearchInv)

LEMMA ClientStarts == Init => ClientInv
BY ChatInit, SearchInit DEF Init, ClientInv

LEMMA ClientGoesOn == ClientInv /\ [Next]_vars => ClientInv'
<1> SUFFICES ASSUME ClientInv, [Next]_vars PROVE ClientInv'
    OBVIOUS
<1>1. part' = part
    BY DEF Next, vars
<1>2. ASSUME part = "chat" PROVE ChatInv'
  <2>1. CC!Next \/ UNCHANGED CC!clientVars
      BY <1>2 DEF Next, vars, CC!clientVars, CC!pageVars
  <2> QED
      BY <1>2, <2>1, ChatStep, ChatUnchanged DEF ClientInv
<1>3. ASSUME part = "search" PROVE SearchInv'
  <2>1. CS!Next \/ UNCHANGED CS!sessionVars
      BY <1>3 DEF Next, vars, CS!sessionVars
  <2> QED
      BY <1>3, <2>1, SearchStep, SearchUnchanged DEF ClientInv
<1> QED
    BY <1>1, <1>2, <1>3 DEF ClientInv

LEMMA ClientHolds == ClientInv => TypedOnce /\ ShownAsStored /\ PageIsCurrent
BY ChatHolds, SearchHolds DEF ClientInv, TypedOnce, ShownAsStored, PageIsCurrent

\* What the user typed is one turn of the server's, in the chat workspace,
\* where each submission has a client message id of its own, and in the search
\* shell, which keeps the draft of a failed request: unless the answer for a
\* turn that is stored was never heard.
THEOREM TypedIsStoredOnce == Spec => []TypedOnce
BY ClientStarts, ClientGoesOn, ClientHolds, PTL DEF Spec

\* Once nothing is under way, a turn that the chat page shows as pending is
\* pending on the server, and a reply in the search shell stands below its
\* prompt in the state the server keeps, apart from the named losses.
THEOREM ShownIsAsStored == Spec => []ShownAsStored
BY ClientStarts, ClientGoesOn, ClientHolds, PTL DEF Spec

\* Once nothing is under way, the chat page shows the conversation chosen last
\* and none that is deleted, nor does the sidebar, and the toast offers to undo
\* the last deletion, apart from the named overtakings and losses.
THEOREM PageIsAlwaysCurrent == Spec => []PageIsCurrent
BY ClientStarts, ClientGoesOn, ClientHolds, PTL DEF Spec
=============================================================================
