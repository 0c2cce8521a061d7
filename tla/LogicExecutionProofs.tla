------------------------ MODULE LogicExecutionProofs ------------------------
(***************************************************************************)
(* Proofs about LogicExecution, for any calls, tokens, pools and payloads.  *)
(***************************************************************************)
EXTENDS LogicExecution, SequenceTheorems, TLAPS

USE ExecutionAssumption

-----------------------------------------------------------------------------
(* The handlers: the inductive invariant                                     *)

\* Before its logic begins a call is at one of these.
Early == {"new", "validating", "keygen", "decap", "queued"}

KindInv == \A c \in Calls : pc[c] = "keygen" => call[c].kind = "negotiate"

\* A call that got past a check of the revocation list is on no token that was
\* revoked when it arrived.
UnbarredInv ==
  \A c \in Calls :
    /\ barred[c] \subseteq revoked
    /\ pc[c] \in Early => began[c] = -1
    /\ Auth # "none" =>
         /\ pc[c] \in {"validating", "keygen", "decap", "queued"} \/ began[c] >= 0
              => call[c].token \notin barred[c]
         /\ pc[c] \in {"decap", "queued"} \/ began[c] >= 0 => held[c].token \notin barred[c]

YoungInv == \A c \in Calls : began[c] >= 0 => began[c] - held[c].born <= TTL

\* Nothing is recorded or answered before the end.
RecordInv ==
  \A c \in Calls :
    /\ pc[c] \notin {"done", "hung"} => answer[c] = << >> /\ audit[c] = << >> /\ c \notin broken
    /\ pc[c] \in {"done", "hung"} => Session!Tells(audit[c], answer[c], c \in broken)

\* A handler is left hanging by the generation of a key, or where nothing catches
\* what recording a failure throws.
ConcludeInv ==
  \A c \in Calls :
    /\ pc[c] = "done" => answer[c] # << >> \/ c \in broken
    /\ pc[c] = "hung" => Auth # "jwt" \/ call[c].kind = "negotiate"

SessionInv == Session!TypeOK /\ KindInv /\ UnbarredInv /\ YoungInv /\ RecordInv /\ ConcludeInv

LEMMA SessionInit == Session!Init => SessionInv
<1>. SUFFICES ASSUME Session!Init PROVE SessionInv
  OBVIOUS
<1>. USE DEF Session!Init, Session!SessionAssumption
<1>1. Session!TypeOK
  BY DEF Session!TypeOK, Session!NoRecord, Session!NoCall, Session!Records, Session!PCs
<1>2. KindInv /\ UnbarredInv /\ YoungInv /\ RecordInv /\ ConcludeInv
  BY DEF KindInv, UnbarredInv, Early, YoungInv, RecordInv, ConcludeInv, Session!NoRecord
<1>3. QED
  BY <1>1, <1>2 DEF SessionInv

-----------------------------------------------------------------------------
(* How a call ends                                                           *)

\* One answer and one or two records appended to nothing.
LEMMA FirstOnes ==
  /\ \A a : Append(<< >>, a) = << a >> /\ << >> \o << a >> = << a >>
  /\ \A a, b : << >> \o << a, b >> = << a, b >>
OBVIOUS

\* What may have been recorded of a call that ends with an answer, or none.
LEMMA Telling ==
  /\ \A threw : \A a \in {"refused", "blocked", "accepted"} : Session!Tells(<< >>, << a >>, threw)
  /\ \A threw : Session!Tells(<< >>, << >>, threw)
  /\ \A threw : Session!Tells(<< "ERROR" >>, << "error" >>, threw)
  /\ \A threw : Session!Tells(<< "SUCCESS" >>, << "result" >>, threw)
  /\ \A threw : Session!Tells(<< "BLOCKED_EGRESS" >>, << "withheld" >>, threw)
  /\ \A r : Session!Tells(r, << >>, TRUE) /\ Session!Tells(r, << "refused" >>, TRUE)
  /\ \A s : Session!Tells(<< s, "ERROR" >>, << "error" >>, TRUE)
BY DEF Session!Tells

\* The call ends at l, with the answers a and the records r, and its stream threw.
Ends(c, l, a, r, threw) ==
  /\ pc' = [pc EXCEPT ![c] = l]
  /\ answer' = [answer EXCEPT ![c] = a]
  /\ audit' = [audit EXCEPT ![c] = r]
  /\ broken' = IF threw THEN broken \cup {c} ELSE broken

EndOK(l, a, r, threw) ==
  /\ l \in {"done", "hung"}
  /\ a \in Seq(Session!Answers) /\ r \in Seq(Session!Statuses)
  /\ Session!Tells(r, a, threw)
  /\ l = "done" => a # << >> \/ threw
  /\ l = "hung" => Auth # "jwt"

Finishes(c) == \E l, a, r : \E threw \in BOOLEAN : Ends(c, l, a, r, threw) /\ EndOK(l, a, r, threw)

\* The ends there are.
LEMMA EndsOK ==
  /\ \A a \in {"refused", "blocked", "accepted"} : EndOK("done", << a >>, << >>, FALSE)
  /\ Auth # "jwt" => EndOK("hung", << >>, << >>, FALSE)
  /\ EndOK("done", << "error" >>, << "ERROR" >>, FALSE)
  /\ EndOK("done", << >>, << "ERROR" >>, TRUE)
  /\ EndOK("done", << "result" >>, << "SUCCESS" >>, FALSE)
  /\ EndOK("done", << "withheld" >>, << "BLOCKED_EGRESS" >>, FALSE)
  /\ \A s \in Session!Statuses :
       /\ EndOK("done", << "error" >>, << s, "ERROR" >>, TRUE)
       /\ EndOK("done", << >>, << s, "ERROR" >>, TRUE)
       /\ EndOK("done", << "refused" >>, << s >>, TRUE)
       /\ Auth # "jwt" => EndOK("hung", << >>, << s >>, TRUE)
<1>1. /\ \A a \in Session!Answers : << a >> \in Seq(Session!Answers) /\ << a >> # << >>
      /\ \A s \in Session!Statuses : << s >> \in Seq(Session!Statuses)
      /\ \A s, r \in Session!Statuses : << s, r >> \in Seq(Session!Statuses)
      /\ << >> \in Seq(Session!Answers) /\ << >> \in Seq(Session!Statuses)
  OBVIOUS
<1>2. /\ {"refused", "accepted", "blocked", "result", "withheld", "error"} \subseteq Session!Answers
      /\ {"SUCCESS", "BLOCKED_EGRESS", "ERROR"} \subseteq Session!Statuses
  BY DEF Session!Answers, Session!Statuses
<1>3. \A a \in {"refused", "blocked", "accepted"} : EndOK("done", << a >>, << >>, FALSE)
  BY <1>1, <1>2, Telling DEF EndOK
<1>4. Auth # "jwt" => EndOK("hung", << >>, << >>, FALSE)
  BY <1>1, <1>2, Telling DEF EndOK
<1>5. /\ EndOK("done", << "error" >>, << "ERROR" >>, FALSE)
      /\ EndOK("done", << >>, << "ERROR" >>, TRUE)
      /\ EndOK("done", << "result" >>, << "SUCCESS" >>, FALSE)
      /\ EndOK("done", << "withheld" >>, << "BLOCKED_EGRESS" >>, FALSE)
  BY <1>1, <1>2, Telling DEF EndOK
<1>6. ASSUME NEW s \in Session!Statuses
      PROVE  /\ EndOK("done", << "error" >>, << s, "ERROR" >>, TRUE)
             /\ EndOK("done", << >>, << s, "ERROR" >>, TRUE)
             /\ EndOK("done", << "refused" >>, << s >>, TRUE)
             /\ Auth # "jwt" => EndOK("hung", << >>, << s >>, TRUE)
  BY <1>1, <1>2, Telling DEF EndOK
<1>7. QED
  BY <1>3, <1>4, <1>5, <1>6

\* A handler that has neither answered nor recorded anything yet.
Fresh(c) == answer[c] = << >> /\ audit[c] = << >> /\ pc[c] \notin {"done", "hung"}

LEMMA FreshEnds ==
  ASSUME SessionInv, NEW c \in Calls, Fresh(c)
  PROVE  /\ \A a : Session!Answer(c, a) =>
              answer' = [answer EXCEPT ![c] = << a >>] /\ pc' = [pc EXCEPT ![c] = "done"]
         /\ UNCHANGED answer => answer' = [answer EXCEPT ![c] = << >>]
         /\ UNCHANGED audit => audit' = [audit EXCEPT ![c] = << >>]
         /\ \A r : Session!Recorded(c, << r >>) => audit' = [audit EXCEPT ![c] = << r >>]
         /\ \A r, q : Session!Recorded(c, << r, q >>) => audit' = [audit EXCEPT ![c] = << r, q >>]
         /\ Session!Breaks(c) => broken' = broken \cup {c}
<1>1. /\ answer \in [Calls -> Seq(Session!Answers)] /\ audit \in [Calls -> Seq(Session!Statuses)]
  BY DEF SessionInv, Session!TypeOK
<1>2. [answer EXCEPT ![c] = << >>] = answer /\ [audit EXCEPT ![c] = << >>] = audit
  BY <1>1 DEF Fresh
<1>3. QED
  BY <1>2, FirstOnes DEF Fresh, Session!Answer, Session!Goto, Session!Recorded, Session!Breaks

LEMMA AnswerFinishes ==
  ASSUME SessionInv, NEW c \in Calls, Fresh(c),
         NEW a \in {"refused", "blocked", "accepted"}, Session!Answer(c, a),
         UNCHANGED <<audit, broken>>
  PROVE  Finishes(c)
<1>1. Ends(c, "done", << a >>, << >>, FALSE)
  BY FreshEnds DEF Ends
<1>2. QED
  BY <1>1, EndsOK DEF Finishes

LEMMA CaughtFinishes ==
  ASSUME SessionInv, NEW c \in Calls, Fresh(c), Session!Caught(c)
  PROVE  Finishes(c)
<1>1. CASE Session!Recorded(c, << "ERROR" >>) /\ Session!Answer(c, "error") /\ UNCHANGED broken
  <2>1. Ends(c, "done", << "error" >>, << "ERROR" >>, FALSE)
    BY <1>1, FreshEnds DEF Ends
  <2>2. QED
    BY <2>1, EndsOK DEF Finishes
<1>2. CASE /\ Session!Recorded(c, << "ERROR" >>) /\ Session!Breaks(c) /\ Session!Goto(c, "done")
           /\ UNCHANGED answer
  <2>1. Ends(c, "done", << >>, << "ERROR" >>, TRUE)
    BY <1>2, FreshEnds DEF Ends, Session!Goto
  <2>2. QED
    BY <2>1, EndsOK DEF Finishes
<1>3. CASE UNCHANGED <<audit, broken>> /\ Auth = "jwt" /\ Session!Answer(c, "refused")
  BY <1>3, AnswerFinishes
<1>4. CASE UNCHANGED <<audit, broken, answer>> /\ Auth # "jwt" /\ Session!Goto(c, "hung")
  <2>1. Ends(c, "hung", << >>, << >>, FALSE)
    BY <1>4, FreshEnds DEF Ends, Session!Goto
  <2>2. QED
    BY <1>4, <2>1, EndsOK DEF Finishes
<1>5. QED
  BY <1>1, <1>2, <1>3, <1>4 DEF Session!Caught, Session!Rejects

LEMMA ReleaseFinishes ==
  ASSUME SessionInv, NEW c \in Calls, Fresh(c),
         \/ Session!Release(c, "SUCCESS", "result")
         \/ Session!Release(c, "BLOCKED_EGRESS", "withheld")
  PROVE  Finishes(c)
<1>1. PICK s \in Session!Statuses, a \in {"result", "withheld"} :
        Session!Release(c, s, a) /\ EndOK("done", << a >>, << s >>, FALSE)
  BY EndsOK DEF Session!Statuses
<1>2. CASE Session!Recorded(c, << s >>) /\ Session!Answer(c, a) /\ UNCHANGED broken
  <2>1. Ends(c, "done", << a >>, << s >>, FALSE)
    BY <1>2, FreshEnds DEF Ends
  <2>2. QED
    BY <1>1, <2>1 DEF Finishes
<1>3. CASE Session!Breaks(c) /\ Session!Recorded(c, << s, "ERROR" >>) /\ Session!Answer(c, "error")
  <2>1. Ends(c, "done", << "error" >>, << s, "ERROR" >>, TRUE)
    BY <1>3, FreshEnds DEF Ends
  <2>2. QED
    BY <2>1, EndsOK DEF Finishes
<1>4. CASE /\ Session!Breaks(c) /\ Session!Recorded(c, << s, "ERROR" >>) /\ Session!Goto(c, "done")
           /\ UNCHANGED answer
  <2>1. Ends(c, "done", << >>, << s, "ERROR" >>, TRUE)
    BY <1>4, FreshEnds DEF Ends, Session!Goto
  <2>2. QED
    BY <2>1, EndsOK DEF Finishes
<1>5. CASE /\ Session!Breaks(c) /\ Session!Recorded(c, << s >>) /\ Auth = "jwt"
           /\ Session!Answer(c, "refused")
  <2>1. Ends(c, "done", << "refused" >>, << s >>, TRUE)
    BY <1>5, FreshEnds DEF Ends
  <2>2. QED
    BY <2>1, EndsOK DEF Finishes
<1>6. CASE /\ Session!Breaks(c) /\ Session!Recorded(c, << s >>) /\ Auth # "jwt"
           /\ Session!Goto(c, "hung") /\ UNCHANGED answer
  <2>1. Ends(c, "hung", << >>, << s >>, TRUE)
    BY <1>6, FreshEnds DEF Ends, Session!Goto
  <2>2. QED
    BY <1>6, <2>1, EndsOK DEF Finishes
<1>7. QED
  BY <1>1, <1>2, <1>3, <1>4, <1>5, <1>6 DEF Session!Release, Session!Rejects

-----------------------------------------------------------------------------
(* The steps of the handlers                                                 *)

SessionTypes == [Calls -> Session!Records]

LEMMA FinishKeeps ==
  ASSUME SessionInv, NEW c \in Calls, Fresh(c), Finishes(c), sessions' \in SessionTypes,
         UNCHANGED <<Auth, clock, revoked, call, held, began, barred>>
  PROVE  SessionInv'
<1>1. PICK l, a, r : \E threw \in BOOLEAN : Ends(c, l, a, r, threw) /\ EndOK(l, a, r, threw)
  BY DEF Finishes
<1>2. PICK threw \in BOOLEAN : Ends(c, l, a, r, threw) /\ EndOK(l, a, r, threw)
  BY <1>1
<1>3. /\ pc \in [Calls -> Session!PCs] /\ answer \in [Calls -> Seq(Session!Answers)]
      /\ audit \in [Calls -> Seq(Session!Statuses)] /\ broken \subseteq Calls
  BY DEF SessionInv, Session!TypeOK
<1>4. /\ pc' \in [Calls -> Session!PCs] /\ answer' \in [Calls -> Seq(Session!Answers)]
      /\ audit' \in [Calls -> Seq(Session!Statuses)] /\ broken' \subseteq Calls
  BY <1>2, <1>3 DEF Ends, EndOK, Session!PCs
<1>5. /\ pc'[c] = l /\ answer'[c] = a /\ audit'[c] = r /\ (threw => c \in broken')
      /\ \A d \in Calls \ {c} : /\ pc'[d] = pc[d] /\ answer'[d] = answer[d]
                                /\ audit'[d] = audit[d] /\ (d \in broken' <=> d \in broken)
  BY <1>2, <1>3 DEF Ends
<1>6. c \in broken' <=> threw
  BY <1>2, <1>5 DEF Ends, Fresh, SessionInv, RecordInv
<1>7. /\ l \in {"done", "hung"} /\ Session!Tells(r, a, threw)
      /\ l = "done" => a # << >> \/ threw
      /\ l = "hung" => Auth # "jwt"
  BY <1>2 DEF EndOK
<1>8. Session!TypeOK'
  BY <1>4 DEF SessionInv, Session!TypeOK, SessionTypes
<1>9. KindInv' /\ UnbarredInv' /\ YoungInv'
  BY <1>5, <1>7 DEF SessionInv, KindInv, UnbarredInv, Early, YoungInv
<1>10. RecordInv'
  <2>1. ASSUME NEW d \in Calls \ {c}
        PROVE  /\ pc'[d] \notin {"done", "hung"} => answer'[d] = << >> /\ audit'[d] = << >> /\ d \notin broken'
               /\ pc'[d] \in {"done", "hung"} => Session!Tells(audit'[d], answer'[d], d \in broken')
    <3>1. (d \in broken') = (d \in broken)
      BY <1>5
    <3>2. QED
      BY <1>5, <3>1 DEF SessionInv, RecordInv
  <2>2. Session!Tells(audit'[c], answer'[c], c \in broken')
    <3>1. (c \in broken') = threw
      BY <1>6
    <3>2. QED
      BY <1>5, <1>7, <3>1
  <2>3. QED
    BY <1>5, <1>7, <2>1, <2>2 DEF RecordInv
<1>11. ConcludeInv'
  BY <1>5, <1>6, <1>7 DEF SessionInv, ConcludeInv
<1>12. QED
  BY <1>8, <1>9, <1>10, <1>11 DEF SessionInv

LEMMA AdvanceKeeps ==
  ASSUME SessionInv, NEW c \in Calls, Fresh(c), began[c] = -1,
         NEW l \in {"validating", "keygen", "decap"}, pc' = [pc EXCEPT ![c] = l],
         UNCHANGED <<Auth, clock, revoked, answer, audit, broken, began>>,
         sessions' \in SessionTypes, held' \in SessionTypes,
         call' \in [Calls -> [kind : {"none", "negotiate", "execute"},
                              token : Tokens \cup {NoToken}, session : Calls \cup {NoSession}]],
         barred' \in [Calls -> SUBSET Tokens],
         \A d \in Calls \ {c} : held'[d] = held[d] /\ call'[d] = call[d] /\ barred'[d] = barred[d],
         barred'[c] \subseteq revoked,
         l = "keygen" => call'[c].kind = "negotiate",
         Auth # "none" => call'[c].token \notin barred'[c],
         Auth # "none" /\ l = "decap" => held'[c].token \notin barred'[c]
  PROVE  SessionInv'
<1>1. pc \in [Calls -> Session!PCs] /\ began \in [Calls -> -1..MaxClock]
  BY DEF SessionInv, Session!TypeOK
<1>2. pc' \in [Calls -> Session!PCs] /\ pc'[c] = l /\ \A d \in Calls \ {c} : pc'[d] = pc[d]
  BY <1>1 DEF Session!PCs
<1>3. Session!TypeOK'
  BY <1>2 DEF SessionInv, Session!TypeOK, SessionTypes
<1>4. KindInv'
  BY <1>2 DEF SessionInv, KindInv
<1>5. UnbarredInv'
  BY <1>2 DEF SessionInv, UnbarredInv, Early
<1>6. YoungInv'
  BY <1>1 DEF SessionInv, YoungInv
<1>7. RecordInv'
  BY <1>2 DEF SessionInv, RecordInv, Fresh
<1>8. ConcludeInv'
  <2>1. \A d \in Calls : pc'[d] \in {"done", "hung"} => d # c
    BY <1>2
  <2>2. QED
    BY <1>2, <2>1 DEF SessionInv, ConcludeInv
<1>9. QED
  BY <1>3, <1>4, <1>5, <1>6, <1>7, <1>8 DEF SessionInv

\* What becomes of a caller that is let in.
LEMMA LetInOutcome ==
  ASSUME SessionInv, NEW c \in Calls, NEW kind, NEW s \in Calls \cup {NoSession},
         Session!LetIn(c, kind, s)
  PROVE  /\ sessions' \in SessionTypes
         /\ \/ Session!Answer(c, "refused") /\ UNCHANGED held
            \/ kind = "negotiate" /\ Session!Goto(c, "keygen") /\ UNCHANGED <<held, answer>>
            \/ /\ Session!Goto(c, "decap") /\ UNCHANGED answer
               /\ \E q \in Calls : /\ held' = [held EXCEPT ![c] = sessions[q]]
                                   /\ sessions[q].token \notin revoked
<1>1. sessions \in SessionTypes /\ Session!NoRecord \in Session!Records
  <2>1. sessions \in SessionTypes
    BY DEF SessionInv, Session!TypeOK, SessionTypes
  <2>2. Session!NoRecord \in Session!Records
    BY DEF Session!NoRecord, Session!Records, Session!SessionAssumption
  <2>3. QED
    BY <2>1, <2>2
<1>2. CASE kind = "negotiate"
  BY <1>1, <1>2 DEF Session!LetIn
<1>3. CASE kind # "negotiate"
  BY <1>1, <1>3 DEF Session!LetIn, Session!Proceed, SessionTypes
<1>4. QED
  BY <1>2, <1>3

LEMMA NewIsFresh ==
  ASSUME SessionInv, NEW c \in Calls, pc[c] \notin {"done", "hung"}
  PROVE  /\ Fresh(c)
         /\ pc[c] \in Early => began[c] = -1
BY DEF SessionInv, RecordInv, Fresh, UnbarredInv

\* On to where nothing is looked up any more.
LEMMA MoveKeeps ==
  ASSUME SessionInv, NEW c \in Calls, Fresh(c),
         NEW l \in {"queued", "running", "proxy", "scanning"}, pc' = [pc EXCEPT ![c] = l],
         UNCHANGED <<Auth, clock, revoked, sessions, call, held, answer, audit, barred, broken>>,
         \/ l = "queued" /\ pc[c] = "decap" /\ UNCHANGED began
         \/ /\ l = "running" /\ pc[c] = "queued"
            /\ began' = [began EXCEPT ![c] = clock] /\ clock - held[c].born <= TTL
         \/ l \in {"proxy", "scanning"} /\ UNCHANGED began
  PROVE  SessionInv'
<1>1. /\ pc \in [Calls -> Session!PCs] /\ began \in [Calls -> -1..MaxClock]
      /\ clock \in 0..MaxClock
  BY DEF SessionInv, Session!TypeOK
<1>2. pc' \in [Calls -> Session!PCs] /\ pc'[c] = l /\ \A d \in Calls \ {c} : pc'[d] = pc[d]
  BY <1>1 DEF Session!PCs
<1>3. began' \in [Calls -> -1..MaxClock] /\ \A d \in Calls \ {c} : began'[d] = began[d]
  BY <1>1 DEF Session!SessionAssumption
<1>4. Session!TypeOK'
  BY <1>2, <1>3 DEF SessionInv, Session!TypeOK
<1>5. KindInv'
  BY <1>2 DEF SessionInv, KindInv
<1>6. UnbarredInv'
  BY <1>1, <1>2, <1>3 DEF SessionInv, UnbarredInv, Early
<1>7. YoungInv'
  BY <1>1, <1>3 DEF SessionInv, YoungInv
<1>8. RecordInv'
  BY <1>2 DEF SessionInv, RecordInv, Fresh
<1>9. ConcludeInv'
  BY <1>2 DEF SessionInv, ConcludeInv
<1>10. QED
  BY <1>4, <1>5, <1>6, <1>7, <1>8, <1>9 DEF SessionInv

LEMMA ArriveKeeps ==
  ASSUME SessionInv, NEW c \in Calls, NEW kind \in {"negotiate", "execute"},
         NEW t \in Tokens \cup {NoToken}, NEW s \in Calls \cup {NoSession},
         Session!Arrive(c, kind, t, s)
  PROVE  SessionInv'
<1>. USE DEF Session!Goto
<1>1. /\ pc[c] = "new" /\ Session!Admit(c, kind, t, s)
      /\ call' = [call EXCEPT ![c] = [kind |-> kind, token |-> t, session |-> s]]
      /\ barred' = [barred EXCEPT ![c] = revoked]
      /\ UNCHANGED <<Auth, clock, revoked, began, audit, broken>>
  BY DEF Session!Arrive, Session!Tool
<1>2. Fresh(c) /\ began[c] = -1
  BY <1>1, NewIsFresh DEF Early
<1>3. /\ call' \in [Calls -> [kind : {"none", "negotiate", "execute"},
                             token : Tokens \cup {NoToken}, session : Calls \cup {NoSession}]]
      /\ barred' \in [Calls -> SUBSET Tokens] /\ revoked \subseteq Tokens
      /\ sessions \in SessionTypes /\ held \in SessionTypes
      /\ pc \in [Calls -> Session!PCs] /\ answer \in [Calls -> Seq(Session!Answers)]
  BY <1>1 DEF SessionInv, Session!TypeOK, SessionTypes
<1>4. /\ call'[c].kind = kind /\ call'[c].token = t /\ barred'[c] = revoked
      /\ \A d \in Calls \ {c} : call'[d] = call[d] /\ barred'[d] = barred[d]
  BY <1>1 DEF SessionInv, Session!TypeOK
<1>5. ASSUME Session!Answer(c, "refused"), UNCHANGED held, sessions' \in SessionTypes
      PROVE  SessionInv'
  <2>1. answer' = [answer EXCEPT ![c] = << "refused" >>] /\ pc' = [pc EXCEPT ![c] = "done"]
    BY <1>2, <1>5, FreshEnds
  <2>2. /\ pc'[c] = "done" /\ answer'[c] = << "refused" >> /\ audit[c] = << >>
        /\ \A d \in Calls \ {c} : pc'[d] = pc[d] /\ answer'[d] = answer[d]
    BY <1>2, <1>3, <2>1 DEF Fresh
  <2>3. EndOK("done", << "refused" >>, << >>, FALSE)
    BY EndsOK
  <2>4. Session!TypeOK'
    BY <1>1, <1>3, <1>5, <2>1, <2>3 DEF SessionInv, Session!TypeOK, SessionTypes, Session!PCs, EndOK
  <2>5. KindInv' /\ YoungInv'
    BY <1>1, <1>2, <1>4, <1>5, <2>2 DEF SessionInv, KindInv, YoungInv
  <2>6. UnbarredInv'
    BY <1>1, <1>2, <1>4, <1>5, <2>2 DEF SessionInv, UnbarredInv, Early
  <2>7. RecordInv'
    BY <1>1, <2>2, Telling DEF SessionInv, RecordInv
  <2>8. ConcludeInv'
    BY <1>1, <1>4, <2>2 DEF SessionInv, ConcludeInv
  <2>9. QED
    BY <2>4, <2>5, <2>6, <2>7, <2>8 DEF SessionInv
<1>6. ASSUME Session!LetIn(c, kind, s), Auth # "none" => t \notin revoked
      PROVE  SessionInv'
  <2>1. sessions' \in SessionTypes
    BY <1>6, LetInOutcome
  <2>2. CASE Session!Answer(c, "refused") /\ UNCHANGED held
    BY <1>5, <2>1, <2>2
  <2>3. CASE kind = "negotiate" /\ Session!Goto(c, "keygen") /\ UNCHANGED <<held, answer>>
    BY <1>1, <1>2, <1>3, <1>4, <1>6, <2>1, <2>3, AdvanceKeeps
  <2>4. CASE /\ Session!Goto(c, "decap") /\ UNCHANGED answer
             /\ \E q \in Calls : /\ held' = [held EXCEPT ![c] = sessions[q]]
                                 /\ sessions[q].token \notin revoked
    <3>1. /\ held' \in SessionTypes /\ held'[c].token \notin revoked
          /\ \A d \in Calls \ {c} : held'[d] = held[d]
      BY <1>3, <2>4 DEF SessionTypes
    <3>2. QED
      BY <1>1, <1>2, <1>3, <1>4, <1>6, <2>1, <2>4, <3>1, AdvanceKeeps
  <2>5. QED
    BY <1>6, <2>2, <2>3, <2>4, LetInOutcome
<1>7. CASE Auth = "none"
  BY <1>1, <1>6, <1>7 DEF Session!Admit
<1>8. CASE Auth # "none" /\ (t = NoToken \/ t \in revoked)
  BY <1>1, <1>3, <1>5, <1>8 DEF Session!Admit
<1>9. CASE Auth = "local" /\ t \notin {NoToken} \cup revoked
  BY <1>1, <1>3, <1>5, <1>6, <1>9 DEF Session!Admit
<1>10. CASE Auth \notin {"none", "local"} /\ t \notin {NoToken} \cup revoked
  <2>1. Session!Goto(c, "validating") /\ UNCHANGED <<sessions, held, answer>>
    BY <1>1, <1>10 DEF Session!Admit
  <2>2. QED
    BY <1>1, <1>2, <1>3, <1>4, <1>10, <2>1, AdvanceKeeps
<1>11. QED
  BY <1>7, <1>8, <1>9, <1>10

LEMMA ValidatedKeeps ==
  ASSUME SessionInv, NEW c \in Calls, Session!Validated(c)
  PROVE  SessionInv'
<1>. USE DEF Session!Goto
<1>1. /\ pc[c] = "validating" /\ UNCHANGED <<Auth, clock, revoked, call, barred, began, audit, broken>>
      /\ \/ Session!LetIn(c, call[c].kind, call[c].session)
         \/ Session!Answer(c, "refused") /\ UNCHANGED <<sessions, held>>
  BY DEF Session!Validated, Session!Tool
<1>2. Fresh(c) /\ began[c] = -1
  BY <1>1, NewIsFresh DEF Early
<1>3. /\ call' \in [Calls -> [kind : {"none", "negotiate", "execute"},
                             token : Tokens \cup {NoToken}, session : Calls \cup {NoSession}]]
      /\ barred' \in [Calls -> SUBSET Tokens]
      /\ sessions \in SessionTypes /\ held \in SessionTypes
  BY <1>1 DEF SessionInv, Session!TypeOK, SessionTypes
<1>4. /\ barred[c] \subseteq revoked /\ (Auth # "none" => call[c].token \notin barred[c])
  BY <1>1 DEF SessionInv, UnbarredInv
<1>5. ASSUME Session!Answer(c, "refused"), UNCHANGED held, sessions' \in SessionTypes
      PROVE  SessionInv'
  BY <1>1, <1>2, <1>5, AnswerFinishes, FinishKeeps
<1>6. CASE Session!LetIn(c, call[c].kind, call[c].session)
  <2>1. call[c].session \in Calls \cup {NoSession}
    BY DEF SessionInv, Session!TypeOK
  <2>2. sessions' \in SessionTypes
    BY <1>6, <2>1, LetInOutcome
  <2>3. CASE Session!Answer(c, "refused") /\ UNCHANGED held
    BY <1>5, <2>2, <2>3
  <2>4. CASE call[c].kind = "negotiate" /\ Session!Goto(c, "keygen") /\ UNCHANGED <<held, answer>>
    BY <1>1, <1>2, <1>3, <1>4, <2>2, <2>4, AdvanceKeeps
  <2>5. CASE /\ Session!Goto(c, "decap") /\ UNCHANGED answer
             /\ \E q \in Calls : /\ held' = [held EXCEPT ![c] = sessions[q]]
                                 /\ sessions[q].token \notin revoked
    <3>1. /\ held' \in SessionTypes /\ held'[c].token \notin revoked
          /\ \A d \in Calls \ {c} : held'[d] = held[d]
      BY <1>3, <2>5 DEF SessionTypes
    <3>2. QED
      BY <1>1, <1>2, <1>3, <1>4, <2>2, <2>5, <3>1, AdvanceKeeps
  <2>6. QED
    BY <1>6, <2>1, <2>3, <2>4, <2>5, LetInOutcome
<1>7. QED
  BY <1>1, <1>3, <1>5, <1>6

LEMMA KeygenKeeps ==
  ASSUME SessionInv, NEW c \in Calls, Session!OpenSession(c) \/ Session!KeygenFails(c)
  PROVE  SessionInv'
<1>1. Fresh(c) /\ pc[c] = "keygen"
  BY NewIsFresh DEF Session!OpenSession, Session!KeygenFails
<1>2. CASE Session!OpenSession(c)
  <2>1. sessions' \in SessionTypes
    BY <1>2 DEF Session!OpenSession, SessionInv, Session!TypeOK, SessionTypes, Session!Records,
       Session!SessionAssumption
  <2>2. QED
    BY <1>1, <1>2, <2>1, AnswerFinishes, FinishKeeps DEF Session!OpenSession, Session!Tool
<1>3. CASE Session!KeygenFails(c)
  <2>1. /\ UNCHANGED <<Auth, clock, revoked, sessions, call, held, answer, barred, began, audit, broken>>
        /\ pc' = [pc EXCEPT ![c] = "hung"]
    BY <1>3 DEF Session!KeygenFails, Session!Tool, Session!Goto
  <2>2. pc' \in [Calls -> Session!PCs] /\ pc'[c] = "hung" /\ \A d \in Calls \ {c} : pc'[d] = pc[d]
    BY <2>1 DEF SessionInv, Session!TypeOK, Session!PCs
  <2>3. Session!TypeOK'
    BY <2>1, <2>2 DEF SessionInv, Session!TypeOK
  <2>4. KindInv' /\ UnbarredInv' /\ YoungInv'
    BY <2>1, <2>2 DEF SessionInv, KindInv, UnbarredInv, Early, YoungInv
  <2>5. RecordInv'
    BY <1>1, <2>1, <2>2, Telling DEF SessionInv, RecordInv, Fresh
  <2>6. ConcludeInv'
    BY <1>1, <2>1, <2>2 DEF SessionInv, ConcludeInv, KindInv
  <2>7. QED
    BY <2>3, <2>4, <2>5, <2>6 DEF SessionInv
<1>4. QED
  BY <1>2, <1>3

LEMMA ExecutionKeeps ==
  ASSUME SessionInv, NEW c \in Calls,
         \/ Session!Preflight(c) \/ Session!Submit(c) \/ Session!TaskStarts(c)
         \/ Session!TaskEnds(c) \/ Session!ProxyDone(c) \/ Session!Scanned(c)
  PROVE  SessionInv'
<1>. USE DEF Session!others, Session!Tool, Session!Goto
<1>1. Fresh(c) /\ sessions \in SessionTypes
  BY NewIsFresh DEF Session!Preflight, Session!Submit, Session!TaskStarts, Session!TaskEnds,
     Session!ProxyDone, Session!Scanned, SessionInv, Session!TypeOK, SessionTypes
<1>2. ASSUME Session!Caught(c), UNCHANGED <<Auth, clock, revoked, sessions, call, held, began, barred>>
      PROVE  SessionInv'
  BY <1>1, <1>2, CaughtFinishes, FinishKeeps
<1>3. ASSUME NEW a \in {"refused", "blocked"}, Session!Answer(c, a),
             UNCHANGED <<Auth, clock, revoked, sessions, call, held, began, barred, audit, broken>>
      PROVE  SessionInv'
  BY <1>1, <1>3, AnswerFinishes, FinishKeeps
<1>4. CASE Session!Preflight(c)
  BY <1>3, <1>4 DEF Session!Preflight
<1>5. CASE Session!Submit(c)
  <2>1. CASE Session!Caught(c)
    BY <1>2, <1>5, <2>1 DEF Session!Submit
  <2>2. CASE pc' = [pc EXCEPT ![c] = "queued"] /\ UNCHANGED <<answer, audit, broken>>
    BY <1>1, <1>5, <2>2, MoveKeeps DEF Session!Submit
  <2>3. QED
    BY <1>5, <2>1, <2>2 DEF Session!Submit
<1>6. CASE Session!TaskStarts(c)
  <2>1. CASE clock - held[c].born > TTL
    BY <1>2, <1>6, <2>1 DEF Session!TaskStarts
  <2>2. CASE ~(clock - held[c].born > TTL)
    <3>1. clock - held[c].born <= TTL
      BY <2>2 DEF SessionInv, Session!TypeOK, Session!Records, Session!SessionAssumption
    <3>2. QED
      BY <1>1, <1>6, <2>2, <3>1, MoveKeeps DEF Session!TaskStarts
  <2>3. QED
    BY <2>1, <2>2
<1>7. CASE Session!TaskEnds(c)
  <2>1. CASE Session!Caught(c)
    BY <1>2, <1>7, <2>1 DEF Session!TaskEnds
  <2>2. CASE Session!Answer(c, "blocked") /\ UNCHANGED <<audit, broken>>
    BY <1>3, <1>7, <2>2 DEF Session!TaskEnds
  <2>3. CASE /\ pc' = [pc EXCEPT ![c] = "proxy"] \/ pc' = [pc EXCEPT ![c] = "scanning"]
             /\ UNCHANGED <<answer, audit, broken>>
    BY <1>1, <1>7, <2>3, MoveKeeps DEF Session!TaskEnds
  <2>4. QED
    BY <1>7, <2>1, <2>2, <2>3 DEF Session!TaskEnds, Session!CheckPolicy
<1>8. CASE Session!ProxyDone(c)
  <2>1. CASE Session!Answer(c, "blocked")
    BY <1>3, <1>8, <2>1 DEF Session!ProxyDone
  <2>2. CASE pc' = [pc EXCEPT ![c] = "scanning"] /\ UNCHANGED answer
    BY <1>1, <1>8, <2>2, MoveKeeps DEF Session!ProxyDone
  <2>3. QED
    BY <1>8, <2>1, <2>2 DEF Session!ProxyDone, Session!CheckPolicy
<1>9. CASE Session!Scanned(c)
  <2>1. CASE Session!Caught(c)
    BY <1>2, <1>9, <2>1 DEF Session!Scanned
  <2>2. CASE Session!Release(c, "SUCCESS", "result") \/ Session!Release(c, "BLOCKED_EGRESS", "withheld")
    BY <1>1, <1>9, <2>2, ReleaseFinishes, FinishKeeps DEF Session!Scanned
  <2>3. QED
    BY <1>9, <2>1, <2>2 DEF Session!Scanned
<1>10. QED
  BY <1>4, <1>5, <1>6, <1>7, <1>8, <1>9

LEMMA SessionKept ==
  ASSUME SessionInv, Session!Next
  PROVE  SessionInv'
<1>1. CASE \E c \in Calls : Session!Handler(c)
  BY <1>1, ValidatedKeeps, KeygenKeeps, ExecutionKeeps DEF Session!Handler
<1>2. CASE \E c \in Calls, kind \in {"negotiate", "execute"}, t \in Tokens \cup {NoToken},
              s \in Calls \cup {NoSession} : Session!Arrive(c, kind, t, s)
  BY <1>2, ArriveKeeps
<1>3. CASE \E t \in Tokens : Session!Revoke(t)
  BY <1>3 DEF Session!Revoke, SessionInv, Session!TypeOK, KindInv, UnbarredInv, Early, YoungInv,
     RecordInv, ConcludeInv
<1>4. CASE Session!Tick
  <2>1. clock' \in 0..MaxClock
    BY <1>4 DEF Session!Tick, SessionInv, Session!TypeOK, Session!SessionAssumption
  <2>2. Session!TypeOK'
    BY <1>4, <2>1 DEF Session!Tick, SessionInv, Session!TypeOK
  <2>3. KindInv' /\ UnbarredInv' /\ YoungInv' /\ RecordInv' /\ ConcludeInv'
    BY <1>4 DEF Session!Tick, SessionInv, KindInv, UnbarredInv, YoungInv, RecordInv, ConcludeInv
  <2>4. QED
    BY <2>2, <2>3 DEF SessionInv
<1>5. QED
  BY <1>1, <1>2, <1>3, <1>4 DEF Session!Next

LEMMA SessionStutter ==
  ASSUME SessionInv, UNCHANGED sessionVars
  PROVE  SessionInv'
BY DEF sessionVars, SessionInv, Session!TypeOK, KindInv, UnbarredInv, YoungInv, RecordInv,
       ConcludeInv

-----------------------------------------------------------------------------
(* The worker and the agent: the inductive invariant                         *)

\* What a sandbox holds at each stage. The code of the worker undoes all of it, if
\* nothing failed.
FilesInv ==
  \A j \in Jobs :
    /\ worker[j] \in {"new", "admitted"} => j \notin dirs
    /\ worker[j] \in {"new", "admitted", "made", "removing"} => open[j] = {}
    /\ worker[j] = "closed" => open[j] \subseteq {"stderr"}
    /\ worker[j] \in {"returned", "failed"} /\ faults[j] = {} => j \notin dirs /\ open[j] = {}

JobRecords == [payload : Payloads, data : Datasets, policy : Policies \cup {NoPolicy}]

\* A receipt is the commitment of its job to what is released of it.
Computed(j) ==
  LET source == Receipt!Normalize(job[j].payload)
  IN /\ Receipt!Parses(source)
     /\ \E fuel \in Receipt!Fuels(source) :
          receipt[j] = Receipt!Commitment(j, Receipt!Released(j), fuel)

ComputedInv ==
  \A j \in Jobs :
    /\ worker[j] = "new" => receipt[j] = Receipt!NoReceipt
    /\ worker[j] # "new" => job[j] \in JobRecords
    /\ receipt[j] # Receipt!NoReceipt => worker[j] # "new" /\ Computed(j)
    /\ worker[j] = "returned" => receipt[j] # Receipt!NoReceipt

\* What the node answers with, once the worker has returned.
AnswerOf(j) ==
  [evidence |-> IF job[j].payload.proxied THEN Receipt!ToolResult
                ELSE IF job[j].payload.form = "wasm" THEN receipt[j].out
                ELSE Receipt!Sanitize(receipt[j].out),
   image |-> receipt[j].image, receipt |-> receipt[j]]

SentInv ==
  \A j \in Jobs :
    sent[j] # Receipt!NoAnswer => worker[j] = "returned" /\ sent[j] = AnswerOf(j)

\* The receipt in an answer is that of some job, whatever else was exchanged.
VerdictInv ==
  \A j \in Jobs : verdict[j] # "none" =>
    /\ sent[j] # Receipt!NoAnswer
    /\ \E c \in Receipt!Sent : got[j].receipt = receipt[c]
    /\ verdict[j] = "accepted" <=> Receipt!Verified(j, got[j])

ReceiptInv == Receipt!TypeOK /\ FilesInv /\ ComputedInv /\ SentInv /\ VerdictInv

-----------------------------------------------------------------------------
(* What is computed                                                          *)

LEMMA Division ==
  ASSUME NEW v \in Int, NEW u \in Nat \ {0}
  PROVE  v \div u \in Int /\ v % u \in 0..(u - 1) /\ v = (u * (v \div u)) + (v % u)
OBVIOUS

LEMMA Halves ==
  ASSUME NEW v \in Int
  PROVE  /\ Receipt!Kept(v) \in Int
         /\ v >= 0 => Receipt!Kept(v) >= 0
         /\ \A k \in Int : v = 2 * k => Receipt!Kept(v) = v
         /\ \E k \in Int : Receipt!Kept(v) = 2 * k
<1>1. Receipt!Kept(v) = 2 * ((v + 1) \div 2)
  BY DEF Receipt!Kept, Receipt!RoundTo
<1>2. QED
  BY <1>1

\* Rounding to a multiple.
LEMMA RoundToType ==
  ASSUME NEW u \in Nat \ {0}, NEW v \in Int
  PROVE  \E k \in Int : Receipt!RoundTo(u, v) = u * k
<1>1. (v + (u \div 2)) \div u \in Int
  OBVIOUS
<1>2. QED
  BY <1>1 DEF Receipt!RoundTo

\* A multiple of One is whole and has no more places than are kept.
LEMMA WholeMultiple ==
  ASSUME NEW k \in Int
  PROVE  /\ One * k \in Int /\ (One * k) % One = 0
         /\ Receipt!Kept(One * k) = One * k
<1>1. One \in Nat \ {0} /\ One % 2 = 0
  BY DEF ExecutionAssumption, Receipt!ReceiptAssumption
<1>2. PICK m \in Nat : One = 2 * m
  BY <1>1
<1>3. One * k \in Int /\ m * k \in Int /\ One * k = 2 * (m * k)
  BY <1>1, <1>2
<1>4. Receipt!Kept(One * k) = One * k
  BY <1>3, Halves
<1>5. (One * k) % One = 0
  <2>. DEFINE q == (One * k) \div One
              r == (One * k) % One
  <2>1. q \in Int /\ r \in 0..(One - 1) /\ One * k = (One * q) + r
    BY <1>1, <1>3, Division
  <2>2. r = One * (k - q) /\ k - q \in Int
    BY <1>1, <2>1
  <2>3. k - q >= 1 => One * (k - q) >= One
    BY <1>1, <2>2
  <2>4. k - q <= -1 => One * (k - q) <= -One
    BY <1>1, <2>2
  <2>5. k - q = 0 => One * (k - q) = 0
    BY <1>1, <2>2
  <2>6. QED
    BY <1>1, <2>1, <2>2, <2>3, <2>4, <2>5
<1>6. QED
  BY <1>3, <1>4, <1>5

LEMMA WholeIsMultiple ==
  ASSUME NEW v \in Int, v % One = 0
  PROVE  \E k \in Int : v = One * k
<1>1. One \in Nat \ {0}
  BY DEF ExecutionAssumption, Receipt!ReceiptAssumption
<1>2. v = (One * (v \div One)) + (v % One) /\ v \div One \in Int /\ One * (v \div One) \in Int
  BY <1>1, Division
<1>3. v = One * (v \div One)
  BY <1>2
<1>4. QED
  BY <1>2, <1>3

\* Noise gives a number, and never less than nothing for what was not; of a count
\* it makes a count.
LEMMA NoisyLeaf ==
  ASSUME NEW leaf \in Receipt!Leaves, NEW draw \in Int, NEW policy \in Policies, NEW n \in Nat
  PROVE  LET noisy == Receipt!Noisy(leaf, draw, policy, n)
         IN /\ noisy \in Receipt!Leaves /\ noisy.key = leaf.key
            /\ leaf.key = "count" /\ leaf.val >= 0 =>
                 noisy.val >= 0 /\ \E k \in Int : noisy.val = One * k
<1>1. /\ leaf.val \in Int /\ leaf.key \in Receipt!Keys
      /\ policy.epsilon \in Nat \ {0} /\ policy.sensitivity \in Nat
      /\ One \in Nat \ {0}
  BY DEF ExecutionAssumption, Receipt!ReceiptAssumption, Receipt!Leaves, Receipt!Policy
<1>. DEFINE s == Receipt!FieldSensitivity(leaf.key, policy.sensitivity, n)
            e == Receipt!Epsilon(policy, n)
            raw == Receipt!Kept(leaf.val + (s * draw) \div e)
            whole == IF leaf.val % One = 0 \/ s = One THEN Receipt!RoundTo(One, raw) ELSE raw
            to == IF leaf.val >= 0 THEN Receipt!Floored(whole) ELSE whole
<1>2. s \in Int /\ (leaf.key = "count" => s = One)
  BY <1>1 DEF Receipt!FieldSensitivity
<1>3. e \in Nat \ {0}
  BY <1>1 DEF Receipt!Epsilon
<1>4. s * draw \in Int
  BY <1>2
<1>5. (s * draw) \div e \in Int
  BY <1>3, <1>4
<1>6. raw \in Int
  BY <1>1, <1>5, Halves
<1>7. PICK k \in Int : Receipt!RoundTo(One, raw) = One * k
  BY <1>1, <1>6, RoundToType
<1>8. One * k \in Int
  BY <1>1
<1>9. whole \in Int
  BY <1>6, <1>7, <1>8
<1>10. to \in Int /\ (leaf.val >= 0 => to >= 0)
  BY <1>9 DEF Receipt!Floored
<1>11. Receipt!Noisy(leaf, draw, policy, n) = [leaf EXCEPT !.val = to]
  BY DEF Receipt!Noisy
<1>12. [leaf EXCEPT !.val = to] \in Receipt!Leaves /\ [leaf EXCEPT !.val = to].key = leaf.key
       /\ [leaf EXCEPT !.val = to].val = to
  BY <1>10 DEF Receipt!Leaves
<1>13. leaf.key = "count" /\ leaf.val >= 0 => \E i \in Int : to = One * i
  <2>1. SUFFICES ASSUME leaf.key = "count", leaf.val >= 0 PROVE \E i \in Int : to = One * i
    OBVIOUS
  <2>2. whole = One * k
    BY <1>2, <1>7, <2>1
  <2>3. to = One * k \/ to = 0
    BY <2>1, <2>2 DEF Receipt!Floored
  <2>4. One * 0 = 0
    BY <1>1
  <2>5. QED
    BY <2>3, <2>4
<1>14. QED
  BY <1>10, <1>11, <1>12, <1>13

\* Sanitizing what was sanitized changes nothing; it leaves a count a count.
LEMMA SanitizedLeaves ==
  ASSUME NEW leaves \in Seq(Receipt!Leaves)
  PROVE  LET clean == Receipt!Sanitize(leaves)
         IN /\ clean \in Seq(Receipt!Leaves) /\ DOMAIN clean = DOMAIN leaves
            /\ Receipt!Sanitize(clean) = clean
            /\ \A i \in DOMAIN leaves :
                 /\ clean[i].key = leaves[i].key /\ clean[i].val >= 0
                 /\ \A k \in Int : leaves[i].val >= 0 /\ leaves[i].val = One * k =>
                      clean[i].val = One * k
<1>. DEFINE clean == Receipt!Sanitize(leaves)
            Clean(v) == Receipt!Kept(Receipt!Floored(v))
<1>1. ASSUME NEW v \in Int
      PROVE  /\ Clean(v) \in Int /\ Clean(v) >= 0 /\ Clean(Clean(v)) = Clean(v)
             /\ \A k \in Int : v >= 0 /\ v = One * k => Clean(v) = One * k
  <2>1. Receipt!Floored(v) \in Int /\ Receipt!Floored(v) >= 0
        /\ (v >= 0 => Receipt!Floored(v) = v)
    BY DEF Receipt!Floored
  <2>2. Clean(v) \in Int /\ Clean(v) >= 0
    BY <2>1, Halves
  <2>3. PICK k \in Int : Clean(v) = 2 * k
    BY <2>1, Halves
  <2>4. Receipt!Floored(Clean(v)) = Clean(v)
    BY <2>2 DEF Receipt!Floored
  <2>5. Clean(Clean(v)) = Clean(v)
    BY <2>2, <2>3, <2>4, Halves
  <2>6. \A i \in Int : v >= 0 /\ v = One * i => Clean(v) = One * i
    BY <2>1, WholeMultiple
  <2>7. QED
    BY <2>2, <2>5, <2>6
<1>2. /\ DOMAIN leaves = 1..Len(leaves) /\ Len(leaves) \in Nat
      /\ \A i \in DOMAIN leaves : leaves[i] \in Receipt!Leaves
  OBVIOUS
<1>3. \A l \in Receipt!Leaves :
        /\ l.val \in Int /\ l.key \in Receipt!Keys
        /\ \A w \in Int : /\ [l EXCEPT !.val = w] \in Receipt!Leaves
                          /\ [l EXCEPT !.val = w].val = w /\ [l EXCEPT !.val = w].key = l.key
                          /\ l.val = w => [l EXCEPT !.val = w] = l
  BY DEF Receipt!Leaves
<1>4. clean = [i \in DOMAIN leaves |-> [leaves[i] EXCEPT !.val = Clean(leaves[i].val)]]
  BY DEF Receipt!Sanitize
<1>5. DOMAIN clean = DOMAIN leaves
  BY <1>4
<1>. HIDE DEF Clean, clean
<1>6. \A i \in DOMAIN leaves :
        /\ clean[i] = [leaves[i] EXCEPT !.val = Clean(leaves[i].val)]
        /\ leaves[i].val \in Int /\ clean[i] \in Receipt!Leaves
        /\ clean[i].key = leaves[i].key /\ clean[i].val = Clean(leaves[i].val)
  <2>. SUFFICES ASSUME NEW i \in DOMAIN leaves
       PROVE  /\ clean[i] = [leaves[i] EXCEPT !.val = Clean(leaves[i].val)]
              /\ leaves[i].val \in Int /\ clean[i] \in Receipt!Leaves
              /\ clean[i].key = leaves[i].key /\ clean[i].val = Clean(leaves[i].val)
    OBVIOUS
  <2>1. clean[i] = [leaves[i] EXCEPT !.val = Clean(leaves[i].val)]
    BY <1>4
  <2>2. leaves[i] \in Receipt!Leaves /\ leaves[i].val \in Int
    BY <1>2, <1>3
  <2>3. Clean(leaves[i].val) \in Int
    BY <1>1, <2>2
  <2>4. QED
    BY <1>3, <2>1, <2>2, <2>3
<1>7. clean \in Seq(Receipt!Leaves)
  <2>1. clean \in [1..Len(leaves) -> Receipt!Leaves]
    <3>1. DOMAIN clean = 1..Len(leaves) /\ \A i \in 1..Len(leaves) : clean[i] \in Receipt!Leaves
      BY <1>2, <1>5, <1>6
    <3>2. clean = [i \in DOMAIN clean |-> clean[i]]
      BY <1>4, <1>5
    <3>3. QED
      BY <3>1, <3>2
  <2>2. QED
    BY <1>2, <2>1
<1>8. Receipt!Sanitize(clean) = clean
  <2>1. Receipt!Sanitize(clean) =
          [i \in DOMAIN clean |-> [clean[i] EXCEPT !.val = Clean(clean[i].val)]]
    BY DEF Receipt!Sanitize, Clean
  <2>2. \A i \in DOMAIN clean : [clean[i] EXCEPT !.val = Clean(clean[i].val)] = clean[i]
    BY <1>1, <1>3, <1>5, <1>6
  <2>3. clean = [i \in DOMAIN clean |-> clean[i]]
    BY <1>4
  <2>4. QED
    BY <2>1, <2>2, <2>3
<1>9. \A i \in DOMAIN leaves :
        /\ clean[i].key = leaves[i].key /\ clean[i].val >= 0
        /\ \A k \in Int : leaves[i].val >= 0 /\ leaves[i].val = One * k => clean[i].val = One * k
  BY <1>1, <1>6
<1>10. QED
  BY <1>5, <1>7, <1>8, <1>9 DEF clean

LEMMA ReleasedLeaves ==
  ASSUME NEW j \in Jobs, job[j] \in JobRecords
  PROVE  LET output == job[j].payload.output
             released == Receipt!Released(j)
         IN /\ released \in Seq(Receipt!Leaves)
            /\ job[j].payload.form = "js" => Receipt!Sanitize(released) = released
            /\ \A i \in DOMAIN released :
                 output[i].key = "count" /\ output[i].val >= 0 /\ output[i].val % One = 0
                   => released[i].val >= 0 /\ released[i].val % One = 0
<1>. DEFINE p == job[j].payload
            n == Size[job[j].data]
            noisy == Receipt!WithNoise(j, p.output)
<1>1. /\ p \in Payloads /\ p \in Receipt!Payload
      /\ p.form \in {"js", "wasm"} /\ p.output \in Seq(Receipt!Leaves)
      /\ job[j].data \in Datasets /\ n \in Nat
      /\ job[j].policy \in Policies \cup {NoPolicy}
  BY DEF JobRecords, ExecutionAssumption, Receipt!ReceiptAssumption, Receipt!Payload
<1>2. \A i \in DOMAIN p.output : /\ p.output[i] \in Receipt!Leaves
                                 /\ Draw(job[j].data, Receipt!ImageOf(p), i) \in Int
  BY <1>1 DEF ExecutionAssumption, Receipt!ReceiptAssumption
<1>3. /\ noisy \in Seq(Receipt!Leaves) /\ DOMAIN noisy = DOMAIN p.output
      /\ \A i \in DOMAIN noisy :
           p.output[i].key = "count" /\ p.output[i].val >= 0 /\ p.output[i].val % One = 0
             => noisy[i].val >= 0 /\ \E k \in Int : noisy[i].val = One * k
  <2>1. CASE job[j].policy = NoPolicy \/ n >= job[j].policy.threshold
    <3>1. noisy = p.output
      BY <2>1 DEF Receipt!WithNoise
    <3>2. \A i \in DOMAIN p.output : p.output[i].val \in Int
      BY <1>2 DEF Receipt!Leaves
    <3>3. QED
      BY <1>1, <3>1, <3>2, WholeIsMultiple
  <2>2. CASE ~(job[j].policy = NoPolicy \/ n >= job[j].policy.threshold)
    <3>. DEFINE at(i) == Receipt!Noisy(p.output[i], Draw(job[j].data, Receipt!ImageOf(p), i),
                                       job[j].policy, n)
    <3>1. noisy = [i \in DOMAIN p.output |-> at(i)]
      BY <2>2 DEF Receipt!WithNoise
    <3>2. \A i \in DOMAIN p.output :
            /\ at(i) \in Receipt!Leaves
            /\ p.output[i].key = "count" /\ p.output[i].val >= 0 =>
                 at(i).val >= 0 /\ \E k \in Int : at(i).val = One * k
      BY <1>1, <1>2, <2>2, NoisyLeaf
    <3>. HIDE DEF at
    <3>3. noisy \in [1..Len(p.output) -> Receipt!Leaves] /\ Len(p.output) \in Nat
          /\ DOMAIN p.output = 1..Len(p.output)
      BY <1>1, <3>1, <3>2
    <3>4. noisy \in Seq(Receipt!Leaves) /\ DOMAIN noisy = DOMAIN p.output
      BY <3>3
    <3>5. QED
      BY <3>1, <3>2, <3>4
  <2>3. QED
    BY <2>1, <2>2
<1>4. CASE p.form = "wasm"
  BY <1>1, <1>4 DEF Receipt!Released
<1>5. CASE p.form = "js"
  <2>1. Receipt!Released(j) = Receipt!Sanitize(noisy)
    BY <1>5 DEF Receipt!Released
  <2>. HIDE DEF noisy
  <2>. DEFINE clean == Receipt!Sanitize(noisy)
  <2>2. /\ clean \in Seq(Receipt!Leaves) /\ DOMAIN clean = DOMAIN noisy
        /\ Receipt!Sanitize(clean) = clean
        /\ \A i \in DOMAIN noisy :
             \A k \in Int : noisy[i].val >= 0 /\ noisy[i].val = One * k => clean[i].val = One * k
    BY <1>3, SanitizedLeaves
  <2>. HIDE DEF clean
  <2>3. ASSUME NEW i \in DOMAIN noisy, p.output[i].key = "count", p.output[i].val >= 0,
               p.output[i].val % One = 0
        PROVE  clean[i].val >= 0 /\ clean[i].val % One = 0
    <3>1. PICK k \in Int : noisy[i].val >= 0 /\ noisy[i].val = One * k
      BY <1>3, <2>3
    <3>2. QED
      BY <2>2, <3>1, WholeMultiple
  <2>4. QED
    BY <2>1, <2>2, <2>3 DEF clean
<1>6. QED
  BY <1>1, <1>4, <1>5

\* Normalizing what parses once normalized changes nothing.
LEMMA NormalizedTwice ==
  ASSUME NEW p \in Payloads
  PROVE  /\ Receipt!Normalize(p) \in Receipt!Payload
         /\ Receipt!Normalize(p).form = p.form
         /\ Receipt!Normalize(p).output = p.output
         /\ Receipt!Normalize(p).weight \in Nat
         /\ Receipt!Parses(Receipt!Normalize(p)) =>
              Receipt!ImageOf(Receipt!Normalize(p)) = Receipt!ImageOf(p)
<1>1. p \in Receipt!Payload
  BY DEF ExecutionAssumption, Receipt!ReceiptAssumption
<1>2. QED
  BY <1>1 DEF Receipt!Payload, Receipt!Normalize, Receipt!Parses, Receipt!ImageOf

\* A commitment is a receipt, and not the absence of one.
LEMMA CommitmentType ==
  ASSUME NEW j \in Jobs, job[j] \in JobRecords,
         NEW fuel \in Receipt!Fuels(Receipt!Normalize(job[j].payload))
  PROVE  LET made == Receipt!Commitment(j, Receipt!Released(j), fuel)
         IN made \in Receipt!Receipts /\ made # Receipt!NoReceipt /\ made.key = j
<1>1. job[j].payload \in Payloads /\ job[j].data \in Datasets
  BY DEF JobRecords
<1>. DEFINE source == Receipt!Normalize(job[j].payload)
<1>2. source \in Receipt!Payload /\ source.weight \in Nat
  BY <1>1, NormalizedTwice
<1>3. Receipt!ImageOf(source) \in Receipt!Payload
  BY <1>2 DEF Receipt!ImageOf, Receipt!Normalize, Receipt!Payload
<1>4. fuel \in Nat
  BY <1>2 DEF Receipt!Fuels, Receipt!Fuel
<1>5. Receipt!Released(j) \in Seq(Receipt!Leaves)
  BY ReleasedLeaves
<1>6. NoPolicy \notin Jobs
  BY DEF ExecutionAssumption, Receipt!ReceiptAssumption
<1>7. QED
  BY <1>1, <1>3, <1>4, <1>5, <1>6 DEF Receipt!Commitment, Receipt!Receipts, Receipt!NoReceipt

-----------------------------------------------------------------------------
(* The worker and the agent: every step keeps the invariant                  *)

LEMMA ReceiptInit == Receipt!Init => ReceiptInv
<1>. SUFFICES ASSUME Receipt!Init PROVE ReceiptInv
  OBVIOUS
<1>. USE DEF Receipt!Init
<1>1. Receipt!TypeOK
  BY DEF Receipt!TypeOK, Receipt!PCs, Receipt!Reply
<1>2. FilesInv /\ ComputedInv /\ SentInv /\ VerdictInv
  BY DEF FilesInv, ComputedInv, SentInv, VerdictInv
<1>3. QED
  BY <1>1, <1>2 DEF ReceiptInv

LEMMA TypeStep ==
  ASSUME ReceiptInv, Receipt!Next
  PROVE  Receipt!TypeOK'
<1>. USE DEF Receipt!TypeOK, Receipt!Goto, Receipt!PCs, Receipt!away, Receipt!Fault
<1>1. PICK j \in Jobs :
        \/ \E p \in Payloads, d \in Datasets, q \in Policies \cup {NoPolicy} :
             Receipt!Admit(j, p, d, q)
        \/ Receipt!Worker(j) \/ Receipt!Answer(j) \/ Receipt!Deliver(j)
  BY DEF Receipt!Next
<1>2. Receipt!TypeOK /\ ComputedInv
  BY DEF ReceiptInv
<1>3. CASE \E p \in Payloads, d \in Datasets, q \in Policies \cup {NoPolicy} :
             Receipt!Admit(j, p, d, q)
  BY <1>2, <1>3 DEF Receipt!Admit
<1>4. CASE Receipt!InitFails(j)
  BY <1>2, <1>4 DEF Receipt!InitFails
<1>5. CASE Receipt!MakeDir(j)
  BY <1>2, <1>5 DEF Receipt!MakeDir
<1>6. CASE Receipt!OpenFile(j)
  BY <1>2, <1>6 DEF Receipt!OpenFile
<1>7. CASE Receipt!Runs(j)
  <2>1. job[j] \in JobRecords
    BY <1>2, <1>7 DEF Receipt!Runs, ComputedInv
  <2>2. receipt' \in [Jobs -> {Receipt!NoReceipt} \cup Receipt!Receipts]
    <3>1. CASE UNCHANGED receipt
      BY <1>2, <3>1
    <3>2. CASE \E fuel \in Receipt!Fuels(Receipt!Normalize(job[j].payload)) :
                 receipt' = [receipt EXCEPT ![j] =
                               Receipt!Commitment(j, Receipt!Released(j), fuel)]
      BY <1>2, <2>1, <3>2, CommitmentType
    <3>3. QED
      BY <1>7, <3>1, <3>2 DEF Receipt!Runs
  <2>3. QED
    BY <1>2, <1>7, <2>2 DEF Receipt!Runs
<1>8. CASE Receipt!CloseFails(j)
  BY <1>2, <1>8 DEF Receipt!CloseFails, Receipt!Ended
<1>9. CASE Receipt!Close(j)
  BY <1>2, <1>9 DEF Receipt!Close
<1>10. CASE Receipt!RemoveDir(j)
  BY <1>2, <1>10 DEF Receipt!RemoveDir, Receipt!Ended
<1>11. CASE Receipt!Kill(j)
  BY <1>2, <1>11 DEF Receipt!Kill
<1>12. CASE Receipt!Answer(j)
  <2>1. receipt[j] \in Receipt!Receipts
    BY <1>2, <1>12 DEF Receipt!Answer, ComputedInv
  <2>2. receipt[j].out \in Seq(Receipt!Leaves) /\ receipt[j].image \in Receipt!Payload
    BY <2>1 DEF Receipt!Receipts
  <2>3. Receipt!Sanitize(receipt[j].out) \in Seq(Receipt!Leaves)
    BY <2>2, SanitizedLeaves
  <2>4. Receipt!ToolResult \in Seq(Receipt!Leaves)
    <3>1. One \in Int
      BY DEF ExecutionAssumption, Receipt!ReceiptAssumption
    <3>2. [key |-> "sum", val |-> One] \in Receipt!Leaves
      BY <3>1 DEF Receipt!Leaves, Receipt!Keys
    <3>3. QED
      BY <3>2 DEF Receipt!ToolResult
  <2>5. AnswerOf(j) \in Receipt!Reply
    BY <2>1, <2>2, <2>3, <2>4 DEF AnswerOf, Receipt!Reply
  <2>6. sent' = [sent EXCEPT ![j] = AnswerOf(j)]
    BY <1>12 DEF Receipt!Answer, AnswerOf
  <2>7. QED
    BY <1>2, <1>12, <2>5, <2>6 DEF Receipt!Answer
<1>13. CASE Receipt!Deliver(j)
  <2>1. \A c \in Receipt!Sent : /\ sent[c].evidence \in Seq(Receipt!Leaves)
                                /\ sent[c].image \in Receipt!Payload
                                /\ sent[c].receipt \in Receipt!Receipts
    BY <1>2 DEF Receipt!Sent, Receipt!Reply
  <2>2. Receipt!Arrivals(j) \subseteq Receipt!Reply
    BY <1>2, <2>1 DEF Receipt!Arrivals, Receipt!Reply
  <2>3. got' \in [Jobs -> Receipt!Reply]
    BY <1>2, <1>13, <2>2 DEF Receipt!Deliver
  <2>4. QED
    BY <1>2, <1>13, <2>3 DEF Receipt!Deliver
<1>14. QED
  BY <1>1, <1>3, <1>4, <1>5, <1>6, <1>7, <1>8, <1>9, <1>10, <1>11, <1>12, <1>13 DEF Receipt!Worker

LEMMA FilesStep ==
  ASSUME ReceiptInv, Receipt!Next
  PROVE  FilesInv'
<1>. USE DEF FilesInv, Receipt!Goto, Receipt!away, Receipt!Fault
<1>1. PICK j \in Jobs :
        \/ \E p \in Payloads, d \in Datasets, q \in Policies \cup {NoPolicy} :
             Receipt!Admit(j, p, d, q)
        \/ Receipt!Worker(j) \/ Receipt!Answer(j) \/ Receipt!Deliver(j)
  BY DEF Receipt!Next
<1>2. /\ FilesInv
      /\ worker \in [Jobs -> Receipt!PCs] /\ open \in [Jobs -> SUBSET {"stdout", "stderr"}]
      /\ faults \in [Jobs -> SUBSET WorkerFaults]
  BY DEF ReceiptInv, Receipt!TypeOK
<1>3. CASE \E p \in Payloads, d \in Datasets, q \in Policies \cup {NoPolicy} :
             Receipt!Admit(j, p, d, q)
  BY <1>2, <1>3 DEF Receipt!Admit
<1>4. CASE Receipt!InitFails(j)
  BY <1>2, <1>4 DEF Receipt!InitFails
<1>5. CASE Receipt!MakeDir(j)
  BY <1>2, <1>5 DEF Receipt!MakeDir
<1>6. CASE Receipt!OpenFile(j)
  BY <1>2, <1>6 DEF Receipt!OpenFile
<1>7. CASE Receipt!Runs(j)
  BY <1>2, <1>7 DEF Receipt!Runs
<1>8. CASE Receipt!CloseFails(j)
  BY <1>2, <1>8 DEF Receipt!CloseFails, Receipt!Ended
<1>9. CASE Receipt!Close(j)
  BY <1>2, <1>9 DEF Receipt!Close
<1>10. CASE Receipt!RemoveDir(j)
  BY <1>2, <1>10 DEF Receipt!RemoveDir, Receipt!Ended
<1>11. CASE Receipt!Kill(j)
  BY <1>2, <1>11 DEF Receipt!Kill
<1>12. CASE Receipt!Answer(j) \/ Receipt!Deliver(j)
  BY <1>2, <1>12 DEF Receipt!Answer, Receipt!Deliver
<1>13. QED
  BY <1>1, <1>3, <1>4, <1>5, <1>6, <1>7, <1>8, <1>9, <1>10, <1>11, <1>12 DEF Receipt!Worker

\* What is computed of a job, and answered, changes only with its record or receipt.
LEMMA SameComputed ==
  ASSUME NEW k \in Jobs, job'[k] = job[k], receipt'[k] = receipt[k]
  PROVE  Computed(k)' = Computed(k) /\ AnswerOf(k)' = AnswerOf(k)
BY DEF Computed, AnswerOf, Receipt!Commitment, Receipt!Released, Receipt!WithNoise

LEMMA ComputedStep ==
  ASSUME ReceiptInv, Receipt!Next
  PROVE  ComputedInv'
<1>. USE DEF ComputedInv, Receipt!Goto, Receipt!away, Receipt!Fault
<1>1. PICK j \in Jobs :
        \/ \E p \in Payloads, d \in Datasets, q \in Policies \cup {NoPolicy} :
             Receipt!Admit(j, p, d, q)
        \/ Receipt!Worker(j) \/ Receipt!Answer(j) \/ Receipt!Deliver(j)
  BY DEF Receipt!Next
<1>2. /\ ComputedInv /\ worker \in [Jobs -> Receipt!PCs]
      /\ DOMAIN job = Jobs /\ DOMAIN receipt = Jobs
  BY DEF ReceiptInv, Receipt!TypeOK
<1>3. CASE \E p \in Payloads, d \in Datasets, q \in Policies \cup {NoPolicy} :
             Receipt!Admit(j, p, d, q)
  BY <1>2, <1>3, SameComputed DEF Receipt!Admit, JobRecords
<1>4. CASE Receipt!InitFails(j) \/ Receipt!MakeDir(j) \/ Receipt!OpenFile(j)
  BY <1>2, <1>4, SameComputed DEF Receipt!InitFails, Receipt!MakeDir, Receipt!OpenFile
<1>5. CASE Receipt!Runs(j)
  <2>1. CASE UNCHANGED receipt
    BY <1>2, <1>5, <2>1, SameComputed DEF Receipt!Runs
  <2>2. CASE receipt' # receipt
    <3>. DEFINE source == Receipt!Normalize(job[j].payload)
    <3>1. PICK fuel \in Receipt!Fuels(source) :
            receipt' = [receipt EXCEPT ![j] = Receipt!Commitment(j, Receipt!Released(j), fuel)]
      BY <1>5, <2>2 DEF Receipt!Runs
    <3>2. UNCHANGED job /\ job[j] \in JobRecords /\ Receipt!Parses(source)
          /\ worker' = [worker EXCEPT ![j] = "closing"]
      BY <1>2, <1>5, <2>2 DEF Receipt!Runs
    <3>3. receipt'[j] = Receipt!Commitment(j, Receipt!Released(j), fuel)
          /\ Receipt!Commitment(j, Receipt!Released(j), fuel)' =
               Receipt!Commitment(j, Receipt!Released(j), fuel)
      BY <1>2, <3>1, <3>2 DEF Receipt!Commitment, Receipt!Released, Receipt!WithNoise
    <3>4. Computed(j)'
      BY <3>1, <3>2, <3>3 DEF Computed
    <3>5. QED
      BY <1>2, <3>1, <3>2, <3>4, SameComputed
  <2>3. QED
    BY <2>1, <2>2
<1>6. CASE Receipt!CloseFails(j) \/ Receipt!Close(j) \/ Receipt!RemoveDir(j)
  BY <1>2, <1>6, SameComputed
  DEF Receipt!CloseFails, Receipt!Close, Receipt!RemoveDir, Receipt!Ended
<1>7. CASE Receipt!Kill(j)
  BY <1>2, <1>7, SameComputed DEF Receipt!Kill
<1>8. CASE Receipt!Answer(j) \/ Receipt!Deliver(j)
  BY <1>2, <1>8, SameComputed DEF Receipt!Answer, Receipt!Deliver
<1>9. QED
  BY <1>1, <1>3, <1>4, <1>5, <1>6, <1>7, <1>8 DEF Receipt!Worker

\* A job whose worker has returned, or was never begun, stays what it is.
LEMMA AnsweredStep ==
  ASSUME ReceiptInv, Receipt!Next
  PROVE  SentInv' /\ VerdictInv'
<1>. USE DEF Receipt!Goto, Receipt!away, Receipt!Fault
<1>1. PICK j \in Jobs :
        \/ \E p \in Payloads, d \in Datasets, q \in Policies \cup {NoPolicy} :
             Receipt!Admit(j, p, d, q)
        \/ Receipt!Worker(j) \/ Receipt!Answer(j) \/ Receipt!Deliver(j)
  BY DEF Receipt!Next
<1>2. /\ SentInv /\ VerdictInv /\ ComputedInv
      /\ worker \in [Jobs -> Receipt!PCs] /\ DOMAIN job = Jobs /\ DOMAIN receipt = Jobs
      /\ DOMAIN sent = Jobs /\ DOMAIN got = Jobs
      /\ verdict \in [Jobs -> {"none", "accepted", "rejected"}]
  BY DEF ReceiptInv, Receipt!TypeOK
<1>3. CASE \/ \E p \in Payloads, d \in Datasets, q \in Policies \cup {NoPolicy} :
                Receipt!Admit(j, p, d, q)
           \/ Receipt!Worker(j)
  <2>1. /\ UNCHANGED <<sent, got, verdict>> /\ worker[j] # "returned"
        /\ \A k \in Jobs \ {j} :
             job'[k] = job[k] /\ receipt'[k] = receipt[k] /\ worker'[k] = worker[k]
    <3>1. CASE \E p \in Payloads, d \in Datasets, q \in Policies \cup {NoPolicy} :
                 Receipt!Admit(j, p, d, q)
      BY <1>2, <3>1 DEF Receipt!Admit
    <3>2. CASE Receipt!InitFails(j) \/ Receipt!MakeDir(j) \/ Receipt!OpenFile(j)
      BY <1>2, <3>2 DEF Receipt!InitFails, Receipt!MakeDir, Receipt!OpenFile
    <3>3. CASE Receipt!Runs(j) \/ Receipt!Kill(j)
      BY <1>2, <3>3 DEF Receipt!Runs, Receipt!Kill
    <3>4. CASE Receipt!CloseFails(j) \/ Receipt!Close(j) \/ Receipt!RemoveDir(j)
      BY <1>2, <3>4 DEF Receipt!CloseFails, Receipt!Close, Receipt!RemoveDir, Receipt!Ended
    <3>5. QED
      BY <1>3, <3>1, <3>2, <3>3, <3>4 DEF Receipt!Worker
  <2>2. \A k \in Jobs : sent[k] # Receipt!NoAnswer => k # j
    BY <1>2, <2>1 DEF SentInv
  <2>3. SentInv'
    BY <1>2, <2>1, <2>2, SameComputed DEF SentInv
  <2>4. VerdictInv'
    BY <1>2, <2>1, <2>2 DEF VerdictInv, Receipt!Sent, Receipt!Verified
  <2>5. QED
    BY <2>3, <2>4
<1>4. CASE Receipt!Answer(j)
  <2>1. /\ worker[j] = "returned" /\ sent[j] = Receipt!NoAnswer
        /\ sent' = [sent EXCEPT ![j] = AnswerOf(j)]
        /\ UNCHANGED <<job, worker, receipt, got, verdict>>
    BY <1>4 DEF Receipt!Answer, AnswerOf
  <2>2. AnswerOf(j) # Receipt!NoAnswer
    BY <1>2, <2>1 DEF ComputedInv, AnswerOf, Receipt!NoAnswer
  <2>3. SentInv'
    BY <1>2, <2>1, SameComputed DEF SentInv
  <2>4. Receipt!Sent \subseteq Receipt!Sent'
    BY <1>2, <2>1, <2>2 DEF Receipt!Sent
  <2>5. VerdictInv'
    BY <1>2, <2>1, <2>2, <2>4 DEF VerdictInv, Receipt!Verified
  <2>6. QED
    BY <2>3, <2>5
<1>5. CASE Receipt!Deliver(j)
  <2>1. PICK a \in Receipt!Arrivals(j) :
          /\ got' = [got EXCEPT ![j] = a]
          /\ verdict' = [verdict EXCEPT ![j] =
                           IF Receipt!Verified(j, a) THEN "accepted" ELSE "rejected"]
    BY <1>5 DEF Receipt!Deliver
  <2>2. UNCHANGED <<job, worker, receipt, sent>> /\ j \in Receipt!Sent
    BY <1>5 DEF Receipt!Deliver
  <2>3. SentInv'
    BY <1>2, <2>2, SameComputed DEF SentInv
  <2>4. \A c \in Receipt!Sent : sent[c].receipt = receipt[c]
    BY <1>2 DEF SentInv, Receipt!Sent, AnswerOf
  <2>5. \E c \in Receipt!Sent : a.receipt = receipt[c]
    BY <2>2, <2>4 DEF Receipt!Arrivals
  <2>6. VerdictInv'
    BY <1>2, <2>1, <2>2, <2>5 DEF VerdictInv, Receipt!Sent, Receipt!Verified
  <2>7. QED
    BY <2>3, <2>6
<1>6. QED
  BY <1>1, <1>3, <1>4, <1>5

LEMMA ReceiptKept ==
  ASSUME ReceiptInv, Receipt!Next
  PROVE  ReceiptInv'
BY TypeStep, FilesStep, ComputedStep, AnsweredStep DEF ReceiptInv

LEMMA ReceiptStutter ==
  ASSUME ReceiptInv, UNCHANGED receiptVars
  PROVE  ReceiptInv'
<1>1. FilesInv'
  BY DEF receiptVars, ReceiptInv, FilesInv
<1>2. ComputedInv' /\ SentInv'
  BY SameComputed DEF receiptVars, ReceiptInv, ComputedInv, SentInv
<1>3. VerdictInv' /\ Receipt!TypeOK'
  BY DEF receiptVars, ReceiptInv, VerdictInv, Receipt!Sent, Receipt!Verified, Receipt!TypeOK
<1>4. QED
  BY <1>1, <1>2, <1>3 DEF ReceiptInv

-----------------------------------------------------------------------------
(* Theorems                                                                  *)

execVars == <<part, sessionVars, receiptVars>>

LEMMA ExecutionInvInductive == Spec => [](SessionInv /\ ReceiptInv)
<1>1. Init => SessionInv /\ ReceiptInv
  BY SessionInit, ReceiptInit DEF Init
<1>2. SessionInv /\ ReceiptInv /\ [Next]_execVars => SessionInv' /\ ReceiptInv'
  BY SessionKept, SessionStutter, ReceiptKept, ReceiptStutter
  DEF Next, SessionStep, ReceiptStep, execVars
<1>3. QED
  BY <1>1, <1>2, PTL DEF Spec, execVars

\* On any node and for any logic: the state of the handlers and of the workers keeps
\* its type.
THEOREM TypeCorrect == Spec => []TypeOK
<1>1. SessionInv /\ ReceiptInv => TypeOK
  BY DEF SessionInv, ReceiptInv, TypeOK
<1>2. QED
  BY <1>1, ExecutionInvInductive, PTL

\* However long validation, decapsulation and the queue take: no logic begins on a
\* token, of the call or of its session, that was revoked when the call arrived.
THEOREM RevokedTokensRunNothing == Spec => []RevokedNeverRuns
<1>1. SessionInv => RevokedNeverRuns
  BY DEF SessionInv, UnbarredInv, RevokedNeverRuns, Session!RevokedNeverRuns
<1>2. QED
  BY <1>1, ExecutionInvInductive, PTL

\* However long a task waits in the pool: no logic begins on a session older than
\* its lifetime.
THEOREM ExpiredKeysRunNothing == Spec => []NoLogicOnExpiredKey
<1>1. SessionInv => NoLogicOnExpiredKey
  BY DEF SessionInv, YoungInv, NoLogicOnExpiredKey, Session!NoLogicOnExpiredKey
<1>2. QED
  BY <1>1, ExecutionInvInductive, PTL

\* Whatever the pool, the scanner, an append and a write to the stream do: what the
\* call of an execution is told of its outcome is what the audit file holds of it.
THEOREM AnswersAreRecorded == Spec => []RecordTellsAnswer
<1>1. \A c \in Calls : Session!Tells(<< >>, << >>, c \in broken)
  BY Telling
<1>2. SessionInv => RecordTellsAnswer
  BY <1>1 DEF SessionInv, RecordInv, RecordTellsAnswer, Session!RecordTellsAnswer
<1>3. QED
  BY <1>2, ExecutionInvInductive, PTL

\* With a JWT validator no execution ends without an answer, unless its stream threw.
THEOREM ValidatedExecutionsConclude == Spec => []ExecutionsConclude
<1>1. SessionInv => ExecutionsConclude
  BY DEF SessionInv, ConcludeInv, ExecutionsConclude, Session!ExecutionsConclude
<1>2. QED
  BY <1>1, ExecutionInvInductive, PTL

\* Whatever pieces of the answers of a node are exchanged on the way: what an agent
\* accepts is what its own logic was committed to have yielded (verifyZkReceipt).
THEOREM AcceptedIsOwn == Spec => []AcceptedWasComputed
<1>1. ASSUME ReceiptInv PROVE AcceptedWasComputed
  <2>1. SUFFICES ASSUME NEW j \in Jobs, verdict[j] = "accepted"
                 PROVE  /\ got[j].receipt = receipt[j]
                        /\ ~Receipt!Extracts(job[j].payload) => got[j].evidence = receipt[j].out
    BY DEF AcceptedWasComputed, Receipt!AcceptedWasComputed
  <2>2. Receipt!Verified(j, got[j]) /\ \E c \in Receipt!Sent : got[j].receipt = receipt[c]
    BY <1>1, <2>1 DEF ReceiptInv, VerdictInv
  <2>3. PICK c \in Receipt!Sent : got[j].receipt = receipt[c]
    BY <2>2
  <2>4. Computed(c) /\ c \in Jobs
    BY <1>1 DEF ReceiptInv, SentInv, ComputedInv, Receipt!Sent
  <2>5. receipt[c].key = c
    BY <2>4 DEF Computed, Receipt!Commitment
  <2>6. QED
    BY <2>2, <2>3, <2>5 DEF Receipt!Verified
<1>2. QED
  BY <1>1, ExecutionInvInductive, PTL

\* For any noise and any numbers, bare or in an envelope: an answer that arrives as it
\* was sent is accepted, although what is sent is sanitized once more than what was
\* committed to; but that of a proxied call which is in an envelope, where it is not
\* extracted, or whose numbers the worker changed.
THEOREM HonestAnswersAccepted == Spec => []HonestAnswersPass
<1>1. ASSUME ReceiptInv PROVE HonestAnswersPass
  <2>1. SUFFICES ASSUME NEW j \in Jobs, verdict[j] = "rejected", got[j] = sent[j],
                        job[j].payload.proxied => Receipt!Extracts(job[j].payload) /\ Receipt!Intact(j)
                 PROVE  FALSE
    BY DEF HonestAnswersPass, Receipt!HonestAnswersPass
  <2>2. ~Receipt!Verified(j, got[j]) /\ sent[j] # Receipt!NoAnswer
    BY <1>1, <2>1 DEF ReceiptInv, VerdictInv
  <2>3. sent[j] = AnswerOf(j) /\ worker[j] = "returned"
    BY <1>1, <2>2 DEF ReceiptInv, SentInv
  <2>4. Computed(j) /\ job[j] \in JobRecords
    BY <1>1, <2>3 DEF ReceiptInv, ComputedInv
  <2>. DEFINE p == job[j].payload
  <2>5. /\ receipt[j].image = Receipt!ImageOf(Receipt!Normalize(p))
        /\ receipt[j].key = j /\ receipt[j].out = Receipt!Released(j)
        /\ Receipt!Parses(Receipt!Normalize(p))
    BY <2>4 DEF Computed, Receipt!Commitment
  <2>6. p \in Payloads /\ p.form \in {"js", "wasm"} /\ p.proxied \in BOOLEAN
    BY <2>4 DEF JobRecords, ExecutionAssumption, Receipt!ReceiptAssumption, Receipt!Payload
  <2>7. receipt[j].image = Receipt!ImageOf(p)
    BY <2>5, <2>6, NormalizedTwice
  <2>8. CASE p.proxied
    <3>1. Receipt!Released(j) = p.output
      BY <2>1, <2>8 DEF Receipt!Intact
    <3>2. QED
      BY <2>1, <2>2, <2>3, <2>5, <2>7, <2>8, <3>1 DEF AnswerOf, Receipt!Verified
  <2>9. CASE ~p.proxied
    <3>1. p.form = "js" => Receipt!Sanitize(receipt[j].out) = receipt[j].out
      BY <2>4, <2>5, ReleasedLeaves
    <3>2. AnswerOf(j).evidence = receipt[j].out
      BY <2>6, <2>9, <3>1 DEF AnswerOf
    <3>3. ~Receipt!Extracts(p)
      BY <2>9 DEF Receipt!Extracts
    <3>4. QED
      BY <2>1, <2>2, <2>3, <2>5, <2>7, <2>9, <3>2, <3>3 DEF AnswerOf, Receipt!Verified
  <2>10. QED
    BY <2>8, <2>9
<1>2. QED
  BY <1>1, ExecutionInvInductive, PTL

\* For any samples: two jobs of the same logic on the same data under the same policy
\* are committed to alike, the fuel of a script included.
THEOREM SameLogicSameOutput == Spec => []Reproducible
<1>1. ASSUME ReceiptInv PROVE Reproducible
  <2>1. SUFFICES ASSUME NEW i \in Jobs, NEW j \in Jobs, job[i] = job[j],
                        receipt[i] # Receipt!NoReceipt, receipt[j] # Receipt!NoReceipt
                 PROVE  /\ receipt[i].out = receipt[j].out
                        /\ job[i].payload.form = "js" => receipt[i].fuel = receipt[j].fuel
    BY DEF Reproducible, Receipt!Reproducible
  <2>2. Computed(i) /\ Computed(j) /\ job[i] \in JobRecords
    BY <1>1, <2>1 DEF ReceiptInv, ComputedInv
  <2>3. Receipt!Released(i) = Receipt!Released(j)
    BY <2>1 DEF Receipt!Released, Receipt!WithNoise
  <2>4. job[i].payload.form = "js" =>
          Receipt!Fuels(Receipt!Normalize(job[i].payload)) =
            {Receipt!Fuel(Receipt!Normalize(job[i].payload))}
    BY <2>2, NormalizedTwice DEF JobRecords, Receipt!Fuels
  <2>5. QED
    BY <2>1, <2>2, <2>3, <2>4 DEF Computed, Receipt!Commitment
<1>2. QED
  BY <1>1, ExecutionInvInductive, PTL

\* For any samples, epsilon, sensitivity and size: a count is released as a count.
THEOREM CountsAreCounts == Spec => []CountsStayCounts
<1>1. ASSUME ReceiptInv PROVE CountsStayCounts
  <2>1. SUFFICES ASSUME NEW j \in Jobs, receipt[j] # Receipt!NoReceipt,
                        NEW i \in DOMAIN receipt[j].out,
                        job[j].payload.output[i].key = "count",
                        job[j].payload.output[i].val >= 0,
                        job[j].payload.output[i].val % One = 0
                 PROVE  receipt[j].out[i].val >= 0 /\ receipt[j].out[i].val % One = 0
    BY DEF CountsStayCounts, Receipt!CountsStayCounts
  <2>2. Computed(j) /\ job[j] \in JobRecords
    BY <1>1, <2>1 DEF ReceiptInv, ComputedInv
  <2>3. receipt[j].out = Receipt!Released(j)
    BY <2>2 DEF Computed, Receipt!Commitment
  <2>4. QED
    BY <2>1, <2>2, <2>3, ReleasedLeaves
<1>2. QED
  BY <1>1, ExecutionInvInductive, PTL

\* Wherever a worker gives up: unless the file system failed or its thread was killed,
\* its directory and its handles are gone when it is done.
THEOREM WorkersCleanUp == Spec => []NothingLeftBehind
<1>1. ReceiptInv => NothingLeftBehind
  BY DEF ReceiptInv, FilesInv, NothingLeftBehind, Receipt!NothingLeftBehind
<1>2. QED
  BY <1>1, ExecutionInvInductive, PTL
-----------------------------------------------------------------------------
(* A call is answered once                                                   *)

\* How far the handler of a call has come.
Stage(l) ==
  CASE l = "new" -> 0 [] l = "validating" -> 1 [] l \in {"keygen", "decap"} -> 2
    [] l = "queued" -> 3 [] l = "running" -> 4 [] l = "proxy" -> 5 [] l = "scanning" -> 6
    [] OTHER -> 7

\* What a step may do to a call: nothing, bring its handler on, or end it, and then at
\* most one answer and two records are all there will ever be.
Advances(c) ==
  \/ UNCHANGED <<pc[c], answer[c], audit[c]>>
  \/ /\ Stage(pc[c]) < Stage(pc'[c])
     /\ \/ UNCHANGED <<answer[c], audit[c]>>
        \/ pc'[c] \in {"done", "hung"} /\ Len(answer'[c]) <= 1 /\ Len(audit'[c]) <= 2

CallsAdvance == \A c \in Calls : Advances(c)

LEMMA Stages ==
  /\ Stage("new") = 0 /\ Stage("validating") = 1 /\ Stage("keygen") = 2 /\ Stage("decap") = 2
  /\ Stage("queued") = 3 /\ Stage("running") = 4 /\ Stage("proxy") = 5
  /\ Stage("scanning") = 6 /\ Stage("done") = 7 /\ Stage("hung") = 7
BY DEF Stage

LEMMA NotYetEnded ==
  ASSUME SessionInv, NEW c \in Calls, pc[c] \notin {"done", "hung"}
  PROVE  Stage(pc[c]) \in 0 .. 6
<1>1. pc[c] \in {"new", "validating", "keygen", "decap", "queued", "running", "proxy", "scanning"}
  BY DEF SessionInv, Session!TypeOK, Session!PCs
<1>. QED BY <1>1 DEF Stage

\* A handler that goes on, from c's point of view and from that of the other calls.
LEMMA Onward ==
  ASSUME SessionInv, NEW c \in Calls, NEW l, pc' = [pc EXCEPT ![c] = l],
         Stage(pc[c]) < Stage(l), UNCHANGED <<answer, audit>>
  PROVE  CallsAdvance
<1>1. pc'[c] = l /\ \A d \in Calls \ {c} : pc'[d] = pc[d]
  BY DEF SessionInv, Session!TypeOK
<1>. QED BY <1>1 DEF CallsAdvance, Advances

LEMMA Ending ==
  ASSUME SessionInv, NEW c \in Calls, pc[c] \notin {"done", "hung"},
         NEW l \in {"done", "hung"}, pc' = [pc EXCEPT ![c] = l],
         NEW a, NEW r, Len(a) <= 1, Len(r) <= 2,
         answer' = [answer EXCEPT ![c] = a], audit' = [audit EXCEPT ![c] = r]
  PROVE  CallsAdvance
<1>1. /\ pc'[c] = l /\ answer'[c] = a /\ audit'[c] = r
      /\ \A d \in Calls \ {c} : UNCHANGED <<pc[d], answer[d], audit[d]>>
  BY DEF SessionInv, Session!TypeOK
<1>2. Stage(pc[c]) < Stage(l)
  <2>1. Stage(l) = 7
    BY Stages
  <2>. QED BY <2>1, NotYetEnded
<1>. QED BY <1>1, <1>2 DEF CallsAdvance, Advances

LEMMA Lengths ==
  /\ Len(<< >>) <= 1 /\ Len(<< >>) <= 2
  /\ \A a : Len(<< a >>) <= 1 /\ Len(<< a >>) <= 2
  /\ \A a, b : Len(<< a, b >>) <= 2
OBVIOUS

LEMMA Answering ==
  ASSUME SessionInv, NEW c \in Calls, pc[c] \notin {"done", "hung"},
         NEW a, Session!Answer(c, a), UNCHANGED audit
  PROVE  CallsAdvance
<1>1. Fresh(c)
  BY NewIsFresh
<1>2. /\ answer' = [answer EXCEPT ![c] = << a >>] /\ pc' = [pc EXCEPT ![c] = "done"]
      /\ audit' = [audit EXCEPT ![c] = << >>]
  BY <1>1, FreshEnds
<1>. DEFINE one == << a >>
            none == << >>
<1>3. Len(one) <= 1 /\ Len(none) <= 2
  BY Lengths
<1>4. answer' = [answer EXCEPT ![c] = one] /\ audit' = [audit EXCEPT ![c] = none]
  BY <1>2
<1>. HIDE DEF one, none
<1>. QED BY <1>2, <1>3, <1>4, Ending

\* The ways in which a failure and an output are recorded and answered.
LEMMA Finishing ==
  ASSUME SessionInv, NEW c \in Calls, pc[c] \notin {"done", "hung"},
         \/ Session!Caught(c)
         \/ \E s, a : Session!Release(c, s, a)
  PROVE  CallsAdvance
<1>1. Fresh(c)
  BY NewIsFresh
<1>2. \E r : Len(r) <= 2 /\ audit' = [audit EXCEPT ![c] = r]
  <2>1. \/ UNCHANGED audit
        \/ \E s : Session!Recorded(c, << s >>)
        \/ \E s, q : Session!Recorded(c, << s, q >>)
    BY DEF Session!Caught, Session!Release
  <2>2. CASE UNCHANGED audit
    <3>1. audit' = [audit EXCEPT ![c] = << >>]
      BY <1>1, <2>2, FreshEnds
    <3>. QED BY <3>1, Lengths
  <2>3. CASE \E s : Session!Recorded(c, << s >>)
    <3>1. PICK s : audit' = [audit EXCEPT ![c] = << s >>]
      BY <1>1, <2>3, FreshEnds
    <3>. QED BY <3>1, Lengths
  <2>4. CASE \E s, q : Session!Recorded(c, << s, q >>)
    <3>1. PICK s, q : audit' = [audit EXCEPT ![c] = << s, q >>]
      BY <1>1, <2>4, FreshEnds
    <3>. QED BY <3>1, Lengths
  <2>. QED BY <2>1, <2>2, <2>3, <2>4
<1>. PICK r : Len(r) <= 2 /\ audit' = [audit EXCEPT ![c] = r]
  BY <1>2
<1>3. \/ \E a : Session!Answer(c, a)
      \/ UNCHANGED answer /\ \E l \in {"done", "hung"} : Session!Goto(c, l)
  BY DEF Session!Caught, Session!Release, Session!Rejects
<1>4. CASE \E a : Session!Answer(c, a)
  <2>1. PICK a : Session!Answer(c, a)
    BY <1>4
  <2>2. answer' = [answer EXCEPT ![c] = << a >>] /\ pc' = [pc EXCEPT ![c] = "done"]
    BY <1>1, <2>1, FreshEnds
  <2>. DEFINE one == << a >>
  <2>3. Len(one) <= 1 /\ answer' = [answer EXCEPT ![c] = one]
    BY <2>2, Lengths
  <2>. HIDE DEF one
  <2>. QED BY <2>2, <2>3, Ending
<1>5. CASE UNCHANGED answer /\ \E l \in {"done", "hung"} : Session!Goto(c, l)
  <2>1. answer' = [answer EXCEPT ![c] = << >>]
    BY <1>1, <1>5, FreshEnds
  <2>2. PICK l \in {"done", "hung"} : pc' = [pc EXCEPT ![c] = l]
    BY <1>5 DEF Session!Goto
  <2>. DEFINE none == << >>
  <2>3. Len(none) <= 1 /\ answer' = [answer EXCEPT ![c] = none]
    BY <2>1, Lengths
  <2>. HIDE DEF none
  <2>. QED BY <2>2, <2>3, Ending
<1>. QED BY <1>3, <1>4, <1>5

LEMMA LettingIn ==
  ASSUME SessionInv, NEW c \in Calls, pc[c] \in {"new", "validating"}, NEW kind,
         NEW s \in Calls \cup {NoSession}, Session!LetIn(c, kind, s), UNCHANGED audit
  PROVE  CallsAdvance
<1>1. CASE Session!Answer(c, "refused")
  BY <1>1, Answering
<1>2. CASE (Session!Goto(c, "keygen") \/ Session!Goto(c, "decap")) /\ UNCHANGED answer
  BY <1>2, Stages, Onward DEF Session!Goto
<1>. QED BY <1>1, <1>2, LetInOutcome

LEMMA ArriveAdvances ==
  ASSUME SessionInv, NEW c \in Calls, NEW kind, NEW t, NEW s \in Calls \cup {NoSession},
         Session!Arrive(c, kind, t, s)
  PROVE  CallsAdvance
<1>1. pc[c] = "new" /\ Session!Admit(c, kind, t, s) /\ UNCHANGED audit
  BY DEF Session!Arrive, Session!Tool
<1>2. \/ Session!LetIn(c, kind, s)
      \/ Session!Answer(c, "refused")
      \/ Session!Goto(c, "validating") /\ UNCHANGED answer
  BY <1>1 DEF Session!Admit
<1>3. CASE Session!Goto(c, "validating") /\ UNCHANGED answer
  <2>1. Stage(pc[c]) < Stage("validating")
    BY <1>1, Stages
  <2>. QED BY <1>1, <1>3, <2>1, Onward DEF Session!Goto
<1>. QED BY <1>1, <1>2, <1>3, LettingIn, Answering

LEMMA HandlerAdvances ==
  ASSUME SessionInv, NEW c \in Calls, Session!Handler(c)
  PROVE  CallsAdvance
<1>. USE DEF Session!others, Session!Tool
<1>1. CASE Session!Validated(c)
  <2>1. call[c].session \in Calls \cup {NoSession}
    BY DEF SessionInv, Session!TypeOK
  <2>. QED BY <1>1, <2>1, LettingIn, Answering DEF Session!Validated
<1>2. CASE Session!OpenSession(c)
  BY <1>2, Answering DEF Session!OpenSession
<1>3. CASE Session!KeygenFails(c)
  <2>1. /\ pc[c] = "keygen" /\ pc' = [pc EXCEPT ![c] = "hung"] /\ UNCHANGED <<answer, audit>>
    BY <1>3 DEF Session!KeygenFails, Session!Goto
  <2>2. Stage(pc[c]) < Stage("hung")
    BY <2>1, Stages
  <2>. QED BY <2>1, <2>2, Onward
<1>4. CASE Session!Preflight(c)
  BY <1>4, Answering DEF Session!Preflight
<1>5. CASE Session!Submit(c)
  BY <1>5, Stages, Onward, Finishing DEF Session!Submit, Session!Goto
<1>6. CASE Session!TaskStarts(c)
  BY <1>6, Stages, Onward, Finishing DEF Session!TaskStarts, Session!Goto
<1>7. CASE Session!TaskEnds(c)
  BY <1>7, Stages, Onward, Finishing, Answering
     DEF Session!TaskEnds, Session!CheckPolicy, Session!Goto
<1>8. CASE Session!ProxyDone(c)
  BY <1>8, Stages, Onward, Answering DEF Session!ProxyDone, Session!CheckPolicy, Session!Goto
<1>9. CASE Session!Scanned(c)
  BY <1>9, Finishing DEF Session!Scanned
<1>. QED BY <1>1, <1>2, <1>3, <1>4, <1>5, <1>6, <1>7, <1>8, <1>9 DEF Session!Handler

\* Whatever the pool, an append, a write to the stream or the validator throws, and
\* wherever the catch block itself is left (executeLogic): a handler goes through at most
\* seven steps, a call is answered at most once and leaves at most two records, all in
\* its last step, and nothing is added to what is done or left hanging.
THEOREM CallsAreAnsweredOnce == Spec => [][CallsAdvance]_execVars
<1>1. SessionInv /\ [Next]_execVars => [CallsAdvance]_execVars
  <2>. SUFFICES ASSUME SessionInv, Next PROVE CallsAdvance
    OBVIOUS
  <2>1. CASE SessionStep
    <3>1. CASE UNCHANGED <<pc, answer, audit>>
      BY <3>1 DEF CallsAdvance, Advances
    <3>. QED BY <2>1, <3>1, HandlerAdvances, ArriveAdvances
             DEF SessionStep, Session!Next, Session!Revoke, Session!Tick
  <2>2. CASE ReceiptStep
    BY <2>2 DEF ReceiptStep, sessionVars, CallsAdvance, Advances
  <2>. QED BY <2>1, <2>2 DEF Next
<1>. QED BY <1>1, ExecutionInvInductive, PTL DEF Spec, execVars
=============================================================================
