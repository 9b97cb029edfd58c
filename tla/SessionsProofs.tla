--------------------------- MODULE SessionsProofs ---------------------------
(***************************************************************************)
(* Proofs about Sessions: for any clients, tokens and bounds, the          *)
(* invariant that OldSessionsDie and OneHeirPerLogin are part of, and that *)
(* the browsers of Browser are such clients, which hold each token once.   *)
(***************************************************************************)
EXTENDS Browser, TLAPS

LEMMA BlankCall == NoCall \in CallType /\ NoCall.pc = "idle"
  BY DEF NoCall, CallType

LEMMA DeadRow == \A s \in States : Over(s) \in SessionType /\ Over(s).state = s
  BY DEF Over, NoSession, SessionType

LEMMA InitHolds == SessionsInit => SessionsInv
<1> SUFFICES ASSUME SessionsInit PROVE SessionsInv
  OBVIOUS
<1>1. NoSession \in SessionType /\ NoSession.state = "none"
  BY DEF NoSession, SessionType, States
<1>2. SessionsTypeOK
  BY <1>1, BlankCall DEF SessionsInit, SessionsTypeOK
<1>3. \A t \in Tokens : ~Live(t)
  BY <1>1 DEF SessionsInit, Live
<1>4. \A c \in Calls : call[c].pc = "idle" /\ ~Claims(c)
  BY BlankCall DEF SessionsInit, Claims
<1>5. RootsAreIssued
  BY <1>3, <1>4 DEF RootsAreIssued
<1>6. ClaimsAreProven /\ OneClaimPerLogin
  BY <1>4 DEF ClaimsAreProven, OneClaimPerLogin
<1>8. AccountFirst
  BY <1>3, <1>4 DEF AccountFirst
<1>7. OldSessionsDie /\ OneHeirPerLogin
  BY <1>3 DEF OldSessionsDie, OneHeirPerLogin, Live
<1> QED
  BY <1>2, <1>5, <1>6, <1>7, <1>8 DEF SessionsInv

-----------------------------------------------------------------------------
(* A step that moves one handler to where it claims nothing.                *)
LEMMA HandlerStops ==
  ASSUME SessionsInv, NEW c \in Calls, NEW n \in CallType,
         n.pc \notin {"rotate", "issue"}, n.pc = "rewrite" => account.exists,
         call' = [call EXCEPT ![c] = n],
         UNCHANGED <<account, session, raced>>, alarm' \in BOOLEAN, faults' \in Nat
  PROVE  SessionsInv'
<1>1. SessionsTypeOK'
  BY SMT DEF SessionsInv, SessionsTypeOK
<1>2. \A d \in Calls : Claims(d)' => d # c /\ call'[d] = call[d] /\ Claims(d)
  BY DEF SessionsInv, SessionsTypeOK, Claims
<1>3. \A d \in Calls : call'[d].pc = "rotate" => call'[d] = call[d]
  BY <1>2 DEF Claims
<1>4. \A t \in Tokens : Live(t)' <=> Live(t)
  BY DEF Live
<1>5. RootsAreIssued'
  BY <1>2, <1>3, <1>4 DEF SessionsInv, RootsAreIssued
<1>6. ClaimsAreProven' /\ OldSessionsDie' /\ OneHeirPerLogin'
  BY <1>2, <1>4 DEF SessionsInv, ClaimsAreProven, OldSessionsDie, OneHeirPerLogin, Live
<1>7. OneClaimPerLogin'
  BY <1>2, <1>4 DEF SessionsInv, OneClaimPerLogin
<1>8. AccountFirst'
  BY <1>2, <1>4 DEF SessionsInv, SessionsTypeOK, AccountFirst
<1> QED
  BY <1>1, <1>5, <1>6, <1>7, <1>8 DEF SessionsInv

(* A login or registration claims a chain of its own.                       *)
LEMMA PasswordProved ==
  ASSUME SessionsInv, NEW c \in Calls, NEW p \in Nat,
         account' \in [exists : BOOLEAN, active : BOOLEAN, password : Nat, unpurged : BOOLEAN],
         account.password' = p, account.exists', account.unpurged' = account.unpurged,
         account' = account \/ ~account.exists,
         call' = [call EXCEPT ![c] = [NoCall EXCEPT !.pc = "issue", !.proof = p]],
         UNCHANGED <<session, raced, alarm, faults>>
  PROVE  SessionsInv'
<1> DEFINE n == [NoCall EXCEPT !.pc = "issue", !.proof = p]
<1>1. n \in CallType /\ n.pc = "issue" /\ n.proof = p /\ n.root = NoToken
  BY DEF NoCall, CallType, Pending
<1>2. SessionsTypeOK'
  BY <1>1, SMT DEF SessionsInv, SessionsTypeOK
<1>3. call'[c] = n /\ \A d \in Calls : d # c => call'[d] = call[d]
  BY DEF SessionsInv, SessionsTypeOK
<1>4. \A t \in Tokens : Live(t)' <=> Live(t)
  BY DEF Live
<1>5. \A d \in Calls : d # c => (Claims(d)' <=> Claims(d))
  BY <1>3 DEF Claims
<1>6. AccountFirst'
  BY DEF AccountFirst
<1>7. RootsAreIssued'
  <2>1. \A d \in Calls : Claims(d)' /\ call[d].root' # NoToken => d # c
    BY <1>1, <1>3
  <2> QED
    BY <2>1, <1>1, <1>3, <1>4, <1>5 DEF SessionsInv, RootsAreIssued
<1>8. ClaimsAreProven' /\ OldSessionsDie'
  <2>1. CASE account' = account
    BY <2>1, <1>1, <1>3, <1>4, <1>5
    DEF SessionsInv, ClaimsAreProven, OldSessionsDie, Live
  <2>2. CASE ~account.exists
    BY <2>2, <1>1, <1>3, <1>4, <1>5
    DEF SessionsInv, AccountFirst, ClaimsAreProven, OldSessionsDie, Live
  <2> QED
    BY <2>1, <2>2
<1>9. OneClaimPerLogin' /\ OneHeirPerLogin'
  <2>1. OneHeirPerLogin'
    BY DEF SessionsInv, OneHeirPerLogin
  <2>2. \A d \in Calls : Claims(d)' /\ call[d].root' # NoToken => d # c
    BY <1>1, <1>3
  <2>3. OneClaimPerLogin'
    BY <2>2, <1>3, <1>4, <1>5 DEF SessionsInv, OneClaimPerLogin
  <2> QED
    BY <2>1, <2>3
<1> QED
  BY <1>2, <1>6, <1>7, <1>8, <1>9 DEF SessionsInv

(* A refresh that passes its check claims the chain of the row it presents: *)
(* nobody else does, or the race is recorded.                               *)
LEMMA RefreshClaims ==
  ASSUME SessionsInv, NEW c \in Calls, NEW t \in Tokens, Live(t), ~Claims(c),
         account.active, call[c].token = t,
         call' = [call EXCEPT ![c].pc = "rotate", ![c].proof = session[t].proof,
                              ![c].late = session[t].late, ![c].root = session[t].root],
         raced' = (raced \/ SharesToken(c)),
         UNCHANGED <<account, session, alarm, faults>>
  PROVE  SessionsInv'
<1>1. session[t] \in SessionType /\ session[t].root \in Tokens
  BY DEF SessionsInv, SessionsTypeOK, RootsAreIssued
<1>2. /\ call[c]'.pc = "rotate" /\ call[c]'.token = t
      /\ call[c]'.proof = session[t].proof /\ call[c]'.late = session[t].late
      /\ call[c]'.root = session[t].root
  BY DEF SessionsInv, SessionsTypeOK, CallType
<1>3. \A d \in Calls : d # c => call[d]' = call[d]
  BY DEF SessionsInv, SessionsTypeOK
<1>4. SessionsTypeOK'
  <2> DEFINE n == [call[c] EXCEPT !.pc = "rotate", !.proof = session[t].proof,
                                  !.late = session[t].late, !.root = session[t].root]
  <2>1. call' \in [Calls -> CallType]
    <3>1. call[c] \in CallType
      BY DEF SessionsInv, SessionsTypeOK
    <3>2. session[t].proof \in Nat /\ session[t].late \in BOOLEAN
      BY <1>1 DEF SessionType
    <3>3. n \in CallType
      BY <1>1, <3>1, <3>2 DEF CallType, Pending
    <3>4. call' = [call EXCEPT ![c] = n]
      BY DEF SessionsInv, SessionsTypeOK
    <3> QED
      BY <3>3, <3>4 DEF SessionsInv, SessionsTypeOK
  <2> QED
    BY <2>1, SMT DEF SessionsInv, SessionsTypeOK, SharesToken
<1>5. \A u \in Tokens : Live(u)' <=> Live(u)
  BY DEF Live
<1>6. Claims(c)' /\ \A d \in Calls : d # c => (Claims(d)' <=> Claims(d))
  BY <1>2, <1>3 DEF Claims
<1>7. account.exists
  BY DEF SessionsInv, AccountFirst
<1>8. AccountFirst'
  BY <1>7 DEF AccountFirst
<1>9. RootsAreIssued'
  <2>1. session[session[t].root].state # "none" /\ session[t].state # "none"
    BY DEF SessionsInv, RootsAreIssued, Live
  <2>2. \A d \in Calls : Claims(d)' /\ call[d].root' # NoToken =>
          session[call[d].root'].state # "none"
    BY <2>1, <1>2, <1>3, <1>6 DEF SessionsInv, RootsAreIssued
  <2>3. \A d \in Calls : call[d].pc' = "rotate" =>
          /\ call[d].token' \in Tokens /\ call[d].root' # NoToken
          /\ session[call[d].token'].state # "none"
    <3> SUFFICES ASSUME NEW d \in Calls, call[d].pc' = "rotate"
                 PROVE  /\ call[d].token' \in Tokens /\ call[d].root' # NoToken
                        /\ session[call[d].token'].state # "none"
      OBVIOUS
    <3>1. CASE d = c
      BY <3>1, <2>1, <1>1, <1>2, NoTokenAssumption
    <3>2. CASE d # c
      BY <3>2, <1>3 DEF SessionsInv, RootsAreIssued
    <3> QED
      BY <3>1, <3>2
  <2> QED
    BY <2>2, <2>3, <1>5 DEF SessionsInv, RootsAreIssued
<1>10. ClaimsAreProven'
  BY <1>2, <1>3, <1>6 DEF SessionsInv, ClaimsAreProven, OldSessionsDie, Live
<1>11. OldSessionsDie' /\ OneHeirPerLogin'
  BY DEF SessionsInv, OldSessionsDie, OneHeirPerLogin, SharesToken
<1>12. OneClaimPerLogin'
  <2> SUFFICES ASSUME ~raced'
               PROVE  \A d \in Calls : Claims(d)' /\ call[d].root' # NoToken =>
                        /\ \A e \in Calls : Claims(e)' /\ call[e].root' = call[d].root' => e = d
                        /\ \A u \in Tokens : Live(u)' /\ session[u].root' = call[d].root' =>
                              call[d].pc' = "rotate" /\ u = call[d].token'
    BY DEF OneClaimPerLogin
  <2>1. ~raced /\ ~SharesToken(c)
    OBVIOUS
  <2>2. \A d \in Calls : d # c /\ Claims(d) => call[d].root # session[t].root
    <3> SUFFICES ASSUME NEW d \in Calls, d # c, Claims(d), call[d].root = session[t].root
                 PROVE  FALSE
      OBVIOUS
    <3>1. call[d].pc = "rotate" /\ call[d].token = t
      BY <1>1, <2>1, NoTokenAssumption DEF SessionsInv, OneClaimPerLogin
    <3> QED
      BY <3>1, <2>1 DEF SharesToken
  <2>3. \A u \in Tokens : Live(u) /\ session[u].root = session[t].root => u = t
    BY <2>1 DEF SessionsInv, OneHeirPerLogin, Live
  <2>4. ASSUME NEW d \in Calls, d # c, Claims(d)', call[d].root' # NoToken
        PROVE  /\ \A e \in Calls : Claims(e)' /\ call[e].root' = call[d].root' => e = d
               /\ \A u \in Tokens : Live(u)' /\ session[u].root' = call[d].root' =>
                     call[d].pc' = "rotate" /\ u = call[d].token'
    <3>1. Claims(d) /\ call[d]' = call[d] /\ call[d].root # NoToken
      BY <2>4, <1>3, <1>6
    <3>2. \A e \in Calls : Claims(e)' /\ call[e].root' = call[d].root' => e = d
      <4> SUFFICES ASSUME NEW e \in Calls, Claims(e)', call[e].root' = call[d].root'
                   PROVE  e = d
        OBVIOUS
      <4>1. CASE e = c
        BY <4>1, <2>2, <3>1, <1>2, <2>4
      <4>2. CASE e # c
        <5>1. Claims(e) /\ call[e].root = call[d].root
          BY <4>2, <3>1, <1>3, <1>6
        <5> QED
          BY <5>1, <3>1, <2>1 DEF SessionsInv, OneClaimPerLogin
      <4> QED
        BY <4>1, <4>2
    <3>3. \A u \in Tokens : Live(u)' /\ session[u].root' = call[d].root' =>
             call[d].pc' = "rotate" /\ u = call[d].token'
      BY <2>1, <3>1, <1>5 DEF SessionsInv, OneClaimPerLogin
    <3> QED
      BY <3>2, <3>3
  <2>5. /\ \A e \in Calls : Claims(e)' /\ call[e].root' = call[c].root' => e = c
        /\ \A u \in Tokens : Live(u)' /\ session[u].root' = call[c].root' =>
              call[c].pc' = "rotate" /\ u = call[c].token'
    BY <2>2, <2>3, <1>2, <1>3, <1>5, <1>6
  <2> QED
    BY <2>4, <2>5
<1> QED
  BY <1>4, <1>8, <1>9, <1>10, <1>11, <1>12 DEF SessionsInv

(* The new row takes the claim of the handler that makes it.                *)
LEMMA IssueHolds ==
  ASSUME SessionsInv, NEW c \in Calls, IssueTokens(c)
  PROVE  SessionsInv'
<1> PICK t \in Tokens :
      LET root == IF call[c].root = NoToken THEN t ELSE call[c].root
      IN  /\ session[t].state = "none"
          /\ session' = [session EXCEPT ![t] =
                 [state |-> "live", proof |-> call[c].proof, late |-> call[c].late,
                  root |-> root]]
          /\ Begin(c, "issued", t)
  BY DEF IssueTokens
<1> DEFINE root == IF call[c].root = NoToken THEN t ELSE call[c].root
           row == [state |-> "live", proof |-> call[c].proof, late |-> call[c].late,
                   root |-> root]
           n == [NoCall EXCEPT !.pc = "issued", !.token = t]
<1>1. call[c] \in CallType /\ Claims(c) /\ call[c].pc = "issue" /\ root \in Tokens
  BY DEF SessionsInv, SessionsTypeOK, CallType, IssueTokens, Claims
<1>2. row \in SessionType
  BY <1>1 DEF CallType, SessionType, States
<1>3. n \in CallType /\ n.pc = "issued"
  BY DEF NoCall, CallType, Answers
<1>4. SessionsTypeOK'
  BY <1>2, <1>3, SMT DEF SessionsInv, SessionsTypeOK, IssueTokens, Begin
<1>5. session'[t] = row /\ \A u \in Tokens : u # t => session'[u] = session[u]
  BY DEF SessionsInv, SessionsTypeOK
<1>6. \A d \in Calls : Claims(d)' => d # c /\ call'[d] = call[d] /\ Claims(d)
  BY <1>3 DEF SessionsInv, SessionsTypeOK, Claims, Begin
<1>7. Live(t)' /\ ~Live(t) /\ \A u \in Tokens : u # t => (Live(u)' <=> Live(u))
  BY <1>5 DEF Live
<1>8. AccountFirst'
  BY <1>1 DEF SessionsInv, AccountFirst, IssueTokens
<1>9. RootsAreIssued'
  <2>1. \A u \in Tokens : session[u].state # "none" => session'[u].state # "none"
    BY <1>5
  <2>2. session'[root].state # "none"
    BY <1>1, <1>5, <2>1 DEF SessionsInv, RootsAreIssued
  <2>3. \A u \in Tokens : Live(u)' =>
          session'[u].root \in Tokens /\ session'[session'[u].root].state # "none"
    BY <1>1, <1>5, <1>7, <2>1, <2>2 DEF SessionsInv, RootsAreIssued
  <2>4. \A d \in Calls : Claims(d)' /\ call'[d].root # NoToken =>
          session'[call'[d].root].state # "none"
    BY <1>6, <2>1 DEF SessionsInv, SessionsTypeOK, CallType, RootsAreIssued
  <2>5. \A d \in Calls : call'[d].pc = "rotate" =>
          /\ call'[d].token \in Tokens /\ call'[d].root # NoToken
          /\ session'[call'[d].token].state # "none"
    BY <1>6, <2>1 DEF SessionsInv, RootsAreIssued, Claims
  <2> QED
    BY <2>3, <2>4, <2>5 DEF RootsAreIssued
<1>10. ClaimsAreProven' /\ OldSessionsDie'
  BY <1>1, <1>5, <1>6, <1>7
  DEF SessionsInv, ClaimsAreProven, OldSessionsDie, IssueTokens, Live
<1>11. ASSUME ~raced
       PROVE  \A u \in Tokens : Live(u) => session[u].root # root
  <2>1. CASE call[c].root = NoToken
    BY <2>1 DEF SessionsInv, RootsAreIssued
  <2>2. CASE call[c].root # NoToken
    BY <2>2, <1>1, <1>11 DEF SessionsInv, OneClaimPerLogin
  <2> QED
    BY <2>1, <2>2
<1>12. ASSUME ~raced
       PROVE  \A d \in Calls : Claims(d)' => call[d].root # root
  <2>1. CASE call[c].root = NoToken
    BY <2>1, <1>6, NoTokenAssumption DEF SessionsInv, RootsAreIssued
  <2>2. CASE call[c].root # NoToken
    BY <2>2, <1>1, <1>6, <1>12 DEF SessionsInv, OneClaimPerLogin
  <2> QED
    BY <2>1, <2>2
<1>13. OneHeirPerLogin'
  BY <1>5, <1>7, <1>11 DEF SessionsInv, OneHeirPerLogin, IssueTokens, Live
<1>14. OneClaimPerLogin'
  BY <1>5, <1>6, <1>7, <1>12 DEF SessionsInv, OneClaimPerLogin, IssueTokens
<1> QED
  BY <1>4, <1>8, <1>9, <1>10, <1>13, <1>14 DEF SessionsInv

(* All live rows die; the handlers past their checks become late.           *)
LEMMA PurgeHolds ==
  ASSUME SessionsInv, NEW c \in Calls, NEW pc \in Answers, ~Claims(c),
         RevokeAllForUser(c, pc), UNCHANGED <<raced, alarm, faults>>,
         account' \in [exists : BOOLEAN, active : BOOLEAN, password : Nat, unpurged : BOOLEAN],
         account.exists' = account.exists
  PROVE  SessionsInv'
<1>1. \A t \in Tokens : session'[t] = IF Live(t) THEN Over("ended") ELSE session[t]
  BY DEF RevokeAllForUser, Live
<1>2. \A t \in Tokens : ~Live(t)' /\ (session[t].state # "none" => session'[t].state # "none")
  BY <1>1, DeadRow DEF Live, States
<1>3. \A d \in Calls : Claims(d)' => Claims(d) /\ d # c /\ call'[d] = [call[d] EXCEPT !.late = TRUE]
  BY DEF RevokeAllForUser, Claims, SessionsInv, SessionsTypeOK, CallType, Answers
<1>4. \A d \in Calls : Claims(d)' =>
        /\ call'[d].late /\ call'[d].root = call[d].root
        /\ call'[d].pc = call[d].pc /\ call'[d].token = call[d].token
  BY <1>3 DEF SessionsInv, SessionsTypeOK, CallType
<1>5. SessionsTypeOK'
  <2>1. session' \in [Tokens -> SessionType]
    BY DeadRow DEF States, RevokeAllForUser, SessionsInv, SessionsTypeOK
  <2>2. \A d \in Calls : [call[d] EXCEPT !.late = TRUE] \in CallType
                         /\ [call[d] EXCEPT !.pc = pc] \in CallType
    BY DEF SessionsInv, SessionsTypeOK, CallType, Answers
  <2>3. call' \in [Calls -> CallType]
    BY <2>2 DEF RevokeAllForUser, SessionsInv, SessionsTypeOK
  <2> QED
    BY <2>1, <2>3 DEF SessionsInv, SessionsTypeOK
<1>6. AccountFirst'
  <2>1. \A d \in Calls : call'[d].pc = "rewrite" => call[d].pc = "rewrite"
    BY DEF RevokeAllForUser, SessionsInv, SessionsTypeOK, CallType, Answers
  <2> QED
    BY <2>1, <1>2, <1>3 DEF SessionsInv, AccountFirst
<1>7. RootsAreIssued'
  <2>1. \A d \in Calls : call'[d].pc = "rotate" =>
          /\ Claims(d)' /\ call[d].pc = "rotate"
          /\ call'[d].token = call[d].token /\ call'[d].root = call[d].root
    BY <1>4 DEF Claims
  <2>2. \A d \in Calls : call'[d].pc = "rotate" =>
          /\ call'[d].token \in Tokens /\ call'[d].root # NoToken
          /\ session'[call'[d].token].state # "none"
    BY <2>1, <1>2 DEF SessionsInv, RootsAreIssued
  <2>3. \A d \in Calls : Claims(d)' /\ call'[d].root # NoToken =>
          /\ call'[d].root \in Tokens /\ session[call'[d].root].state # "none"
    <3>1. \A d \in Calls : call[d].root \in Tokens \cup {NoToken}
      BY DEF SessionsInv, SessionsTypeOK, CallType
    <3> QED
      BY <3>1, <1>3, <1>4 DEF SessionsInv, RootsAreIssued
  <2>4. \A d \in Calls : Claims(d)' /\ call'[d].root # NoToken =>
          session'[call'[d].root].state # "none"
    BY <2>3, <1>2
  <2> QED
    BY <2>2, <2>4, <1>2 DEF RootsAreIssued
<1>8. ClaimsAreProven' /\ OldSessionsDie' /\ OneHeirPerLogin'
  BY <1>2, <1>4 DEF ClaimsAreProven, OldSessionsDie, OneHeirPerLogin, Live
<1>9. OneClaimPerLogin'
  BY <1>2, <1>3, <1>4 DEF SessionsInv, OneClaimPerLogin
<1> QED
  BY <1>5, <1>6, <1>7, <1>8, <1>9 DEF SessionsInv

(* Rows die, handlers stay as they are or stop.                             *)
LEMMA RowsDie ==
  ASSUME SessionsInv,
         session' \in [Tokens -> SessionType], call' \in [Calls -> CallType],
         \A t \in Tokens : \/ session'[t] = session[t]
                           \/ session'[t].state # "none" /\ ~Live(t)',
         \A d \in Calls : call'[d] = call[d] \/ (~Claims(d)' /\ call'[d].pc # "rewrite"),
         account.exists' = account.exists, account.password' = account.password,
         account.unpurged' = account.unpurged,
         account' \in [exists : BOOLEAN, active : BOOLEAN, password : Nat, unpurged : BOOLEAN],
         UNCHANGED <<raced, alarm>>, faults' \in Nat
  PROVE  SessionsInv'
<1>1. SessionsTypeOK'
  BY DEF SessionsInv, SessionsTypeOK
<1>2. \A t \in Tokens : /\ Live(t)' => Live(t) /\ session'[t] = session[t]
                        /\ session[t].state # "none" => session'[t].state # "none"
  BY DEF Live
<1>3. \A d \in Calls : Claims(d)' => Claims(d) /\ call'[d] = call[d]
  BY DEF Claims
<1>4. \A d \in Calls : call'[d].pc = "rotate" => Claims(d)'
  BY DEF Claims
<1>5. AccountFirst'
  BY <1>2, <1>3 DEF SessionsInv, AccountFirst
<1>6. RootsAreIssued'
  BY <1>2, <1>3, <1>4 DEF SessionsInv, SessionsTypeOK, CallType, RootsAreIssued
<1>7. ClaimsAreProven' /\ OldSessionsDie'
  BY <1>2, <1>3 DEF SessionsInv, ClaimsAreProven, OldSessionsDie, Live
<1>8. OneHeirPerLogin'
  BY <1>2 DEF SessionsInv, OneHeirPerLogin, Live
<1>9. OneClaimPerLogin'
  BY <1>2, <1>3 DEF SessionsInv, OneClaimPerLogin
<1> QED
  BY <1>1, <1>5, <1>6, <1>7, <1>8, <1>9 DEF SessionsInv

(* The row a handler has claimed dies, and the handler goes on to issue.    *)
LEMMA RotateHolds ==
  ASSUME SessionsInv, NEW c \in Calls, Rotate(c)
  PROVE  SessionsInv'
<1> DEFINE t == call[c].token
           n == [call[c] EXCEPT !.pc = "issue", !.token = NoToken]
<1>1. t \in Tokens /\ call[c].root # NoToken /\ session[t].state # "none" /\ Claims(c)
  BY DEF SessionsInv, RootsAreIssued, Rotate, Claims
<1>2. session' = [session EXCEPT ![t] = Over("rotated")]
  BY DEF Rotate
<1>3. session'[t].state = "rotated" /\ \A u \in Tokens : u # t => session'[u] = session[u]
  BY <1>1, <1>2, DeadRow DEF States, SessionsInv, SessionsTypeOK
<1>4. \A u \in Tokens : /\ Live(u)' => Live(u) /\ u # t /\ session'[u] = session[u]
                        /\ session[u].state # "none" => session'[u].state # "none"
  BY <1>3 DEF Live
<1>5. n \in CallType /\ n.pc = "issue" /\ n.root = call[c].root
      /\ n.proof = call[c].proof /\ n.late = call[c].late
  BY DEF SessionsInv, SessionsTypeOK, CallType, Pending
<1>6. call' = [call EXCEPT ![c] = n]
  BY DEF Rotate, SessionsInv, SessionsTypeOK
<1>7. call'[c] = n /\ \A d \in Calls : d # c => call'[d] = call[d]
  BY <1>6 DEF SessionsInv, SessionsTypeOK
<1>8. \A d \in Calls : /\ Claims(d)' <=> Claims(d)
                       /\ call'[d].root = call[d].root
                      /\ call'[d].proof = call[d].proof /\ call'[d].late = call[d].late
  BY <1>1, <1>5, <1>7 DEF Claims
<1>9. UNCHANGED <<account, raced, alarm, faults>>
  BY DEF Rotate
<1> HIDE DEF t, n
<1>10. SessionsTypeOK'
  <2>1. Over("rotated") \in SessionType
    BY DeadRow DEF States
  <2> QED
    BY <2>1, <1>2, <1>5, <1>6, <1>9 DEF SessionsInv, SessionsTypeOK
<1>11. AccountFirst'
  <2>1. \A d \in Calls : call'[d].pc = "rewrite" => call[d].pc = "rewrite"
    BY <1>5, <1>7
  <2> QED
    BY <2>1, <1>4, <1>8, <1>9 DEF SessionsInv, AccountFirst
<1>12. RootsAreIssued'
  <2>1. \A d \in Calls : call'[d].pc = "rotate" => d # c /\ call'[d] = call[d]
    BY <1>5, <1>7
  <2>2. \A d \in Calls : call'[d].pc = "rotate" =>
          /\ call'[d].token \in Tokens /\ call'[d].root # NoToken
          /\ session'[call'[d].token].state # "none"
    BY <2>1, <1>4 DEF SessionsInv, RootsAreIssued
  <2>3. \A d \in Calls : Claims(d)' /\ call'[d].root # NoToken =>
          /\ call'[d].root \in Tokens /\ session[call'[d].root].state # "none"
    <3>1. \A d \in Calls : call[d].root \in Tokens \cup {NoToken}
      BY DEF SessionsInv, SessionsTypeOK, CallType
    <3> QED
      BY <3>1, <1>8 DEF SessionsInv, RootsAreIssued
  <2>4. \A u \in Tokens : Live(u)' =>
          session'[u].root \in Tokens /\ session'[session'[u].root].state # "none"
    BY <1>4 DEF SessionsInv, RootsAreIssued
  <2> QED
    BY <2>2, <2>3, <2>4, <1>4 DEF RootsAreIssued
<1>13. ClaimsAreProven' /\ OldSessionsDie'
  BY <1>4, <1>8, <1>9 DEF SessionsInv, ClaimsAreProven, OldSessionsDie, Live
<1>14. OneHeirPerLogin'
  <2>1. \A u, v \in Tokens : Live(u) /\ Live(v) /\ session[u].root = session[v].root => u = v \/ raced
    BY DEF SessionsInv, OneHeirPerLogin, Live
  <2>2. \A u, v \in Tokens :
          Live(u)' /\ Live(v)' /\ session'[u].root = session'[v].root => u = v \/ raced
    BY <2>1, <1>4
  <2> QED
    BY <2>2, <1>9 DEF OneHeirPerLogin, Live
<1>15. OneClaimPerLogin'
  <2> SUFFICES ASSUME ~raced, NEW d \in Calls, Claims(d)', call'[d].root # NoToken
               PROVE  /\ \A e \in Calls : Claims(e)' /\ call'[e].root = call'[d].root => e = d
                      /\ \A u \in Tokens : Live(u)' /\ session'[u].root = call'[d].root =>
                            call'[d].pc = "rotate" /\ u = call'[d].token
    BY <1>9 DEF OneClaimPerLogin
  <2>1. Claims(d) /\ call[d].root # NoToken /\ call'[d].root = call[d].root
    BY <1>8
  <2>2. \A e \in Calls : Claims(e)' /\ call'[e].root = call'[d].root => e = d
    BY <2>1, <1>8 DEF SessionsInv, OneClaimPerLogin
  <2>3. \A u \in Tokens : Live(u)' /\ session'[u].root = call'[d].root =>
           call[d].pc = "rotate" /\ u = call[d].token /\ u # t
    <3>1. \A u \in Tokens : Live(u) /\ session[u].root = call[d].root =>
             call[d].pc = "rotate" /\ u = call[d].token
      BY <2>1 DEF SessionsInv, OneClaimPerLogin
    <3> QED
      BY <3>1, <2>1, <1>4
  <2>4. CASE d = c
    BY <2>2, <2>3, <2>4 DEF t
  <2>5. CASE d # c
    BY <2>2, <2>3, <2>5, <1>7
  <2> QED
    BY <2>4, <2>5
<1> QED
  BY <1>10, <1>11, <1>12, <1>13, <1>14, <1>15 DEF SessionsInv

-----------------------------------------------------------------------------
(* Every step of the handlers and of the clients.                           *)
LEMMA StopsAt ==
  ASSUME SessionsInv, NEW c \in Calls,
         NEW pc \in {"idle", "register", "create", "login", "refresh", "reuse", "rewrite",
                     "change", "purge"} \cup Answers,
         pc = "rewrite" => account.exists, NEW t \in Tokens \cup {NoToken},
         Goto(c, pc) \/ Begin(c, pc, t),
         UNCHANGED <<account, session, raced>>, alarm' \in BOOLEAN, faults' \in Nat
  PROVE  SessionsInv'
<1>1. call \in [Calls -> CallType] /\ pc \in {"idle"} \cup Pending \cup Answers
      /\ pc \notin {"rotate", "issue"}
  BY DEF SessionsInv, SessionsTypeOK, Pending, Answers
<1>2. CASE Goto(c, pc)
  <2> DEFINE n == [call[c] EXCEPT !.pc = pc]
  <2>1. n \in CallType /\ n.pc = pc
    BY <1>1 DEF CallType
  <2>2. call' = [call EXCEPT ![c] = n]
    BY <1>1, <1>2 DEF Goto
  <2> HIDE DEF n
  <2> QED
    BY <2>1, <2>2, <1>1, HandlerStops
<1>3. CASE Begin(c, pc, t)
  <2> DEFINE n == [NoCall EXCEPT !.pc = pc, !.token = t]
  <2>1. n \in CallType /\ n.pc = pc
    BY <1>1, BlankCall DEF CallType
  <2>2. call' = [call EXCEPT ![c] = n]
    BY <1>3 DEF Begin
  <2> HIDE DEF n
  <2> QED
    BY <2>1, <2>2, <1>1, HandlerStops
<1> QED
  BY <1>2, <1>3

(* The password has changed and the sessions have not yet been ended.       *)
LEMMA RewriteHolds ==
  ASSUME SessionsInv, NEW c \in Calls, call[c].pc = "rewrite", Goto(c, "purge"),
         account' \in [exists : BOOLEAN, active : BOOLEAN, password : Nat, unpurged : BOOLEAN],
         account.exists', account.unpurged',
         UNCHANGED <<session, raced, alarm, faults>>
  PROVE  SessionsInv'
<1> DEFINE n == [call[c] EXCEPT !.pc = "purge"]
<1>1. n \in CallType /\ n.pc = "purge"
  BY DEF SessionsInv, SessionsTypeOK, CallType, Pending
<1>2. call' = [call EXCEPT ![c] = n]
  BY DEF Goto, SessionsInv, SessionsTypeOK
<1> HIDE DEF n
<1>3. \A d \in Calls : Claims(d)' => call'[d] = call[d] /\ Claims(d)
  BY <1>1, <1>2 DEF SessionsInv, SessionsTypeOK, Claims
<1>4. SessionsTypeOK'
  BY <1>1, <1>2 DEF SessionsInv, SessionsTypeOK
<1>5. AccountFirst' /\ ClaimsAreProven' /\ OldSessionsDie'
  BY DEF AccountFirst, ClaimsAreProven, OldSessionsDie
<1>6. RootsAreIssued'
  BY <1>3, <1>1, <1>2 DEF SessionsInv, RootsAreIssued, Claims, Live
<1>7. OneClaimPerLogin' /\ OneHeirPerLogin'
  BY <1>3 DEF SessionsInv, OneClaimPerLogin, OneHeirPerLogin, Live
<1> QED
  BY <1>4, <1>5, <1>6, <1>7 DEF SessionsInv

LEMMA StepHolds == SessionsInv /\ [SessionsNext]_server => SessionsInv'
<1> SUFFICES ASSUME SessionsInv, [SessionsNext]_server PROVE SessionsInv'
  OBVIOUS
<1>1. SessionsTypeOK
  BY DEF SessionsInv
<1>2. alarm \in BOOLEAN /\ faults \in Nat
  BY <1>1 DEF SessionsTypeOK
<1>3. ASSUME NEW c \in Calls, RegisterRead(c) PROVE SessionsInv'
  <2>1. \E pc \in {"failed", "create"} : Goto(c, pc)
    BY <1>3 DEF RegisterRead
  <2> QED
    BY <2>1, <1>2, <1>3, StopsAt DEF RegisterRead, Answers
<1>4. ASSUME NEW c \in Calls, CreateUser(c) PROVE SessionsInv'
  <2>1. CASE account.exists
    BY <2>1, <1>2, <1>4, StopsAt DEF CreateUser, Answers
  <2>2. CASE ~account.exists
    <3>1. /\ account' \in [exists : BOOLEAN, active : BOOLEAN, password : Nat, unpurged : BOOLEAN]
          /\ account.password' = 1 /\ account.exists' /\ account.unpurged' = account.unpurged
      <4>1. account' = [account EXCEPT !.exists = TRUE, !.password = 1]
        BY <2>2, <1>4 DEF CreateUser
      <4> QED
        BY <4>1, <1>1 DEF SessionsTypeOK
    <3> QED
      BY <3>1, <2>2, <1>4, PasswordProved DEF CreateUser
  <2> QED
    BY <2>1, <2>2
<1>5. ASSUME NEW c \in Calls, LoginRead(c) PROVE SessionsInv'
  <2>1. CASE Goto(c, "refused")
    BY <2>1, <1>2, <1>5, StopsAt DEF LoginRead, Answers
  <2>2. CASE ~Goto(c, "refused")
    <3>1. account.password \in Nat
      BY <1>1 DEF SessionsTypeOK
    <3> QED
      BY <3>1, <2>2, <1>1, <1>5, PasswordProved DEF LoginRead, SessionsTypeOK
  <2> QED
    BY <2>1, <2>2
<1>6. ASSUME NEW c \in Calls, RefreshRead(c) PROVE SessionsInv'
  <2> DEFINE s == session[call[c].token]
  <2>1. CASE Goto(c, "refused") /\ UNCHANGED <<raced, alarm>>
    BY <2>1, <1>2, <1>6, StopsAt DEF RefreshRead, Answers
  <2>2. CASE Begin(c, "reuse", NoToken) /\ alarm' = (alarm \/ s.state = "rotated") /\ UNCHANGED raced
    BY <2>2, <1>2, <1>6, StopsAt DEF RefreshRead
  <2>3. CASE /\ s.state = "live" /\ account.active
             /\ call' = [call EXCEPT ![c].pc = "rotate", ![c].proof = s.proof,
                                     ![c].late = s.late, ![c].root = s.root]
             /\ raced' = (raced \/ SharesToken(c))
             /\ UNCHANGED alarm
    <3>1. call[c].token \in Tokens /\ Live(call[c].token) /\ ~Claims(c)
      BY <2>3, <1>6 DEF RefreshRead, Live, Claims
    <3> QED
      BY <3>1, <2>3, <1>6, RefreshClaims DEF RefreshRead
  <2> QED
    BY <2>1, <2>2, <2>3, <1>6 DEF RefreshRead
<1>7. ASSUME NEW c \in Calls, RevokeReused(c) PROVE SessionsInv'
  BY <1>7, <1>1, PurgeHolds DEF RevokeReused, Claims, Answers, SessionsTypeOK
<1>8. ASSUME NEW c \in Calls, ChangeRead(c) PROVE SessionsInv'
  <2>1. \E pc \in {"rewrite", "refused", "failed"} :
          Goto(c, pc) /\ (pc = "rewrite" => account.exists)
    BY <1>8 DEF ChangeRead
  <2> QED
    BY <2>1, <1>2, <1>8, StopsAt DEF ChangeRead, Answers
<1>9. ASSUME NEW c \in Calls, RewritePassword(c) PROVE SessionsInv'
  <2>1. account.exists /\ ~Claims(c)
    BY <1>9 DEF RewritePassword, Claims, SessionsInv, AccountFirst
  <2>2. account' = [account EXCEPT !.password = @ + 1, !.unpurged = TRUE]
    BY <1>9 DEF RewritePassword
  <2>3. /\ account' \in [exists : BOOLEAN, active : BOOLEAN, password : Nat, unpurged : BOOLEAN]
        /\ account.exists' /\ account.unpurged'
    <3>1. account' \in [exists : BOOLEAN, active : BOOLEAN, password : Nat, unpurged : BOOLEAN]
      <4>1. account.password + 1 \in Nat
        BY <1>1 DEF SessionsTypeOK
      <4>2. account' = [account EXCEPT !.password = account.password + 1, !.unpurged = TRUE]
        BY <2>2
      <4> QED
        BY <4>1, <4>2, <1>1 DEF SessionsTypeOK
    <3>2. account.exists' = account.exists /\ account.unpurged' = TRUE
      BY <2>2, <1>1 DEF SessionsTypeOK
    <3> QED
      BY <2>1, <3>1, <3>2
  <2> QED
    BY <2>1, <2>3, <1>9, RewriteHolds DEF RewritePassword
<1>10. ASSUME NEW c \in Calls, PurgeSessions(c) PROVE SessionsInv'
  <2>1. /\ account' \in [exists : BOOLEAN, active : BOOLEAN, password : Nat, unpurged : BOOLEAN]
        /\ account.exists' = account.exists
    BY <1>10, <1>1 DEF PurgeSessions, SessionsTypeOK
  <2> QED
    BY <2>1, <1>10, PurgeHolds DEF PurgeSessions, Claims, Answers
<1>11. ASSUME NEW t \in Tokens, EndSession(t) PROVE SessionsInv'
  <2>1. Over("ended") \in SessionType /\ Over("ended").state = "ended"
    BY DeadRow DEF States
  <2>2. /\ session' \in [Tokens -> SessionType]
        /\ \A u \in Tokens : \/ session'[u] = session[u]
                             \/ session'[u].state # "none" /\ ~Live(u)'
    BY <2>1, <1>11, <1>1 DEF EndSession, SessionsTypeOK, Live
  <2> QED
    BY <2>2, <1>11, <1>1, RowsDie DEF EndSession, SessionsTypeOK
<1>12. CASE Suspend
  <2>1. /\ account' \in [exists : BOOLEAN, active : BOOLEAN, password : Nat, unpurged : BOOLEAN]
        /\ account.exists' = account.exists /\ account.password' = account.password
        /\ account.unpurged' = account.unpurged
    BY <1>12, <1>1 DEF Suspend, SessionsTypeOK
  <2>2. faults' \in Nat /\ UNCHANGED <<session, call, raced, alarm>>
    BY <1>12, <1>2 DEF Suspend
  <2> QED
    BY <2>1, <2>2, <1>1, RowsDie DEF SessionsTypeOK
<1>13. CASE Crash
  <2>1. [NoCall EXCEPT !.pc = "failed"] \in CallType
    BY BlankCall DEF CallType, Answers
  <2>2. /\ call' \in [Calls -> CallType]
        /\ \A d \in Calls : call'[d] = call[d] \/ (~Claims(d)' /\ call'[d].pc # "rewrite")
    BY <2>1, <1>13, <1>1, BlankCall DEF Crash, SessionsTypeOK, Claims
  <2>3. faults' \in Nat /\ UNCHANGED <<account, session, raced, alarm>>
    BY <1>13, <1>2 DEF Crash
  <2> QED
    BY <2>2, <2>3, <1>1, RowsDie DEF SessionsTypeOK
<1>14. CASE ClientStep
  <2>1. PICK c \in Calls, pc \in {"idle", "register", "login", "change", "refresh"},
             t \in Tokens \cup {NoToken} : Begin(c, pc, t)
    BY <1>14 DEF ClientStep
  <2> QED
    BY <2>1, <1>2, <1>14, StopsAt DEF ClientStep
<1>15. CASE UNCHANGED server
  <2>1. UNCHANGED <<account, session, call, raced, alarm, faults>>
    BY <1>15 DEF server
  <2> QED
    BY <2>1, <1>1, RowsDie DEF SessionsTypeOK
<1> QED
  BY <1>3, <1>4, <1>5, <1>6, <1>7, <1>8, <1>9, <1>10, <1>11, <1>12, <1>13, <1>14, <1>15,
     RotateHolds, IssueHolds DEF SessionsNext, ServerStep

-----------------------------------------------------------------------------
(* A request that is to be refreshed has no handler, and a browser.         *)
Asking ==
    \A q \in Calls :
        /\ request[q].pc # "idle" => request[q].device \in Devices
        /\ request[q].pc = "unauthorised" => call[q].pc = "idle"

BrowserInv == SessionsInv /\ BrowserTypeOK /\ Asking

(* The browsers' half of a step of one request.                             *)
LEMMA RequestMoves ==
  ASSUME BrowserInv, SessionsTypeOK', NEW q \in Calls, NEW r \in RequestType,
         request' = [request EXCEPT ![q] = r],
         r.pc # "idle" => r.device \in Devices,
         r.pc = "unauthorised" => call'[q].pc = "idle",
         \A d \in Calls : d # q => call'[d] = call[d],
         cookie' \in [Devices -> CookieType], mishap' \in BOOLEAN
  PROVE  BrowserTypeOK' /\ Asking'
<1>1. request \in [Calls -> RequestType]
  BY DEF BrowserInv, BrowserTypeOK
<1>2. request' \in [Calls -> RequestType]
  BY <1>1
<1>3. Asking'
  BY <1>1 DEF BrowserInv, Asking
<1> QED
  BY <1>2, <1>3 DEF BrowserTypeOK

(* The server's half: a client may begin and end handlers.                  *)
LEMMA ClientMoves ==
  ASSUME BrowserInv, NEW c \in Calls, call[c].pc \in {"idle"} \cup Answers,
         NEW pc \in {"idle", "register", "login", "change"},
         Begin(c, pc, NoToken), ClientOnly
  PROVE  ClientStep /\ SessionsInv' /\ SessionsTypeOK'
         /\ call'[c].pc = pc /\ \A d \in Calls : d # c => call'[d] = call[d]
<1>1. ClientStep
  BY DEF ClientStep, ClientOnly
<1>2. SessionsInv'
  BY <1>1, StepHolds DEF BrowserInv, SessionsNext
<1>3. call'[c].pc = pc /\ \A d \in Calls : d # c => call'[d] = call[d]
  BY BlankCall DEF Begin, BrowserInv, SessionsInv, SessionsTypeOK, CallType
<1> QED
  BY <1>1, <1>2, <1>3 DEF SessionsInv

(* An authorised request, and one that is refused, whatever sent it.        *)
LEMMA ServeHolds ==
  ASSUME BrowserInv, NEW q \in Calls, NEW r \in RequestType, r.device \in Devices,
         call[q].pc \in {"idle"} \cup Answers, Serve(q, r) \/ Refused(q, r),
         cookie' \in [Devices -> CookieType], UNCHANGED mishap, ClientOnly
  PROVE  ClientStep /\ SessionsInv' /\ BrowserTypeOK' /\ Asking'
<1>1. \A pc \in {"waiting", "unauthorised"} :
        /\ [r EXCEPT !.pc = pc] \in RequestType /\ [r EXCEPT !.pc = pc].pc = pc
        /\ [r EXCEPT !.pc = pc].device \in Devices
  BY DEF RequestType
<1>2. NoRequest \in RequestType /\ NoRequest.pc = "idle"
  BY DEF NoRequest, RequestType
<1>3. mishap' \in BOOLEAN
  BY DEF BrowserInv, BrowserTypeOK
<1>4. CASE EndRequest(q) /\ EndCall(q)
  <2>1. ClientStep /\ SessionsInv' /\ SessionsTypeOK'
        /\ \A d \in Calls : d # q => call'[d] = call[d]
    BY <1>4, ClientMoves DEF EndCall
  <2> QED
    BY <2>1, <1>2, <1>3, <1>4, RequestMoves DEF EndRequest
<1>5. CASE request' = [request EXCEPT ![q] = [r EXCEPT !.pc = "waiting"]] /\ Begin(q, "change", NoToken)
  <2>1. ClientStep /\ SessionsInv' /\ SessionsTypeOK'
        /\ \A d \in Calls : d # q => call'[d] = call[d]
    BY <1>5, ClientMoves
  <2> QED
    BY <2>1, <1>1, <1>3, <1>5, RequestMoves
<1>6. CASE request' = [request EXCEPT ![q] = [r EXCEPT !.pc = "unauthorised"]] /\ EndCall(q)
  <2>1. ClientStep /\ SessionsInv' /\ SessionsTypeOK' /\ call'[q].pc = "idle"
        /\ \A d \in Calls : d # q => call'[d] = call[d]
    BY <1>6, ClientMoves DEF EndCall
  <2> QED
    BY <2>1, <1>1, <1>3, <1>6, RequestMoves
<1> QED
  BY <1>4, <1>5, <1>6 DEF Serve, Refused

(* A step of the browsers that no handler takes part in.                    *)
LEMMA NoHandlerMoves ==
  ASSUME BrowserInv, UNCHANGED server PROVE SessionsInv' /\ SessionsTypeOK'
  BY StepHolds DEF BrowserInv, SessionsInv

(* Only a client begins a handler.                                          *)
LEMMA IdleStaysIdle ==
  ASSUME SessionsTypeOK, ServerStep \/ UNCHANGED call
  PROVE  \A q \in Calls : call[q].pc = "idle" => call'[q].pc = "idle"
<1> SUFFICES ASSUME NEW q \in Calls, call[q].pc = "idle", ServerStep PROVE call'[q].pc = "idle"
  OBVIOUS
<1>1. call \in [Calls -> CallType]
  BY DEF SessionsTypeOK
<1>2. ASSUME NEW c \in Calls,
             \/ RegisterRead(c) \/ CreateUser(c) \/ LoginRead(c) \/ IssueTokens(c)
             \/ RefreshRead(c) \/ Rotate(c) \/ ChangeRead(c) \/ RewritePassword(c)
      PROVE  call'[q] = call[q]
  <2>1. c # q
    BY <1>2 DEF RegisterRead, CreateUser, LoginRead, IssueTokens, RefreshRead, Rotate,
                ChangeRead, RewritePassword
  <2>2. CASE RegisterRead(c) \/ CreateUser(c) \/ LoginRead(c)
    BY <2>1, <2>2, <1>1 DEF RegisterRead, CreateUser, LoginRead, Goto
  <2>3. CASE IssueTokens(c) \/ RefreshRead(c) \/ Rotate(c)
    BY <2>1, <2>3, <1>1 DEF IssueTokens, RefreshRead, Rotate, Begin, Goto
  <2>4. CASE ChangeRead(c) \/ RewritePassword(c)
    BY <2>1, <2>4, <1>1 DEF ChangeRead, RewritePassword, Goto
  <2> QED
    BY <2>2, <2>3, <2>4, <1>2
<1>3. ASSUME NEW c \in Calls, RevokeReused(c) \/ PurgeSessions(c)
      PROVE  call'[q] = call[q]
  BY <1>3, <1>1 DEF RevokeReused, PurgeSessions, RevokeAllForUser
<1>4. CASE Crash
  BY <1>4, <1>1 DEF Crash, Pending
<1>5. ASSUME (\E t \in Tokens : EndSession(t)) \/ Suspend
      PROVE  call'[q] = call[q]
  BY <1>5 DEF EndSession, Suspend
<1> QED
  BY <1>2, <1>3, <1>4, <1>5 DEF ServerStep

LEMMA BrowserHolds == BrowserInv /\ [Next]_vars => [SessionsNext]_server /\ BrowserInv'
<1> SUFFICES ASSUME BrowserInv, [Next]_vars PROVE [SessionsNext]_server /\ BrowserInv'
  OBVIOUS
<1> USE DEF BrowserInv
<1>1. /\ call \in [Calls -> CallType] /\ cookie \in [Devices -> CookieType]
      /\ request \in [Calls -> RequestType] /\ mishap \in BOOLEAN
  BY DEF SessionsInv, SessionsTypeOK, BrowserTypeOK
<1>2. NoRequest \in RequestType /\ NoRequest.pc = "idle" /\ NoCookies \in CookieType
  BY DEF NoRequest, RequestType, NoCookies, CookieType
<1>3. \A q \in Calls : call[q].token \in Tokens \cup {NoToken} /\ request[q] \in RequestType
  BY <1>1 DEF CallType
<1>4. \A q \in Calls : [access |-> "fresh", refresh |-> call[q].token] \in CookieType
  BY <1>3 DEF CookieType
<1>5. ASSUME NEW q \in Calls, NEW d \in Devices, NEW path \in {"login", "register"}, SignIn(q, d, path)
      PROVE  ClientStep /\ BrowserInv'
  <2> DEFINE r == [NoRequest EXCEPT !.pc = "waiting", !.device = d]
  <2>1. r \in RequestType /\ r.pc = "waiting" /\ r.device = d
    BY <1>2 DEF NoRequest, RequestType
  <2>2. request' = [request EXCEPT ![q] = r]
    BY <1>5 DEF SignIn
  <2>3. ClientStep /\ SessionsInv' /\ SessionsTypeOK'
        /\ \A e \in Calls : e # q => call'[e] = call[e]
    BY <1>5, ClientMoves DEF SignIn, Free
  <2> HIDE DEF r
  <2>4. BrowserTypeOK' /\ Asking'
    BY <2>1, <2>2, <2>3, <1>1, <1>5, RequestMoves DEF SignIn
  <2> QED
    BY <2>3, <2>4
<1>6. ASSUME NEW q \in Calls, SignedIn(q)
      PROVE  ClientStep /\ BrowserInv'
  <2>1. ClientStep /\ SessionsInv' /\ SessionsTypeOK'
        /\ \A e \in Calls : e # q => call'[e] = call[e]
    BY <1>6, ClientMoves DEF SignedIn, EndCall, Answers
  <2>2. cookie' \in [Devices -> CookieType]
    BY <1>1, <1>4, <1>6 DEF SignedIn
  <2>3. BrowserTypeOK' /\ Asking'
    BY <2>1, <2>2, <1>1, <1>2, <1>6, RequestMoves DEF SignedIn, EndRequest
  <2> QED
    BY <2>1, <2>3
<1>7. ASSUME NEW q \in Calls, NEW d \in Devices, NEW kind \in {"read", "change"}, Send(q, d, kind)
      PROVE  ClientStep /\ BrowserInv'
  <2> DEFINE r == [NoRequest EXCEPT !.device = d, !.kind = kind]
  <2>1. r \in RequestType /\ r.device \in Devices
    BY <1>2 DEF NoRequest, RequestType
  <2>2. Serve(q, r) \/ Refused(q, r)
    BY <1>7 DEF Send
  <2>3. call[q].pc \in {"idle"} \cup Answers /\ ClientOnly /\ UNCHANGED <<cookie, mishap>>
    BY <1>7 DEF Send, Free
  <2> HIDE DEF r
  <2> QED
    BY <2>1, <2>2, <2>3, <1>1, ServeHolds
<1>8. ASSUME NEW q \in Calls, Answered(q)
      PROVE  ClientStep /\ BrowserInv'
  <2>1. call[q].pc \in {"idle"} \cup Answers /\ ClientOnly /\ UNCHANGED <<cookie, mishap>>
    BY <1>8 DEF Answered, Answers
  <2>2. CASE EndRequest(q) /\ EndCall(q)
    <3>1. ClientStep /\ SessionsInv' /\ SessionsTypeOK'
          /\ \A e \in Calls : e # q => call'[e] = call[e]
      BY <2>1, <2>2, ClientMoves DEF EndCall
    <3>2. BrowserTypeOK' /\ Asking'
      BY <3>1, <2>1, <2>2, <1>1, <1>2, RequestMoves DEF EndRequest
    <3> QED
      BY <3>1, <3>2
  <2>3. CASE request' = [request EXCEPT ![q] = [request[q] EXCEPT !.pc = "unauthorised"]] /\ EndCall(q)
    <3> DEFINE r == [request[q] EXCEPT !.pc = "unauthorised"]
    <3>1. ClientStep /\ SessionsInv' /\ SessionsTypeOK' /\ call'[q].pc = "idle"
          /\ \A e \in Calls : e # q => call'[e] = call[e]
      BY <2>1, <2>3, ClientMoves DEF EndCall
    <3>2. r \in RequestType /\ r.device \in Devices
      BY <1>3, <1>8 DEF RequestType, Answered, Asking
    <3>3. BrowserTypeOK' /\ Asking'
      BY <3>1, <3>2, <2>1, <2>3, <1>1, RequestMoves
    <3> QED
      BY <3>1, <3>3
  <2> QED
    BY <2>2, <2>3, <1>8 DEF Answered, Refused
<1>9. ASSUME NEW q \in Calls, TryRefresh(q)
      PROVE  ClientStep /\ BrowserInv'
  <2> DEFINE r == [request[q] EXCEPT !.pc = "refreshing"]
  <2>1. call[q].pc = "idle" /\ request[q].device \in Devices
    BY <1>9 DEF TryRefresh, Asking
  <2>2. CookiesOf(q).refresh \in Tokens
    BY <1>1, <1>9, <2>1 DEF TryRefresh, CookiesOf, CookieType
  <2>3. ClientStep
    BY <1>9, <2>1, <2>2 DEF TryRefresh, ClientStep, ClientOnly
  <2>4. SessionsInv' /\ SessionsTypeOK'
    BY <2>3, StepHolds DEF SessionsNext, SessionsInv
  <2>5. \A e \in Calls : e # q => call'[e] = call[e]
    BY <1>1, <1>9 DEF TryRefresh, Begin
  <2>6. r \in RequestType /\ r.pc = "refreshing" /\ r.device \in Devices
    BY <1>3, <2>1 DEF RequestType
  <2>7. request' = [request EXCEPT ![q] = r] /\ mishap' \in BOOLEAN
        /\ cookie' \in [Devices -> CookieType]
    BY <1>1, <1>9 DEF TryRefresh
  <2> HIDE DEF r
  <2>8. BrowserTypeOK' /\ Asking'
    BY <2>4, <2>5, <2>6, <2>7, RequestMoves
  <2> QED
    BY <2>3, <2>4, <2>8
<1>10. ASSUME NEW q \in Calls, NothingToRefresh(q)
       PROVE  UNCHANGED server /\ BrowserInv'
  <2>1. UNCHANGED server
    BY <1>10 DEF NothingToRefresh, server, ClientOnly
  <2>2. SessionsInv' /\ SessionsTypeOK' /\ UNCHANGED call
    BY <2>1, NoHandlerMoves DEF server
  <2>3. BrowserTypeOK' /\ Asking'
    BY <2>2, <1>1, <1>2, <1>10, RequestMoves DEF NothingToRefresh, SignOut, EndRequest
  <2> QED
    BY <2>1, <2>2, <2>3
<1>11. ASSUME NEW q \in Calls, Refreshed(q)
       PROVE  ClientStep /\ BrowserInv'
  <2> DEFINE r == [request[q] EXCEPT !.again = TRUE]
  <2>1. r \in RequestType /\ r.device \in Devices
    BY <1>3, <1>11 DEF Refreshed, RequestType, Asking
  <2>2. Serve(q, r) \/ Refused(q, r)
    BY <1>11 DEF Refreshed
  <2>3. call[q].pc \in {"idle"} \cup Answers /\ ClientOnly /\ UNCHANGED mishap
        /\ cookie' \in [Devices -> CookieType]
    BY <1>1, <1>4, <1>11 DEF Refreshed, Answers
  <2> HIDE DEF r
  <2> QED
    BY <2>1, <2>2, <2>3, ServeHolds
<1>12. ASSUME NEW q \in Calls, RefreshFails(q)
       PROVE  ClientStep /\ BrowserInv'
  <2>1. ClientStep /\ SessionsInv' /\ SessionsTypeOK'
        /\ \A e \in Calls : e # q => call'[e] = call[e]
    BY <1>12, ClientMoves DEF RefreshFails, EndCall, Answers
  <2>2. cookie' \in [Devices -> CookieType]
    BY <1>1, <1>2, <1>12 DEF RefreshFails, SignOut
  <2>3. BrowserTypeOK' /\ Asking'
    BY <2>1, <2>2, <1>1, <1>2, <1>12, RequestMoves DEF RefreshFails, SignOut, EndRequest
  <2> QED
    BY <2>1, <2>3
<1>13. ASSUME NEW q \in Calls, Timeout(q)
       PROVE  UNCHANGED server /\ BrowserInv'
  <2>1. UNCHANGED server /\ UNCHANGED mishap
    BY <1>13 DEF Timeout, server, ClientOnly
  <2>2. SessionsInv' /\ SessionsTypeOK' /\ UNCHANGED call
    BY <2>1, NoHandlerMoves DEF server
  <2>3. cookie' \in [Devices -> CookieType] /\ EndRequest(q)
    BY <1>1, <1>2, <1>13 DEF Timeout, SignOut
  <2>4. BrowserTypeOK' /\ Asking'
    BY <2>1, <2>2, <2>3, <1>1, <1>2, RequestMoves DEF EndRequest
  <2> QED
    BY <2>1, <2>2, <2>4
<1>14. ASSUME NEW q \in Calls, Unheard(q)
       PROVE  ClientStep /\ BrowserInv'
  <2>1. ClientStep /\ SessionsInv' /\ SessionsTypeOK'
        /\ \A e \in Calls : e # q => call'[e] = call[e]
    BY <1>14, ClientMoves DEF Unheard, EndCall
  <2>2. request' = [request EXCEPT ![q] = request[q]] /\ UNCHANGED <<cookie, mishap>>
    BY <1>1, <1>14 DEF Unheard, browser
  <2>3. BrowserTypeOK' /\ Asking'
    BY <2>1, <2>2, <1>1, <1>3, <1>14, RequestMoves DEF Unheard
  <2> QED
    BY <2>1, <2>3
<1>15. ASSUME NEW d \in Devices, Logout(d) \/ AccessExpires(d)
       PROVE  UNCHANGED server /\ BrowserInv'
  <2>1. UNCHANGED server /\ UNCHANGED <<request, mishap>>
    BY <1>15 DEF Logout, AccessExpires, server, ClientOnly
  <2>2. SessionsInv' /\ SessionsTypeOK' /\ UNCHANGED call
    BY <2>1, NoHandlerMoves DEF server
  <2>3. cookie' \in [Devices -> CookieType]
    <3>1. [cookie[d] EXCEPT !.access = "stale"] \in CookieType
      BY <1>1 DEF CookieType
    <3>2. CASE Logout(d)
      BY <3>2, <1>1, <1>2 DEF Logout
    <3>3. CASE AccessExpires(d)
      <4>1. cookie' = [cookie EXCEPT ![d] = [cookie[d] EXCEPT !.access = "stale"]]
        BY <3>3, <1>1 DEF AccessExpires
      <4> QED
        BY <4>1, <3>1, <1>1
    <3> QED
      BY <3>2, <3>3, <1>15
  <2>4. BrowserTypeOK' /\ Asking'
    BY <2>1, <2>2, <2>3, <1>1 DEF BrowserTypeOK, Asking
  <2> QED
    BY <2>1, <2>2, <2>4
<1>16. ASSUME NEW d \in Devices, Leave(d)
       PROVE  UNCHANGED server /\ BrowserInv'
  <2>1. UNCHANGED server /\ UNCHANGED cookie
    BY <1>16 DEF Leave, server, ClientOnly
  <2>2. SessionsInv' /\ SessionsTypeOK' /\ UNCHANGED call
    BY <2>1, NoHandlerMoves DEF server
  <2>3. request' = [q \in Calls |-> IF request[q].device = d THEN NoRequest ELSE request[q]]
        /\ mishap' \in BOOLEAN
    BY <1>1, <1>16 DEF Leave
  <2>4. BrowserTypeOK' /\ Asking'
    BY <2>1, <2>2, <2>3, <1>1, <1>2, <1>3 DEF BrowserTypeOK, Asking
  <2> QED
    BY <2>1, <2>2, <2>4
<1>17. ASSUME (ServerStep /\ UNCHANGED browser) \/ UNCHANGED vars
       PROVE  [SessionsNext]_server /\ BrowserInv'
  <2>1. [SessionsNext]_server /\ UNCHANGED <<cookie, request, mishap>>
    BY <1>17 DEF SessionsNext, vars, browser, server
  <2>2. SessionsInv' /\ SessionsTypeOK'
    BY <2>1, StepHolds DEF SessionsInv
  <2>3. \A q \in Calls : call[q].pc = "idle" => call'[q].pc = "idle"
    BY <1>17, IdleStaysIdle DEF SessionsInv, vars, server
  <2>4. BrowserTypeOK' /\ Asking'
    BY <2>1, <2>2, <2>3 DEF BrowserTypeOK, Asking
  <2> QED
    BY <2>1, <2>2, <2>4
<1> QED
  BY <1>5, <1>6, <1>7, <1>8, <1>9, <1>10, <1>11, <1>12, <1>13, <1>14, <1>15, <1>16, <1>17
  DEF Next, BrowserStep, SessionsNext

LEMMA BrowserInitHolds == Init => SessionsInit /\ BrowserInv
<1> SUFFICES ASSUME Init PROVE SessionsInit /\ BrowserInv
  OBVIOUS
<1>1. SessionsInit /\ SessionsInv
  BY InitHolds DEF Init
<1>2. NoRequest \in RequestType /\ NoRequest.pc = "idle" /\ NoCookies \in CookieType
  BY DEF NoRequest, RequestType, NoCookies, CookieType
<1>3. BrowserTypeOK /\ Asking
  BY <1>1, <1>2 DEF Init, BrowserTypeOK, Asking, SessionsInv
<1> QED
  BY <1>1, <1>3 DEF BrowserInv

-----------------------------------------------------------------------------
(* For any clients: AuthenticationService and SettingsService.changePassword *)
(* keep the invariant whatever tokens are presented to them, in whatever    *)
(* order.                                                                   *)
THEOREM Invariance == SessionsSpec => []SessionsInv
  BY InitHolds, StepHolds, PTL DEF SessionsSpec

(* A changed password ends every session that the handlers past their       *)
(* checks do not bring back (settings.service.ts:147).                      *)
THEOREM PasswordChangeEndsSessions == SessionsSpec => []OldSessionsDie
<1>1. SessionsInv => OldSessionsDie
  BY DEF SessionsInv
<1> QED
  BY <1>1, Invariance, PTL

(* A login has one live session unless two refreshes of a token race        *)
(* (authentication.service.ts:106).                                         *)
THEOREM RefreshRotates == SessionsSpec => []OneHeirPerLogin
<1>1. SessionsInv => OneHeirPerLogin
  BY DEF SessionsInv
<1> QED
  BY <1>1, Invariance, PTL

(* The browsers of the frontend are clients of the server: every step of    *)
(* theirs, replays and time-outs included, is one that SessionsSpec allows. *)
THEOREM BrowsersAreClients == Spec => SessionsSpec
  BY BrowserInitHolds, BrowserHolds, PTL DEF Spec, SessionsSpec

(* Types of the browsers' variables.                                        *)
THEOREM BrowserTypes == Spec => []BrowserTypeOK
<1>1. BrowserInv => BrowserTypeOK
  BY DEF BrowserInv
<1> QED
  BY <1>1, BrowserInitHolds, BrowserHolds, PTL DEF Spec

-----------------------------------------------------------------------------
(* Who holds a token: why no alarm of reuse is raised without a mishap.     *)

(* A step that begins no refresh and gives no token away.                   *)
LEMMA TokensAreLost ==
  ASSUME HolderInv, ~mishap,
         \A c \in Calls, t \in Tokens :
             (Presents(c, t)' => Presents(c, t)) /\ (Carries(c, t)' => Carries(c, t)),
         \A d \in Devices : cookie'[d].refresh \in {NoToken, cookie[d].refresh},
         \A q \in Calls, d \in Devices :
             /\ Refreshing(q, d)' => Refreshing(q, d)
             /\ Refreshing(q, d) => Refreshing(q, d)' \/ cookie'[d].refresh = NoToken,
         \A t \in Tokens : session'[t].state \in {"none", "rotated"} =>
             session'[t].state = session[t].state,
         alarm' = alarm,
         BrowserTypeOK, BrowserTypeOK'
  PROVE  HolderInv'
<1>1. \A t \in Tokens : t # NoToken
  BY NoTokenAssumption
<1>2. OneHolder'
  BY <1>1 DEF HolderInv, OneHolder
<1>3. OneRefresh'
  BY <1>1 DEF HolderInv, OneRefresh
<1>4. BrowserKeepsUp'
  <2> SUFFICES ASSUME NEW d \in Devices, cookie'[d].refresh # NoToken,
                      session'[cookie'[d].refresh].state = "rotated"
               PROVE  \E q \in Calls : Refreshing(q, d)'
    BY DEF BrowserKeepsUp, Refreshing
  <2>1. PICK t : t = cookie[d].refresh
    OBVIOUS
  <2>2. cookie'[d].refresh = t /\ t \in Tokens
    BY <2>1 DEF BrowserTypeOK, CookieType
  <2>3. session[t].state = "rotated"
    BY <2>2
  <2> QED
    BY <2>1, <2>2, <2>3 DEF HolderInv, BrowserKeepsUp, Refreshing
<1> QED
  BY <1>2, <1>3, <1>4 DEF HolderInv

(* Only one call moves, and it has no token, or none that it had not.       *)
LEMMA CallMoves ==
  ASSUME SessionsTypeOK, NEW c \in Calls, \A d \in Calls : d # c => call'[d] = call[d],
         \/ call'[c].pc \notin {"refresh", "rotate", "issued"}
         \/ call'[c] = call[c]
         \/ call[c].pc = "refresh" /\ call'[c].pc = "rotate" /\ call'[c].token = call[c].token
  PROVE  \A d \in Calls, t \in Tokens :
             (Presents(d, t)' => Presents(d, t)) /\ (Carries(d, t)' => Carries(d, t))
  BY DEF Presents, Carries

(* The server's steps.                                                      *)
LEMMA ServerKeepsHolders ==
  ASSUME BrowserInv, BrowserTypeOK', HolderInv, ~mishap, ServerStep, UNCHANGED browser
  PROVE  HolderInv'
<1> USE DEF BrowserInv, SessionsInv
<1>1. /\ call \in [Calls -> CallType] /\ session \in [Tokens -> SessionType]
      /\ cookie \in [Devices -> CookieType]
  BY DEF SessionsTypeOK, BrowserTypeOK
<1>2. /\ cookie' = cookie /\ request' = request /\ mishap' = mishap
      /\ \A q \in Calls, d \in Devices : Refreshing(q, d)' <=> Refreshing(q, d)
  BY DEF browser, Refreshing
<1> DEFINE Proven(n) == [NoCall EXCEPT !.pc = "issue", !.proof = n]
           Reuse == [NoCall EXCEPT !.pc = "reuse", !.token = NoToken]
<1>0. (\A n : Proven(n).pc = "issue") /\ Reuse.pc = "reuse"
  BY DEF NoCall
<1>3. ASSUME NEW c \in Calls, \A d \in Calls : d # c => call'[d] = call[d],
             \/ call'[c].pc \notin {"refresh", "rotate", "issued"}
             \/ call'[c] = call[c]
             \/ call[c].pc = "refresh" /\ call'[c].pc = "rotate" /\ call'[c].token = call[c].token,
             session' = session, alarm' = alarm
      PROVE  HolderInv'
  BY <1>2, <1>3, CallMoves, TokensAreLost
<1>4. ASSUME NEW c \in Calls, RegisterRead(c) \/ CreateUser(c) \/ LoginRead(c)
      PROVE  HolderInv'
  <2>1. /\ \A d \in Calls : d # c => call'[d] = call[d]
        /\ call'[c].pc \notin {"refresh", "rotate", "issued"}
    <3>1. \/ \E pc \in {"failed", "create", "refused"} : Goto(c, pc)
          \/ \E n : call' = [call EXCEPT ![c] = Proven(n)]
      BY <1>4 DEF RegisterRead, CreateUser, LoginRead
    <3> HIDE DEF Proven
    <3>2. CASE \E n : call' = [call EXCEPT ![c] = Proven(n)]
      BY <1>0, <1>1, <3>2
    <3>3. CASE \E pc \in {"failed", "create", "refused"} : Goto(c, pc)
      BY <1>1, <3>3 DEF Goto, CallType
    <3> QED
      BY <3>1, <3>2, <3>3
  <2> QED
    BY <1>3, <1>4, <2>1 DEF RegisterRead, CreateUser, LoginRead
<1>5. ASSUME NEW c \in Calls, ChangeRead(c) \/ RewritePassword(c)
      PROVE  HolderInv'
  <2>1. /\ \A d \in Calls : d # c => call'[d] = call[d]
        /\ call'[c].pc \notin {"refresh", "rotate", "issued"}
    BY <1>1, <1>5 DEF ChangeRead, RewritePassword, Goto, CallType
  <2> QED
    BY <1>3, <1>5, <2>1 DEF ChangeRead, RewritePassword
<1>6. ASSUME NEW c \in Calls, RefreshRead(c)
      PROVE  HolderInv'
  <2>1. PICK t \in Tokens : t = call[c].token
    BY <1>6 DEF RefreshRead
  <2>2. session[t].state # "rotated"
    BY <1>6, <2>1 DEF HolderInv, OneRefresh, Presents, RefreshRead
  <2>3. /\ \A d \in Calls : d # c => call'[d] = call[d]
        /\ \/ call'[c].pc \notin {"refresh", "rotate", "issued"}
           \/ call[c].pc = "refresh" /\ call'[c].pc = "rotate" /\ call'[c].token = call[c].token
    <3> DEFINE s == session[call[c].token]
    <3>1. \/ Goto(c, "refused")
          \/ call' = [call EXCEPT ![c] = Reuse]
          \/ call' = [call EXCEPT ![c].pc = "rotate", ![c].proof = s.proof,
                                  ![c].late = s.late, ![c].root = s.root]
      BY <1>6 DEF RefreshRead, Begin
    <3> HIDE DEF Reuse, s
    <3>2. CASE Goto(c, "refused") \/ call' = [call EXCEPT ![c] = Reuse]
      BY <1>0, <1>1, <3>2 DEF Goto, CallType
    <3>3. CASE call' = [call EXCEPT ![c].pc = "rotate", ![c].proof = s.proof,
                                    ![c].late = s.late, ![c].root = s.root]
      BY <1>1, <1>6, <3>3 DEF CallType, RefreshRead
    <3> QED
      BY <3>1, <3>2, <3>3
  <2>4. session' = session /\ alarm' = alarm
    BY <1>6, <2>1, <2>2 DEF RefreshRead, HolderInv, SessionsTypeOK
  <2> QED
    BY <1>3, <2>3, <2>4
<1>7. ASSUME NEW c \in Calls, NEW pc \in {"refused", "done"}, RevokeAllForUser(c, pc), alarm' = alarm
      PROVE  HolderInv'
  <2>1. \A d \in Calls : \/ call'[d].pc = pc
                         \/ call'[d].pc = call[d].pc /\ call'[d].token = call[d].token
    BY <1>1, <1>7 DEF RevokeAllForUser, CallType
  <2>2. \A d \in Calls, t \in Tokens :
            (Presents(d, t)' => Presents(d, t)) /\ (Carries(d, t)' => Carries(d, t))
    BY <2>1 DEF Presents, Carries
  <2>3. \A t \in Tokens : session'[t].state \in {"none", "rotated"} =>
            session'[t].state = session[t].state
    BY <1>1, <1>7, DeadRow DEF RevokeAllForUser, States
  <2> QED
    BY <1>2, <1>7, <2>2, <2>3, TokensAreLost
<1>8. ASSUME NEW t \in Tokens, EndSession(t)
      PROVE  HolderInv'
  <2>1. \A u \in Tokens : session'[u].state \in {"none", "rotated"} =>
            session'[u].state = session[u].state
    BY <1>1, <1>8, DeadRow DEF EndSession, States
  <2>2. call' = call /\ alarm' = alarm
    BY <1>8 DEF EndSession
  <2>3. \A d \in Calls, u \in Tokens :
            (Presents(d, u)' => Presents(d, u)) /\ (Carries(d, u)' => Carries(d, u))
    BY <2>2 DEF Presents, Carries
  <2> QED
    BY <1>2, <2>1, <2>2, <2>3, TokensAreLost
<1>9. CASE Suspend \/ Crash
  <2>1. \A d \in Calls : call'[d].pc = "failed" \/ call'[d] = call[d]
    BY <1>1, <1>9, BlankCall DEF Suspend, Crash, CallType, NoCall
  <2>2. \A d \in Calls, u \in Tokens :
            (Presents(d, u)' => Presents(d, u)) /\ (Carries(d, u)' => Carries(d, u))
    BY <2>1 DEF Presents, Carries
  <2>3. session' = session /\ alarm' = alarm
    BY <1>9 DEF Suspend, Crash
  <2> QED
    BY <1>2, <2>2, <2>3, TokensAreLost
<1>10. ASSUME NEW c \in Calls, IssueTokens(c)
       PROVE  HolderInv'
  <2> DEFINE answer(t) == [NoCall EXCEPT !.pc = "issued", !.token = t]
  <2>1. \A t : answer(t).pc = "issued" /\ answer(t).token = t
    BY DEF NoCall
  <2>2. PICK t \in Tokens :
            /\ session[t].state = "none" /\ call' = [call EXCEPT ![c] = answer(t)]
            /\ \E new : new.state = "live" /\ session' = [session EXCEPT ![t] = new]
    BY <1>10 DEF IssueTokens, Begin
  <2> HIDE DEF answer
  <2>3. /\ session'[t].state = "live" /\ \A u \in Tokens : u # t => session'[u] = session[u]
        /\ \A d \in Calls, u \in Tokens :
               (Presents(d, u)' => Presents(d, u)) /\ (Carries(d, u)' <=> Carries(d, u) \/ (d = c /\ u = t))
        /\ alarm' = alarm
    BY <1>1, <1>10, <2>1, <2>2 DEF Presents, Carries, IssueTokens
  <2>4. /\ \A d \in Calls : ~Presents(d, t) /\ ~Carries(d, t)
        /\ \A d \in Devices : cookie[d].refresh # t
    BY <2>2 DEF HolderInv, OneRefresh
  <2>5. OneHolder'
    BY <1>2, <2>3, <2>4 DEF HolderInv, OneHolder
  <2>6. OneRefresh'
    BY <1>2, <2>3, <2>4 DEF HolderInv, OneRefresh
  <2>7. BrowserKeepsUp'
    BY <1>1, <1>2, <2>3, <2>4 DEF HolderInv, BrowserKeepsUp, CookieType
  <2> QED
    BY <2>3, <2>5, <2>6, <2>7 DEF HolderInv
<1>11. ASSUME NEW c \in Calls, Rotate(c)
       PROVE  HolderInv'
  <2>1. PICK t \in Tokens : t = call[c].token
    BY <1>11 DEF RootsAreIssued, Rotate
  <2>2. Presents(c, t)
    BY <1>11, <2>1 DEF Presents, Rotate
  <2>3. /\ session'[t].state = "rotated" /\ \A u \in Tokens : u # t => session'[u] = session[u]
        /\ alarm' = alarm
    BY <1>1, <1>11, <2>1, DeadRow DEF Rotate, States
  <2>4. \A d \in Calls : d # c => call'[d] = call[d]
    BY <1>1, <1>11 DEF Rotate
  <2>5. call'[c].pc = "issue"
    BY <1>1, <1>11 DEF Rotate, CallType
  <2>6. \A d \in Calls, u \in Tokens :
            (Presents(d, u)' => Presents(d, u) /\ d # c) /\ (Carries(d, u)' => Carries(d, u) /\ d # c)
    BY <2>4, <2>5 DEF Presents, Carries
  <2>7. OneHolder'
    BY <1>2, <2>6 DEF HolderInv, OneHolder
  <2>8. \A d \in Calls : ~Presents(d, t)' /\ ~Carries(d, t)'
    BY <2>2, <2>6 DEF HolderInv, OneHolder
  <2>9. OneRefresh'
    BY <1>2, <2>3, <2>6, <2>8 DEF HolderInv, OneRefresh
  <2>10. \A d \in Devices : cookie[d].refresh = t => Refreshing(c, d)
    BY <2>2 DEF HolderInv, OneHolder
  <2>11. BrowserKeepsUp'
    BY <1>1, <1>2, <2>3, <2>10 DEF HolderInv, BrowserKeepsUp, CookieType, Refreshing
  <2> QED
    BY <2>3, <2>7, <2>9, <2>11 DEF HolderInv
<1> QED
  BY <1>4, <1>5, <1>6, <1>7, <1>8, <1>9, <1>10, <1>11
  DEF ServerStep, RevokeReused, PurgeSessions

(* An answer is taken: the browser has the token, and the handler is done.  *)
LEMMA AnswerIsTaken ==
  ASSUME BrowserInv, BrowserTypeOK', HolderInv, ~mishap, NEW q \in Calls, NEW d \in Devices,
         call[q].pc = "issued", request[q].device = d,
         cookie' = [cookie EXCEPT ![d] = [access |-> "fresh", refresh |-> call[q].token]],
         NEW r, r.pc # "refreshing", request' = [request EXCEPT ![q] = r],
         call'[q].pc \notin {"refresh", "rotate", "issued"},
         \A c \in Calls : c # q => call'[c] = call[c],
         session' = session, alarm' = alarm
  PROVE  HolderInv'
<1>1. cookie \in [Devices -> CookieType] /\ call \in [Calls -> CallType] /\ request \in [Calls -> RequestType]
  BY DEF BrowserInv, BrowserTypeOK, SessionsTypeOK
<1>2. PICK t \in Tokens \cup {NoToken} : t = call[q].token
  BY <1>1 DEF CallType
<1>3. cookie'[d].refresh = t /\ \A e \in Devices : e # d => cookie'[e] = cookie[e]
  BY <1>1, <1>2
<1>4. \A c \in Calls, u \in Tokens :
          /\ Presents(c, u)' => Presents(c, u) /\ c # q
          /\ Carries(c, u)' => Carries(c, u) /\ c # q
  BY DEF Presents, Carries
<1>5. \A c \in Calls, e \in Devices : Refreshing(c, e)' <=> Refreshing(c, e) /\ c # q
  BY <1>1 DEF Refreshing
<1>6. t \in Tokens => Carries(q, t)
  BY <1>2 DEF Carries
<1>7. OneHolder'
  <2> SUFFICES ASSUME NEW u \in Tokens
               PROVE  /\ \A e, f \in Devices : cookie'[e].refresh = u /\ cookie'[f].refresh = u => e = f
                      /\ \A c, b \in Calls : (Presents(c, u)' \/ Carries(c, u)')
                                             /\ (Presents(b, u)' \/ Carries(b, u)') => c = b
                      /\ \A c \in Calls, e \in Devices : cookie'[e].refresh = u =>
                             ~Carries(c, u)' /\ (Presents(c, u)' => Refreshing(c, e)')
    BY DEF OneHolder
  <2>1. u = t => /\ \A e \in Devices : cookie[e].refresh # u
                 /\ \A c \in Calls : ~Presents(c, u)' /\ ~Carries(c, u)'
    BY <1>4, <1>6 DEF HolderInv, OneHolder
  <2>2. CASE u = t
    BY <1>3, <2>1, <2>2
  <2>3. CASE u # t
    BY <1>3, <1>4, <1>5, <2>3 DEF HolderInv, OneHolder
  <2> QED
    BY <2>2, <2>3
<1>8. \A u \in Tokens, e \in Devices : cookie'[e].refresh = u => cookie[e].refresh = u \/ (u = t /\ e = d)
  BY <1>3
<1>9. t \in Tokens => session[t].state \notin {"none", "rotated"}
  BY <1>6 DEF HolderInv, OneRefresh
<1>10. OneRefresh'
  BY <1>4, <1>5, <1>8, <1>9 DEF HolderInv, OneRefresh
<1>11. BrowserKeepsUp'
  <2> SUFFICES ASSUME NEW e \in Devices, cookie'[e].refresh # NoToken,
                      session[cookie'[e].refresh].state = "rotated"
               PROVE  \E c \in Calls : Refreshing(c, e)'
    BY DEF BrowserKeepsUp, Refreshing
  <2>1. e # d
    BY <1>2, <1>3, <1>9
  <2>2. PICK c \in Calls : Refreshing(c, e)
    BY <1>3, <2>1 DEF HolderInv, BrowserKeepsUp, Refreshing
  <2> QED
    BY <1>5, <2>1, <2>2 DEF Refreshing
<1> QED
  BY <1>7, <1>10, <1>11 DEF HolderInv

(* A browser presents its token, when no other request of it does.          *)
LEMMA TokenIsPresented ==
  ASSUME BrowserInv, BrowserTypeOK', HolderInv, ~mishap, ~mishap', NEW q \in Calls, TryRefresh(q)
  PROVE  HolderInv'
<1>1. cookie \in [Devices -> CookieType] /\ call \in [Calls -> CallType] /\ request \in [Calls -> RequestType]
  BY DEF BrowserInv, BrowserTypeOK, SessionsTypeOK
<1>2. PICK d \in Devices : d = request[q].device
  BY DEF BrowserInv, Asking, TryRefresh
<1>3. PICK t \in Tokens : t = cookie[d].refresh
  BY <1>1, <1>2 DEF TryRefresh, CookiesOf, CookieType
<1>4. \A r \in Calls : ~Refreshing(r, d)
  BY <1>2 DEF TryRefresh, Refreshing
<1>5. session[t].state \notin {"none", "rotated"}
  <2>1. session[t].state # "rotated"
    BY <1>3, <1>4, NoTokenAssumption DEF HolderInv, BrowserKeepsUp, Refreshing
  <2>2. session[t].state # "none"
    BY <1>3 DEF HolderInv, OneRefresh
  <2> QED
    BY <2>1, <2>2
<1>6. \A c \in Calls : ~Presents(c, t) /\ ~Carries(c, t)
  BY <1>3, <1>4 DEF HolderInv, OneHolder
<1>7. call'[q].pc = "refresh" /\ call'[q].token = t /\ \A c \in Calls : c # q => call'[c] = call[c]
  <2> DEFINE new == [NoCall EXCEPT !.pc = "refresh", !.token = t]
  <2>1. new.pc = "refresh" /\ new.token = t
    BY DEF NoCall
  <2>2. call' = [call EXCEPT ![q] = new]
    BY <1>2, <1>3 DEF TryRefresh, Begin, CookiesOf
  <2> HIDE DEF new
  <2> QED
    BY <1>1, <2>1, <2>2
<1>8. \A c \in Calls, u \in Tokens :
          /\ Presents(c, u)' => Presents(c, u) \/ (c = q /\ u = t)
          /\ Carries(c, u)' => Carries(c, u)
  BY <1>7 DEF Presents, Carries
<1>9. /\ cookie' = cookie /\ session' = session /\ alarm' = alarm
      /\ \A c \in Calls, e \in Devices :
             Refreshing(c, e)' <=> Refreshing(c, e) \/ (c = q /\ e = d)
  BY <1>1, <1>2 DEF TryRefresh, ClientOnly, Refreshing, RequestType
<1>10. OneHolder'
  BY <1>3, <1>6, <1>8, <1>9 DEF HolderInv, OneHolder
<1>11. OneRefresh'
  BY <1>4, <1>5, <1>8, <1>9 DEF HolderInv, OneRefresh
<1>12. BrowserKeepsUp'
  BY <1>9 DEF HolderInv, BrowserKeepsUp, Refreshing
<1> QED
  BY <1>9, <1>10, <1>11, <1>12 DEF HolderInv

(* A request that begins, or ends, but does not refresh.                    *)
LEMMA HandlerBegins ==
  ASSUME SessionsTypeOK, NEW c \in Calls, NEW pc \in {"idle", "register", "login", "change"},
         Begin(c, pc, NoToken)
  PROVE  /\ call'[c].pc = pc /\ \A d \in Calls : d # c => call'[d] = call[d]
         /\ \A d \in Calls, t \in Tokens :
                (Presents(d, t)' => Presents(d, t)) /\ (Carries(d, t)' => Carries(d, t))
<1> DEFINE new == [NoCall EXCEPT !.pc = pc, !.token = NoToken]
<1>1. new.pc = pc
  BY DEF NoCall
<1>2. call' = [call EXCEPT ![c] = new]
  BY DEF Begin
<1> HIDE DEF new
<1>3. call'[c].pc = pc /\ \A d \in Calls : d # c => call'[d] = call[d]
  BY <1>1, <1>2 DEF SessionsTypeOK
<1> QED
  BY <1>3, CallMoves

LEMMA NoCallMoves ==
  ASSUME call' = call
  PROVE  \A d \in Calls, t \in Tokens :
             (Presents(d, t)' => Presents(d, t)) /\ (Carries(d, t)' => Carries(d, t))
  BY DEF Presents, Carries

LEMMA RequestEnds ==
  ASSUME BrowserInv, BrowserTypeOK', HolderInv, ~mishap, NEW q \in Calls, NEW r,
         r.pc # "refreshing", request' = [request EXCEPT ![q] = r],
         \/ request[q].pc # "refreshing" /\ cookie' = cookie
         \/ request[q].device \in Devices /\ cookie' = [cookie EXCEPT ![request[q].device] = NoCookies],
         \A d \in Calls, t \in Tokens :
             (Presents(d, t)' => Presents(d, t)) /\ (Carries(d, t)' => Carries(d, t)),
         ClientOnly
  PROVE  HolderInv'
<1>1. cookie \in [Devices -> CookieType] /\ request \in [Calls -> RequestType] /\ NoCookies.refresh = NoToken
  BY DEF BrowserInv, BrowserTypeOK, NoCookies
<1>2. \A d \in Devices : cookie'[d].refresh \in {NoToken, cookie[d].refresh}
  BY <1>1
<1>3. \A c \in Calls, d \in Devices :
          /\ Refreshing(c, d)' => Refreshing(c, d)
          /\ Refreshing(c, d) => Refreshing(c, d)' \/ cookie'[d].refresh = NoToken
  BY <1>1 DEF Refreshing
<1>4. session' = session /\ alarm' = alarm
  BY DEF ClientOnly
<1> QED
  BY <1>2, <1>3, <1>4, TokensAreLost DEF BrowserInv

(* The browsers' steps.                                                     *)
LEMMA BrowsersKeepHolders ==
  ASSUME BrowserInv, BrowserTypeOK', HolderInv, ~mishap, ~mishap', BrowserStep
  PROVE  HolderInv'
<1>1. /\ call \in [Calls -> CallType] /\ cookie \in [Devices -> CookieType]
      /\ request \in [Calls -> RequestType] /\ SessionsTypeOK
  BY DEF BrowserInv, SessionsInv, SessionsTypeOK, BrowserTypeOK
<1>2. NoRequest.pc = "idle" /\ NoRequest \in RequestType
  BY DEF NoRequest, RequestType
<1>3. ASSUME NEW q \in Calls, NEW d \in Devices, NEW path \in {"login", "register"}, SignIn(q, d, path)
      PROVE  HolderInv'
  <2> DEFINE r == [NoRequest EXCEPT !.pc = "waiting", !.device = d]
  <2>1. r.pc # "refreshing"
    BY DEF NoRequest
  <2>2. request' = [request EXCEPT ![q] = r] /\ request[q].pc # "refreshing" /\ cookie' = cookie
    BY <1>3 DEF SignIn, Free
  <2> HIDE DEF r
  <2> QED
    BY <1>1, <1>3, <2>1, <2>2, HandlerBegins, RequestEnds DEF SignIn
<1>4. ASSUME NEW q \in Calls, NEW r \in RequestType, Serve(q, r) \/ Refused(q, r)
      PROVE  /\ \E new : new.pc # "refreshing" /\ request' = [request EXCEPT ![q] = new]
             /\ call'[q].pc \in {"idle", "change"} /\ \A c \in Calls : c # q => call'[c] = call[c]
             /\ \A c \in Calls, t \in Tokens :
                    (Presents(c, t)' => Presents(c, t)) /\ (Carries(c, t)' => Carries(c, t))
  <2>1. \A pc \in {"waiting", "unauthorised"} : [r EXCEPT !.pc = pc].pc = pc
    BY DEF RequestType
  <2>2. \/ request' = [request EXCEPT ![q] = NoRequest]
        \/ \E pc \in {"waiting", "unauthorised"} :
               request' = [request EXCEPT ![q] = [r EXCEPT !.pc = pc]]
    BY <1>4 DEF Serve, Refused, EndRequest
  <2>3. \E new : new.pc # "refreshing" /\ request' = [request EXCEPT ![q] = new]
    BY <1>2, <2>1, <2>2
  <2>4. \E pc \in {"idle", "change"} : Begin(q, pc, NoToken)
    BY <1>4 DEF Serve, Refused, EndCall
  <2> QED
    BY <1>1, <2>3, <2>4, HandlerBegins
<1>5. ASSUME NEW q \in Calls, NEW d \in Devices, NEW kind \in {"read", "change"}, Send(q, d, kind)
      PROVE  HolderInv'
  <2> DEFINE r == [NoRequest EXCEPT !.device = d, !.kind = kind]
  <2>1. r \in RequestType
    BY DEF NoRequest, RequestType
  <2>2. /\ Serve(q, r) \/ Refused(q, r)
        /\ request[q].pc # "refreshing" /\ cookie' = cookie /\ ClientOnly
    BY <1>5 DEF Send, Free
  <2> HIDE DEF r
  <2> QED
    BY <1>4, <2>1, <2>2, RequestEnds
<1>6. ASSUME NEW q \in Calls, Answered(q)
      PROVE  HolderInv'
  <2>1. request[q].pc # "refreshing" /\ cookie' = cookie /\ ClientOnly /\ request[q] \in RequestType
    BY <1>1, <1>6 DEF Answered
  <2>2. CASE Refused(q, request[q])
    BY <1>4, <2>1, <2>2, RequestEnds
  <2>3. CASE EndRequest(q) /\ EndCall(q)
    BY <1>1, <1>2, <2>1, <2>3, HandlerBegins, RequestEnds DEF EndRequest, EndCall
  <2> QED
    BY <1>6, <2>2, <2>3 DEF Answered
<1>7. ASSUME NEW q \in Calls, NothingToRefresh(q) \/ RefreshFails(q) \/ (Timeout(q) /\ SignOut(q))
      PROVE  HolderInv'
  <2>1. /\ request[q].device \in Devices /\ SignOut(q) /\ ClientOnly
        /\ call' = call \/ EndCall(q)
    BY <1>7 DEF NothingToRefresh, RefreshFails, Timeout, BrowserInv, Asking
  <2>2. \A c \in Calls, t \in Tokens :
            (Presents(c, t)' => Presents(c, t)) /\ (Carries(c, t)' => Carries(c, t))
    BY <1>1, <2>1, HandlerBegins, NoCallMoves DEF EndCall
  <2> QED
    BY <1>2, <2>1, <2>2, RequestEnds DEF SignOut, EndRequest
<1>8. ASSUME NEW q \in Calls, Timeout(q)
      PROVE  HolderInv'
  <2>1. CASE SignOut(q)
    BY <1>7, <1>8, <2>1
  <2>2. CASE request[q].pc = "waiting" /\ EndRequest(q) /\ UNCHANGED cookie
    BY <1>2, <1>8, <2>2, NoCallMoves, RequestEnds DEF Timeout, EndRequest
  <2> QED
    BY <1>8, <2>1, <2>2 DEF Timeout
<1>9. ASSUME NEW q \in Calls, Unheard(q)
      PROVE  HolderInv'
  <2>1. request' = [request EXCEPT ![q] = request[q]] /\ cookie' = cookie /\ request[q].pc # "refreshing"
    BY <1>1, <1>9 DEF Unheard, browser
  <2> QED
    BY <1>1, <1>9, <2>1, HandlerBegins, RequestEnds DEF Unheard, EndCall
<1>10. ASSUME NEW q \in Calls, SignedIn(q)
       PROVE  HolderInv'
  <2>1. PICK d : d = request[q].device
    OBVIOUS
  <2>2. d \in Devices
    BY <1>10, <2>1 DEF SignedIn, BrowserInv, Asking
  <2>3. call'[q].pc = "idle" /\ \A c \in Calls : c # q => call'[c] = call[c]
    BY <1>1, <1>10, HandlerBegins DEF SignedIn, EndCall
  <2> QED
    BY <1>2, <1>10, <2>1, <2>2, <2>3, AnswerIsTaken DEF SignedIn, EndRequest, ClientOnly
<1>11. ASSUME NEW q \in Calls, Refreshed(q)
       PROVE  HolderInv'
  <2>1. PICK d : d = request[q].device
    OBVIOUS
  <2>2. d \in Devices
    BY <1>11, <2>1 DEF Refreshed, BrowserInv, Asking
  <2> DEFINE r == [request[q] EXCEPT !.again = TRUE]
  <2>3. r \in RequestType
    BY <1>1 DEF RequestType
  <2>4. Serve(q, r) \/ Refused(q, r)
    BY <1>11 DEF Refreshed
  <2> HIDE DEF r
  <2>5. /\ \E new : new.pc # "refreshing" /\ request' = [request EXCEPT ![q] = new]
        /\ call'[q].pc \in {"idle", "change"} /\ \A c \in Calls : c # q => call'[c] = call[c]
    BY <1>4, <2>3, <2>4
  <2> QED
    BY <1>11, <2>1, <2>2, <2>5, AnswerIsTaken DEF Refreshed, ClientOnly
<1>12. ASSUME NEW d \in Devices, Logout(d) \/ AccessExpires(d)
       PROVE  HolderInv'
  <2>1. \A e \in Devices : cookie'[e].refresh \in {NoToken, cookie[e].refresh}
    BY <1>1, <1>12 DEF Logout, AccessExpires, NoCookies, CookieType
  <2>2. \A q \in Calls, e \in Devices : Refreshing(q, e)' <=> Refreshing(q, e)
    BY <1>12 DEF Logout, AccessExpires, Refreshing
  <2>3. call' = call /\ session' = session /\ alarm' = alarm
    BY <1>12 DEF Logout, AccessExpires, ClientOnly
  <2> QED
    BY <2>1, <2>2, <2>3, NoCallMoves, TokensAreLost DEF BrowserInv
<1>13. ASSUME NEW d \in Devices, Leave(d)
       PROVE  HolderInv'
  <2>1. \A q \in Calls, e \in Devices : Refreshing(q, e)' <=> Refreshing(q, e)
    BY <1>1, <1>2, <1>13 DEF Leave, Refreshing
  <2>2. cookie' = cookie /\ call' = call /\ session' = session /\ alarm' = alarm
    BY <1>13 DEF Leave, ClientOnly
  <2> QED
    BY <2>1, <2>2, NoCallMoves, TokensAreLost DEF BrowserInv
<1> QED
  BY <1>3, <1>5, <1>6, <1>7, <1>8, <1>9, <1>10, <1>11, <1>12, <1>13, TokenIsPresented DEF BrowserStep

LEMMA HoldersHold == BrowserInv /\ HolderInv /\ [Next]_vars => HolderInv'
<1> SUFFICES ASSUME BrowserInv, HolderInv, [Next]_vars PROVE HolderInv'
  OBVIOUS
<1>1. BrowserTypeOK'
  BY BrowserHolds DEF BrowserInv
<1>2. CASE mishap'
  BY <1>2 DEF HolderInv
<1>3. mishap \in BOOLEAN /\ mishap' \in BOOLEAN
  BY <1>1 DEF BrowserInv, BrowserTypeOK
<1>4. mishap => mishap'
  <2>1. BrowserStep => (mishap => mishap')
    BY DEF BrowserStep, SignIn, SignedIn, Send, Answered, TryRefresh, NothingToRefresh, Refreshed,
           RefreshFails, Timeout, Unheard, Logout, Leave, AccessExpires, browser
  <2> QED
    BY <2>1 DEF Next, vars, browser
<1>5. CASE ~mishap'
  <2>1. ~mishap
    BY <1>3, <1>4, <1>5
  <2>2. CASE UNCHANGED vars
    <3>1. \A c \in Calls, t \in Tokens :
              (Presents(c, t)' => Presents(c, t)) /\ (Carries(c, t)' => Carries(c, t))
      BY <2>2, NoCallMoves DEF vars, server
    <3>2. /\ cookie' = cookie /\ session' = session /\ alarm' = alarm
          /\ \A q \in Calls, d \in Devices : Refreshing(q, d)' <=> Refreshing(q, d)
      BY <2>2 DEF vars, server, browser, Refreshing
    <3> QED
      BY <1>1, <2>1, <3>1, <3>2, TokensAreLost DEF BrowserInv
  <2> QED
    BY <1>1, <1>5, <2>1, <2>2, ServerKeepsHolders, BrowsersKeepHolders DEF Next
<1> QED
  BY <1>2, <1>5

LEMMA NobodyHoldsYet == Init => HolderInv
<1> SUFFICES ASSUME Init PROVE HolderInv
  OBVIOUS
<1>1. /\ \A c \in Calls : call[c].pc = "idle" /\ request[c].pc = "idle"
      /\ \A d \in Devices : cookie[d].refresh = NoToken
      /\ ~alarm
  BY DEF Init, SessionsInit, NoCall, NoRequest, NoCookies
<1> QED
  BY <1>1, NoTokenAssumption
  DEF HolderInv, OneHolder, OneRefresh, BrowserKeepsUp, Presents, Carries, Refreshing

LEMMA HolderInvariance == Spec => [](BrowserInv /\ HolderInv)
<1>1. BrowserInv /\ HolderInv /\ [Next]_vars => (BrowserInv /\ HolderInv)'
  BY BrowserHolds, HoldersHold
<1> QED
  BY <1>1, BrowserInitHolds, NobodyHoldsYet, PTL DEF Spec

(* No browser is left with a token that a refresh has replaced, but by one  *)
(* that refreshed twice at once or was closed before the answer             *)
(* (apis/index.ts:50).                                                      *)
THEOREM BrowsersKeepUp == Spec => []BrowserKeepsUp
<1>1. HolderInv => BrowserKeepsUp
  BY DEF HolderInv, BrowserKeepsUp
<1> QED
  BY <1>1, HolderInvariance, PTL

(* So none of them raises the alarm of reuse otherwise                      *)
(* (authentication.service.ts:107).                                         *)
THEOREM AlarmsHaveACause == Spec => []FalseAlarmsHaveACause
<1>1. HolderInv => FalseAlarmsHaveACause
  BY DEF HolderInv, FalseAlarmsHaveACause, ReuseMeansLeak
<1> QED
  BY <1>1, HolderInvariance, PTL
=============================================================================
