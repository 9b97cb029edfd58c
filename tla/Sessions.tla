------------------------------ MODULE Sessions ------------------------------
(***************************************************************************)
(* The sessions of one account: AuthenticationService and the part of      *)
(* SettingsService that ends sessions.  A session is a row of              *)
(* refresh_tokens; a refresh replaces the row by another one.              *)
(*                                                                         *)
(* An action is the code between two awaits of a handler.  Passwords are   *)
(* known by the number of the change that set them, so that a typed        *)
(* password is the current one when it was typed, or wrong.                *)
(***************************************************************************)
EXTENDS Naturals, FiniteSets

CONSTANTS
    Tokens,      \* refresh tokens: the random values the server may draw
    NoToken,
    Calls,       \* handlers of the server
    MaxChanges,  \* bound: changes of the password
    MaxFaults    \* bound: restarts of the server and suspensions

ASSUME NoTokenAssumption == NoToken \notin Tokens
ASSUME SessionBoundsAssumption == MaxChanges \in Nat /\ MaxFaults \in Nat

VARIABLES
    account,  \* the users row; unpurged: a password change has not ended the sessions yet
    session,  \* the refresh_tokens rows
    call,     \* the continuation of each handler
    raced,    \* history: two refreshes of one token have passed its check
    alarm,    \* history: the alarm of reuse was raised by a token that a refresh had replaced
    faults    \* restarts and suspensions so far

server == <<account, session, call, raced, alarm, faults>>

-----------------------------------------------------------------------------
(* proof: the password that the login behind the session had proved.        *)
(* root: the first session of the chain of refreshes.                       *)
(* late: issued by a handler that had passed its checks before the last     *)
(* time all sessions were revoked.                                          *)
(* "rotated" is a revokedAt set by a refresh, "ended" any other, or an      *)
(* expiresAt that has passed: the code treats the two alike.                *)
States == {"none", "live", "ended", "rotated"}
NoSession == [state |-> "none", proof |-> 0, late |-> FALSE, root |-> NoToken]

Pending == {"register", "create", "login", "refresh", "reuse", "rotate", "issue",
            "change", "rewrite", "purge"}
Answers == {"issued", "done", "refused", "failed"}
NoCall == [pc |-> "idle", token |-> NoToken, proof |-> 0, late |-> FALSE, root |-> NoToken]

SessionType == [state : States, proof : Nat, late : BOOLEAN, root : Tokens \cup {NoToken}]
CallType == [pc : {"idle"} \cup Pending \cup Answers, token : Tokens \cup {NoToken},
             proof : Nat, late : BOOLEAN, root : Tokens \cup {NoToken}]

(* Types of the server's variables.                                         *)
SessionsTypeOK ==
    /\ account \in [exists : BOOLEAN, active : BOOLEAN, password : Nat, unpurged : BOOLEAN]
    /\ session \in [Tokens -> SessionType]
    /\ call \in [Calls -> CallType]
    /\ raced \in BOOLEAN /\ alarm \in BOOLEAN /\ faults \in Nat

SessionsInit ==
    /\ account = [exists |-> FALSE, active |-> TRUE, password |-> 0, unpurged |-> FALSE]
    /\ session = [t \in Tokens |-> NoSession]
    /\ call = [c \in Calls |-> NoCall]
    /\ raced = FALSE
    /\ alarm = FALSE
    /\ faults = 0

Goto(c, pc) == call' = [call EXCEPT ![c].pc = pc]

(* A request reaches the server, with the refresh token it presents if any. *)
Begin(c, pc, t) == call' = [call EXCEPT ![c] = [NoCall EXCEPT !.pc = pc, !.token = t]]

-----------------------------------------------------------------------------
(* register, login *)

RegisterRead(c) ==
    /\ call[c].pc = "register"
    /\ Goto(c, IF account.exists THEN "failed" ELSE "create")
    /\ UNCHANGED <<account, session, raced, alarm, faults>>

(* The unique index on the address refuses the second of two.               *)
CreateUser(c) ==
    /\ call[c].pc = "create"
    /\ IF account.exists
       THEN Goto(c, "failed") /\ UNCHANGED account
       ELSE /\ account' = [account EXCEPT !.exists = TRUE, !.password = 1]
            /\ call' = [call EXCEPT ![c] = [NoCall EXCEPT !.pc = "issue", !.proof = 1]]
    /\ UNCHANGED <<session, raced, alarm, faults>>

(* The hash is read, and compared with what was typed an await later.       *)
LoginRead(c) ==
    /\ call[c].pc = "login"
    /\ \/ /\ account.exists /\ account.active
          /\ call' = [call EXCEPT ![c] =
                 [NoCall EXCEPT !.pc = "issue", !.proof = account.password]]
       \/ Goto(c, "refused")
    /\ UNCHANGED <<account, session, raced, alarm, faults>>

IssueTokens(c) ==
    /\ call[c].pc = "issue"
    /\ \E t \in Tokens :
          LET root == IF call[c].root = NoToken THEN t ELSE call[c].root
          IN  /\ session[t].state = "none"
              /\ session' = [session EXCEPT ![t] =
                     [state |-> "live", proof |-> call[c].proof, late |-> call[c].late,
                      root |-> root]]
              /\ Begin(c, "issued", t)
    /\ UNCHANGED <<account, raced, alarm, faults>>

-----------------------------------------------------------------------------
(* refresh, logout *)

(* A dead row; what the history says of it is no longer of interest.        *)
Over(state) == [NoSession EXCEPT !.state = state]

(* revokeAllForUser; the handlers past their checks do not notice.          *)
RevokeAllForUser(c, pc) ==
    /\ session' = [t \in Tokens |-> IF session[t].state = "live" THEN Over("ended")
                                    ELSE session[t]]
    /\ call' = [d \in Calls |-> IF d = c THEN [call[d] EXCEPT !.pc = pc]
                                ELSE IF call[d].pc \in {"rotate", "issue"}
                                THEN [call[d] EXCEPT !.late = TRUE]
                                ELSE call[d]]

SharesToken(c) ==
    \E d \in Calls \ {c} : call[d].pc = "rotate" /\ call[d].token = call[c].token

RefreshRead(c) ==
    LET s == session[call[c].token]
    IN  /\ call[c].pc = "refresh"
        /\ call[c].token \in Tokens
        /\ \/ /\ s.state = "none"
              /\ Goto(c, "refused")
              /\ UNCHANGED <<raced, alarm>>
           \/ /\ s.state \in {"ended", "rotated"}
              /\ Begin(c, "reuse", NoToken)
              /\ alarm' = (alarm \/ s.state = "rotated")
              /\ UNCHANGED raced
           \/ /\ s.state = "live" /\ ~account.active
              /\ Goto(c, "refused")
              /\ UNCHANGED <<raced, alarm>>
           \/ /\ s.state = "live" /\ account.active
              /\ call' = [call EXCEPT ![c].pc = "rotate", ![c].proof = s.proof,
                                      ![c].late = s.late, ![c].root = s.root]
              /\ raced' = (raced \/ SharesToken(c))
              /\ UNCHANGED alarm
        /\ UNCHANGED <<account, session, faults>>

RevokeReused(c) ==
    /\ call[c].pc = "reuse"
    /\ RevokeAllForUser(c, "refused")
    /\ UNCHANGED <<account, raced, alarm, faults>>

(* A refresh that does not revoke the row it replaces.                      *)
Rotate_Keeps(c) ==
    /\ call[c].pc = "rotate"
    /\ call' = [call EXCEPT ![c].pc = "issue", ![c].token = NoToken]
    /\ UNCHANGED <<account, session, raced, alarm, faults>>

(* The presented row is revoked, whatever has become of it since the read.  *)
Rotate(c) ==
    /\ call[c].pc = "rotate"
    /\ session' = [session EXCEPT ![call[c].token] = Over("rotated")]
    /\ call' = [call EXCEPT ![c].pc = "issue", ![c].token = NoToken]
    /\ UNCHANGED <<account, raced, alarm, faults>>

(* logout and revokeSession, one write of a row not yet revoked; or the row *)
(* expires.                                                                 *)
EndSession(t) ==
    /\ session[t].state = "live"
    /\ session' = [session EXCEPT ![t] = Over("ended")]
    /\ UNCHANGED <<account, call, raced, alarm, faults>>

-----------------------------------------------------------------------------
(* changePassword *)

(* The current password is compared with the hash that was read.  A wrong   *)
(* one is refused, a new password equal to it fails.                        *)
ChangeRead(c) ==
    /\ call[c].pc = "change"
    /\ \/ account.exists /\ Goto(c, "rewrite")
       \/ \E pc \in {"refused", "failed"} : Goto(c, pc)
    /\ UNCHANGED <<account, session, raced, alarm, faults>>

RewritePassword(c) ==
    /\ call[c].pc = "rewrite"
    /\ account' = [account EXCEPT !.password = @ + 1, !.unpurged = TRUE]
    /\ Goto(c, "purge")
    /\ UNCHANGED <<session, raced, alarm, faults>>

(* A password change that leaves the sessions.                              *)
PurgeSessions_Nothing(c) ==
    /\ call[c].pc = "purge"
    /\ Goto(c, "done")
    /\ account' = [account EXCEPT !.unpurged = FALSE]
    /\ UNCHANGED <<session, raced, alarm, faults>>

PurgeSessions(c) ==
    /\ call[c].pc = "purge"
    /\ RevokeAllForUser(c, "done")
    /\ account' = [account EXCEPT !.unpurged = FALSE]
    /\ UNCHANGED <<raced, alarm, faults>>

-----------------------------------------------------------------------------
(* Administration, restarts *)

(* users.status is written by no code: an operator changes it.              *)
Suspend ==
    /\ account.exists /\ account.active
    /\ faults < MaxFaults
    /\ faults' = faults + 1
    /\ account' = [account EXCEPT !.active = FALSE]
    /\ UNCHANGED <<session, call, raced, alarm>>

Crash ==
    /\ faults < MaxFaults
    /\ faults' = faults + 1
    /\ call' = [c \in Calls |-> IF call[c].pc \in Pending
                                THEN [NoCall EXCEPT !.pc = "failed"] ELSE call[c]]
    /\ UNCHANGED <<account, session, raced, alarm>>

ServerStep ==
    \/ \E c \in Calls :
          \/ RegisterRead(c) \/ CreateUser(c) \/ LoginRead(c) \/ IssueTokens(c)
          \/ RefreshRead(c) \/ RevokeReused(c) \/ Rotate(c)
          \/ ChangeRead(c) \/ RewritePassword(c) \/ PurgeSessions(c)
    \/ \E t \in Tokens : EndSession(t)
    \/ Suspend
    \/ Crash

(* Any client: it may present any token, and takes any answer.              *)
ClientStep ==
    /\ \E c \in Calls :
          /\ call[c].pc \in {"idle"} \cup Answers
          /\ \/ \E pc \in {"idle", "register", "login", "change"} : Begin(c, pc, NoToken)
             \/ \E t \in Tokens : Begin(c, "refresh", t)
    /\ UNCHANGED <<account, session, raced, alarm, faults>>

SessionsNext == ServerStep \/ ClientStep
SessionsSpec == SessionsInit /\ [][SessionsNext]_server

-----------------------------------------------------------------------------
(* "A password change is what you do when you suspect a compromise, so      *)
(* every other session has to die with it" (settings.service.ts:147): once  *)
(* the sessions have been ended, a live one was opened with the current     *)
(* password, or by a login or refresh that had passed its checks when they  *)
(* were ended.                                                              *)
OldSessionsDie ==
    \A t \in Tokens :
        session[t].state = "live" =>
            session[t].proof = account.password \/ session[t].late \/ account.unpurged

(* "the presented token is revoked and a fresh pair issued"                 *)
(* (authentication.service.ts:106): a login has one live session, however   *)
(* often it is refreshed, unless two refreshes of one token pass its check  *)
(* before either has revoked it.                                            *)
OneHeirPerLogin ==
    \A t, u \in Tokens :
        session[t].state = "live" /\ session[u].state = "live"
            /\ session[t].root = session[u].root => t = u \/ raced

-----------------------------------------------------------------------------
(* The inductive invariant *)

Live(t) == session[t].state = "live"
Claims(c) == call[c].pc \in {"rotate", "issue"}

(* Nothing happens to an account that is not there.                         *)
AccountFirst ==
    ~account.exists =>
        /\ \A t \in Tokens : ~Live(t)
        /\ \A c \in Calls : ~Claims(c) /\ call[c].pc # "rewrite"

(* Chains begin at rows that exist, and so cannot begin again.              *)
RootsAreIssued ==
    /\ \A t \in Tokens : Live(t) =>
          session[t].root \in Tokens /\ session[session[t].root].state # "none"
    /\ \A c \in Calls : Claims(c) /\ call[c].root # NoToken =>
          session[call[c].root].state # "none"
    /\ \A c \in Calls : call[c].pc = "rotate" =>
          /\ call[c].token \in Tokens /\ call[c].root # NoToken
          /\ session[call[c].token].state # "none"

(* What OldSessionsDie says of the rows, of the handlers about to make one. *)
ClaimsAreProven ==
    \A c \in Calls : Claims(c) =>
        call[c].proof = account.password \/ call[c].late \/ account.unpurged

(* A handler that refreshes a login is the only one, and the row it has not *)
(* yet revoked is the only live one.                                        *)
OneClaimPerLogin ==
    raced \/ \A c \in Calls : Claims(c) /\ call[c].root # NoToken =>
        /\ \A d \in Calls : Claims(d) /\ call[d].root = call[c].root => d = c
        /\ \A t \in Tokens : Live(t) /\ session[t].root = call[c].root =>
               call[c].pc = "rotate" /\ t = call[c].token

(* The invariant of the proofs.                                             *)
SessionsInv ==
    /\ SessionsTypeOK
    /\ AccountFirst
    /\ RootsAreIssued
    /\ ClaimsAreProven
    /\ OldSessionsDie
    /\ OneClaimPerLogin
    /\ OneHeirPerLogin
=============================================================================
