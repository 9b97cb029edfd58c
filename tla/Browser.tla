------------------------------ MODULE Browser ------------------------------
(***************************************************************************)
(* The browsers of one user over Sessions: the API client of the frontend  *)
(* (apis/index.ts) with its one refresh and one replay, signing in, logging *)
(* out, and changing the password.  A page sends several requests at once  *)
(* (Promise.all of the composables), and the pages of a browser share its  *)
(* two cookies.  A request keeps the number of the call that serves it.    *)
(***************************************************************************)
EXTENDS Sessions

CONSTANTS Devices, NoDevice

ASSUME NoDeviceAssumption == NoDevice \notin Devices

VARIABLES
    cookie,   \* auth_token (fresh until it expires, then stale) and refresh_token
    request,  \* the continuation of each request of a page
    mishap    \* history: a browser refreshed twice at once, or a page was closed while it was
              \* refreshing

browser == <<cookie, request, mishap>>
vars == <<server, browser>>

NoCookies == [access |-> "none", refresh |-> NoToken]
NoRequest == [pc |-> "idle", device |-> NoDevice, kind |-> "read", again |-> FALSE]

CookieType == [access : {"none", "fresh", "stale"}, refresh : Tokens \cup {NoToken}]
RequestType == [pc : {"idle", "waiting", "unauthorised", "refreshing"},
                device : Devices \cup {NoDevice}, kind : {"read", "change"}, again : BOOLEAN]

(* Types of the browsers' variables.                                        *)
BrowserTypeOK ==
    /\ SessionsTypeOK
    /\ cookie \in [Devices -> CookieType]
    /\ request \in [Calls -> RequestType]
    /\ mishap \in BOOLEAN

Init ==
    /\ SessionsInit
    /\ cookie = [d \in Devices |-> NoCookies]
    /\ request = [q \in Calls |-> NoRequest]
    /\ mishap = FALSE

Free(q) == request[q].pc = "idle" /\ call[q].pc = "idle"
CookiesOf(q) == cookie[request[q].device]
EndRequest(q) == request' = [request EXCEPT ![q] = NoRequest]
EndCall(q) == Begin(q, "idle", NoToken)

(* Steps of the client leave the database alone.                            *)
ClientOnly == UNCHANGED <<account, session, raced, alarm, faults>>

-----------------------------------------------------------------------------
(* login.vue *)

SignIn(q, d, path) ==
    /\ Free(q)
    /\ request' = [request EXCEPT ![q] = [NoRequest EXCEPT !.pc = "waiting", !.device = d]]
    /\ Begin(q, path, NoToken)
    /\ ClientOnly /\ UNCHANGED <<cookie, mishap>>

SignedIn(q) ==
    /\ request[q].pc = "waiting" /\ call[q].pc = "issued"
    /\ cookie' = [cookie EXCEPT ![request[q].device] =
           [access |-> "fresh", refresh |-> call[q].token]]
    /\ EndRequest(q) /\ EndCall(q)
    /\ ClientOnly /\ UNCHANGED mishap

-----------------------------------------------------------------------------
(* apis/index.ts: request, send, tryRefresh, signOut *)

(* AuthenticationGuard and AuthenticationStrategy.validate                  *)
Authorised(access) == access = "fresh" /\ account.exists /\ account.active

(* An authorised read changes nothing.                                      *)
Serve(q, r) ==
    IF r.kind = "read" THEN EndRequest(q) /\ EndCall(q)
    ELSE /\ account.password <= MaxChanges
         /\ request' = [request EXCEPT ![q] = [r EXCEPT !.pc = "waiting"]]
         /\ Begin(q, "change", NoToken)

(* A 401 is answered by one refresh and one replay.                         *)
Refused(q, r) ==
    /\ IF r.again THEN EndRequest(q)
       ELSE request' = [request EXCEPT ![q] = [r EXCEPT !.pc = "unauthorised"]]
    /\ EndCall(q)

Send(q, d, kind) ==
    LET r == [NoRequest EXCEPT !.device = d, !.kind = kind]
    IN  /\ Free(q)
        /\ cookie[d].access # "none"
        /\ IF Authorised(cookie[d].access) THEN Serve(q, r) ELSE Refused(q, r)
        /\ ClientOnly /\ UNCHANGED <<cookie, mishap>>

(* A wrong current password is a 401 too, except on the paths of login.     *)
Answered(q) ==
    /\ request[q].pc = "waiting" /\ call[q].pc \in {"done", "refused", "failed"}
    /\ IF call[q].pc = "refused" /\ request[q].kind = "change"
       THEN Refused(q, request[q]) ELSE EndRequest(q) /\ EndCall(q)
    /\ ClientOnly /\ UNCHANGED <<cookie, mishap>>

SignOut(q) ==
    /\ cookie' = [cookie EXCEPT ![request[q].device] = NoCookies]
    /\ EndRequest(q)

TryRefresh(q) ==
    /\ request[q].pc = "unauthorised"
    /\ CookiesOf(q).refresh # NoToken
    /\ request' = [request EXCEPT ![q].pc = "refreshing"]
    /\ Begin(q, "refresh", CookiesOf(q).refresh)
    /\ mishap' = (mishap \/ \E r \in Calls : /\ request[r].pc = "refreshing"
                                              /\ request[r].device = request[q].device)
    /\ ClientOnly /\ UNCHANGED cookie

NothingToRefresh(q) ==
    /\ request[q].pc = "unauthorised"
    /\ CookiesOf(q).refresh = NoToken
    /\ SignOut(q)
    /\ ClientOnly /\ UNCHANGED <<call, mishap>>

(* Only the access token of the answer is kept.                             *)
Refreshed_AccessOnly(q) ==
    /\ request[q].pc = "refreshing" /\ call[q].pc = "issued"
    /\ cookie' = [cookie EXCEPT ![request[q].device].access = "fresh"]
    /\ LET r == [request[q] EXCEPT !.again = TRUE]
       IN  IF Authorised("fresh") THEN Serve(q, r) ELSE Refused(q, r)
    /\ ClientOnly /\ UNCHANGED mishap

Refreshed(q) ==
    /\ request[q].pc = "refreshing" /\ call[q].pc = "issued"
    /\ cookie' = [cookie EXCEPT ![request[q].device] =
           [access |-> "fresh", refresh |-> call[q].token]]
    /\ LET r == [request[q] EXCEPT !.again = TRUE]
       IN  IF Authorised("fresh") THEN Serve(q, r) ELSE Refused(q, r)
    /\ ClientOnly /\ UNCHANGED mishap

(* Any error, a restart of the server too, signs the browser out.           *)
RefreshFails(q) ==
    /\ request[q].pc = "refreshing" /\ call[q].pc \in {"refused", "failed"}
    /\ SignOut(q) /\ EndCall(q)
    /\ ClientOnly /\ UNCHANGED mishap

(* A refresh that was given up leaves the browser signed in.                *)
Timeout_KeepsCookies(q) ==
    /\ call[q].pc \in Pending
    /\ request[q].pc \in {"refreshing", "waiting"}
    /\ EndRequest(q)
    /\ ClientOnly /\ UNCHANGED <<call, cookie, mishap>>

(* ky gives up after ten seconds, the server does not.                      *)
Timeout(q) ==
    /\ call[q].pc \in Pending
    /\ \/ request[q].pc = "refreshing" /\ SignOut(q)
       \/ request[q].pc = "waiting" /\ EndRequest(q) /\ UNCHANGED cookie
    /\ ClientOnly /\ UNCHANGED <<call, mishap>>

(* Nobody is there any more to take the answer.                             *)
Unheard(q) ==
    /\ request[q].pc = "idle" /\ call[q].pc \in Answers
    /\ EndCall(q)
    /\ ClientOnly /\ UNCHANGED browser

-----------------------------------------------------------------------------
(* logout of layouts/default.vue: the server is not told.                   *)
Logout(d) ==
    /\ cookie[d] # NoCookies
    /\ cookie' = [cookie EXCEPT ![d] = NoCookies]
    /\ ClientOnly /\ UNCHANGED <<call, request, mishap>>

(* The page is closed or reloaded; the cookies stay.                        *)
Leave(d) ==
    /\ \E q \in Calls : request[q].device = d
    /\ request' = [q \in Calls |-> IF request[q].device = d THEN NoRequest ELSE request[q]]
    /\ mishap' = (mishap \/ \E q \in Calls : /\ request[q].device = d
                                              /\ request[q].pc = "refreshing")
    /\ ClientOnly /\ UNCHANGED <<call, cookie>>

(* JWT_ACCESS_TTL                                                           *)
AccessExpires(d) ==
    /\ cookie[d].access = "fresh"
    /\ cookie' = [cookie EXCEPT ![d].access = "stale"]
    /\ ClientOnly /\ UNCHANGED <<call, request, mishap>>

BrowserStep ==
    \/ \E q \in Calls :
          \/ SignedIn(q) \/ Answered(q) \/ TryRefresh(q) \/ NothingToRefresh(q)
          \/ Refreshed(q) \/ RefreshFails(q) \/ Timeout(q) \/ Unheard(q)
          \/ \E d \in Devices :
                \/ \E path \in {"login", "register"} : SignIn(q, d, path)
                \/ \E kind \in {"read", "change"} : Send(q, d, kind)
    \/ \E d \in Devices : Logout(d) \/ Leave(d) \/ AccessExpires(d)

Next == (ServerStep /\ UNCHANGED browser) \/ BrowserStep
Spec == Init /\ [][Next]_vars

-----------------------------------------------------------------------------
(* "Re-use of an already-revoked token means the token leaked"              *)
(* (authentication.service.ts:107).  Here no token leaks, so a token that a *)
(* refresh has replaced must never come back.                               *)
ReuseMeansLeak == ~alarm

(* "The server rotates refresh tokens, so the old one is already revoked"   *)
(* (apis/index.ts:50): a browser is never left with a token that a refresh  *)
(* has replaced, unless it refreshed twice at once, or a page was closed    *)
(* before it had the answer.  Then the next request raises the alarm.       *)
BrowserKeepsUp ==
    \A d \in Devices :
        \/ cookie[d].refresh = NoToken
        \/ session[cookie[d].refresh].state # "rotated"
        \/ \E q \in Calls : request[q].device = d /\ request[q].pc = "refreshing"
        \/ mishap

(* No token comes back for any other reason.                                *)
FalseAlarmsHaveACause == ReuseMeansLeak \/ mishap

-----------------------------------------------------------------------------
(* What the two rest on.  A token is held by the cookies of one browser, by *)
(* the handler that it was presented to, or by the one that answers it; by  *)
(* two of them only while the browser waits for its own refresh.            *)
Presents(c, t) == call[c].pc \in {"refresh", "rotate"} /\ call[c].token = t
Carries(c, t) == call[c].pc = "issued" /\ call[c].token = t
Refreshing(q, d) == request[q].pc = "refreshing" /\ request[q].device = d

OneHolder ==
    \A t \in Tokens :
        /\ \A d, e \in Devices : cookie[d].refresh = t /\ cookie[e].refresh = t => d = e
        /\ \A c, b \in Calls : (Presents(c, t) \/ Carries(c, t))
                               /\ (Presents(b, t) \/ Carries(b, t)) => c = b
        /\ \A c \in Calls, d \in Devices : cookie[d].refresh = t =>
               ~Carries(c, t) /\ (Presents(c, t) => Refreshing(c, d))

(* One refresh at a time, of a token that was issued and not yet replaced.  *)
OneRefresh ==
    /\ \A q, r \in Calls, d \in Devices : Refreshing(q, d) /\ Refreshing(r, d) => q = r
    /\ \A t \in Tokens :
           /\ session[t].state \in {"none", "rotated"} =>
                  \A c \in Calls : ~Presents(c, t) /\ ~Carries(c, t)
           /\ session[t].state = "none" => \A d \in Devices : cookie[d].refresh # t

HolderInv == mishap \/ (OneHolder /\ OneRefresh /\ BrowserKeepsUp /\ ~alarm)
=============================================================================
