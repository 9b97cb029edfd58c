----------------------- MODULE BillingAndPagesProofs -----------------------
(***************************************************************************)
(* Proofs about Wallets, Billing and the pages of the front end, one of    *)
(* which is about wallets too. Billing: for any chain, any number of       *)
(* users, wallets and requests, and any number of reorganisations, faults  *)
(* and restarts. The pages: for any number of tabs, rows, wallets and      *)
(* requests; what the front end does is what each of its pages does, so    *)
(* each page's theorem is one of the front end too.                        *)
(***************************************************************************)
EXTENDS Billing, Pages, FiniteSetTheorems, TLAPS

-----------------------------------------------------------------------------
(* Wallets: the type invariant is inductive, an address only changes hands  *)
(* through an unlink, and without unlinks a verified address belongs to the *)
(* user who holds its key.                                                  *)

LinkRow == [user : Users \cup {Nobody}, nonce : Nat, verified : BOOLEAN,
            rowOld : BOOLEAN, nonceOld : BOOLEAN]
RequestRow == [pc : {"idle", "issue", "confirm", "verified"},
               user : Users \cup {Nobody}, wallet : Wallets \cup {NoWallet}]

LEMMA UnlinkedRow == Unlinked \in LinkRow /\ Unlinked.user = Nobody
BY DEF Unlinked, LinkRow

LEMMA RestingRow == Resting \in RequestRow /\ Resting.pc = "idle"
BY DEF Resting, RequestRow

LEMMA RowOfType == WalletTypeOK => \A w \in Wallets : link[w] \in LinkRow
BY DEF WalletTypeOK, LinkRow

(* The tables with one row written, and the requests with one continued.    *)
LinksOK == link \in [Wallets -> LinkRow] /\ \A w \in Wallets : ~Linked(w) => link[w] = Unlinked
RequestsOK ==
    /\ request \in [Requests -> RequestRow]
    /\ \A r \in Requests :
           request[r].pc # "idle" => request[r].user \in Users /\ request[r].wallet \in Wallets

Parts ==
    /\ LinksOK /\ RequestsOK
    /\ message \in [Users -> [Wallets -> Nat]]
    /\ nonces \in Nat /\ ops \in [{"challenge", "unlink"} -> Nat]

LEMMA PartsOfType == (WalletTypeOK <=> Parts) /\ (WalletTypeOK' <=> Parts')
BY DEF WalletTypeOK, Parts, LinksOK, RequestsOK, LinkRow, RequestRow, Linked

LEMMA PutRow ==
    ASSUME LinksOK, NEW w \in Wallets, NEW new \in LinkRow,
           new.user = Nobody => new = Unlinked,
           link' = [link EXCEPT ![w] = new]
    PROVE  LinksOK'
BY DEF LinksOK, Linked

LEMMA PutRequest ==
    ASSUME RequestsOK, NEW r \in Requests, NEW c \in RequestRow,
           c.pc # "idle" => c.user \in Users /\ c.wallet \in Wallets,
           request' = [request EXCEPT ![r] = c]
    PROVE  RequestsOK'
BY DEF RequestsOK

LEMMA Rest ==
    ASSUME RequestsOK, NEW r \in Requests, request' = [request EXCEPT ![r] = Resting]
    PROVE  RequestsOK'
BY RestingRow, PutRequest

(* Every row of the links and every request keeps its type, from the start  *)
(* (WalletService).                                                         *)
LEMMA WalletTypeInit == WalletInit => WalletTypeOK
<1> SUFFICES ASSUME WalletInit PROVE WalletTypeOK
    OBVIOUS
<1>1. LinksOK
    BY UnlinkedRow DEF WalletInit, LinksOK
<1>2. RequestsOK
    BY RestingRow DEF WalletInit, RequestsOK
<1> QED BY <1>1, <1>2, PartsOfType DEF WalletInit, Parts

(* ... and with every step of challenge, verify, unlink and the clock.      *)
LEMMA WalletTypeStep ==
    ASSUME WalletTypeOK, [WalletNext]_wallet
    PROVE  WalletTypeOK'
<1> USE PartsOfType DEF Parts
<1>1. ASSUME NEW r \in Requests, NEW u \in Users, NEW w \in Wallets, Challenge(r, u, w)
      PROVE  WalletTypeOK'
  <2>1. [pc |-> "issue", user |-> u, wallet |-> w] \in RequestRow
      BY DEF RequestRow
  <2>2. RequestsOK'
      BY <1>1, <2>1, PutRequest DEF Challenge, RequestsOK
  <2>3. ops' \in [{"challenge", "unlink"} -> Nat]
      BY <1>1 DEF Challenge
  <2> QED BY <1>1, <2>2, <2>3 DEF Challenge, LinksOK, Linked
<1>2. ASSUME NEW r \in Requests, NEW u \in Users, NEW w \in Wallets, Verify(r, u, w)
      PROVE  WalletTypeOK'
  <2>1. [pc |-> "confirm", user |-> u, wallet |-> w] \in RequestRow
      BY DEF RequestRow
  <2>2. RequestsOK'
      BY <1>2, <2>1, PutRequest DEF Verify
  <2> QED BY <1>2, <2>2 DEF Verify, LinksOK, Linked
<1>3. ASSUME NEW r \in Requests, IssueNonce(r)
      PROVE  WalletTypeOK'
  <2> DEFINE u == request[r].user
             w == request[r].wallet
             new == IF Linked(w)
                    THEN [link[w] EXCEPT !.nonce = nonces + 1, !.verified = FALSE,
                                         !.nonceOld = FALSE]
                    ELSE [Unlinked EXCEPT !.user = u, !.nonce = nonces + 1]
  <2>1. u \in Users /\ w \in Wallets /\ nonces + 1 \in Nat
      BY <1>3 DEF IssueNonce, RequestsOK
  <2>2. new \in LinkRow /\ new.user # Nobody
    <3>1. CASE Linked(w)
        BY <2>1, <3>1, RowOfType DEF LinkRow, Linked
    <3>2. CASE ~Linked(w)
        BY <2>1, <3>2, WalletsAssumption DEF LinkRow, Unlinked
    <3> QED BY <3>1, <3>2
  <2>3. LinksOK'
      BY <1>3, <2>1, <2>2, PutRow DEF IssueNonce
  <2>4. RequestsOK'
      BY <1>3, Rest DEF IssueNonce
  <2>5. message' \in [Users -> [Wallets -> Nat]] /\ nonces' \in Nat
      BY <1>3, <2>1 DEF IssueNonce
  <2> QED BY <1>3, <2>3, <2>4, <2>5 DEF IssueNonce
<1>4. ASSUME NEW r \in Requests, Confirm(r)
      PROVE  WalletTypeOK'
  <2> DEFINE w == request[r].wallet
             new == [link[w] EXCEPT !.verified = TRUE, !.nonce = nonces + 1]
             c == [request[r] EXCEPT !.pc = "verified"]
  <2>1. w \in Wallets /\ request[r].user \in Users /\ nonces + 1 \in Nat
      BY <1>4 DEF Confirm, RequestsOK
  <2>2. new \in LinkRow /\ new.user # Nobody
      BY <1>4, <2>1, RowOfType DEF LinkRow, Confirm, Linked
  <2>3. LinksOK'
      BY <1>4, <2>1, <2>2, PutRow DEF Confirm
  <2>4. c \in RequestRow /\ c.user \in Users /\ c.wallet \in Wallets
      BY <2>1 DEF RequestsOK, RequestRow
  <2>5. RequestsOK'
      BY <1>4, <2>4, PutRequest DEF Confirm
  <2> QED BY <1>4, <2>1, <2>3, <2>5 DEF Confirm
<1>5. ASSUME NEW r \in Requests, ConfirmNothing(r) \/ Respond(r)
      PROVE  WalletTypeOK'
      BY <1>5, Rest DEF ConfirmNothing, Respond, LinksOK, Linked
<1>6. ASSUME NEW u \in Users, NEW w \in Wallets, Unlink(u, w)
      PROVE  WalletTypeOK'
  <2>1. LinksOK'
      BY <1>6, UnlinkedRow, PutRow DEF Unlink
  <2>2. ops' \in [{"challenge", "unlink"} -> Nat]
      BY <1>6 DEF Unlink
  <2> QED BY <1>6, <2>1, <2>2 DEF Unlink, RequestsOK
<1>7. ASSUME NEW w \in Wallets, Expire(w)
      PROVE  WalletTypeOK'
  <2> DEFINE new == [link[w] EXCEPT !.rowOld = TRUE, !.nonceOld = TRUE]
  <2>1. new \in LinkRow /\ new.user # Nobody
      BY <1>7, RowOfType DEF LinkRow, Expire, Linked
  <2>2. link' = [link EXCEPT ![w] = new]
      BY <1>7, RowOfType DEF Expire, LinkRow
  <2>3. LinksOK'
      BY <2>1, <2>2, PutRow
  <2> QED BY <1>7, <2>3 DEF Expire, RequestsOK
<1>8. CASE UNCHANGED wallet
      BY <1>8 DEF WalletTypeOK, wallet
<1> QED
    BY <1>1, <1>2, <1>3, <1>4, <1>5, <1>6, <1>7, <1>8 DEF WalletNext, WalletStep

(* The service keeps its rows and its requests well formed (WalletService). *)
THEOREM WalletsTypeCorrect == WalletSpec => []WalletTypeOK
BY WalletTypeInit, WalletTypeStep, PTL DEF WalletSpec

-----------------------------------------------------------------------------
(* Who has a row after a step *)

(* A step leaves the owner of a row in place, frees the row, or gives a     *)
(* free one to somebody.                                                    *)
LEMMA OwnerStep ==
    ASSUME WalletTypeOK, [WalletNext]_wallet, NEW w \in Wallets, Linked(w)
    PROVE  link'[w].user \in {link[w].user, Nobody}
<1>0. link \in [Wallets -> LinkRow] /\ RequestsOK
    BY PartsOfType DEF Parts, LinksOK
<1>1. ASSUME NEW r \in Requests, IssueNonce(r)
      PROVE  link'[w].user = link[w].user
      BY <1>0, <1>1 DEF IssueNonce, RequestsOK, LinkRow
<1>2. ASSUME NEW r \in Requests, Confirm(r)
      PROVE  link'[w].user = link[w].user
      BY <1>0, <1>2 DEF Confirm, RequestsOK, LinkRow
<1>3. ASSUME NEW u \in Users, NEW v \in Wallets, Unlink(u, v)
      PROVE  link'[w].user \in {link[w].user, Nobody}
      BY <1>0, <1>3, UnlinkedRow DEF Unlink
<1>4. ASSUME NEW v \in Wallets, Expire(v)
      PROVE  link'[w].user = link[w].user
      BY <1>0, <1>4 DEF Expire, LinkRow
<1>5. CASE UNCHANGED link
      BY <1>5
<1> QED
    BY <1>1, <1>2, <1>3, <1>4, <1>5
    DEF WalletNext, WalletStep, wallet, Challenge, Verify, ConfirmNothing, Respond

(* An address changes hands only through an unlink (challenge, verify).     *)
THEOREM TakeoverNeedsUnlink == WalletSpec => NoTakeover
<1>1. WalletTypeOK /\ [WalletNext]_wallet
        => [\A w \in Wallets : Linked(w) => link'[w].user \in {link[w].user, Nobody}]_link
    BY OwnerStep
<1> QED BY <1>1, WalletsTypeCorrect, PTL DEF WalletSpec, NoTakeover

-----------------------------------------------------------------------------
(* A row that nobody removes keeps its first owner, so what verify read is  *)
(* still true when it writes.                                               *)
ProvenInv ==
    /\ VerifiedMeansProven
    /\ \A r \in Requests : request[r].pc = "confirm" =>
           /\ HolderOf[request[r].wallet] = request[r].user
           /\ link[request[r].wallet].user = request[r].user

LEMMA ProvenInit == WalletInit => ProvenInv
BY RestingRow DEF WalletInit, ProvenInv, VerifiedMeansProven, Unlinked, Resting

LEMMA ProvenStep ==
    ASSUME WalletTypeOK, ProvenInv, [WalletNext]_wallet, [UnlinksWait]_wallet
    PROVE  ProvenInv'
<1>0. /\ link \in [Wallets -> LinkRow] /\ RequestsOK
      /\ \A w \in Wallets : ~Linked(w) => link[w] = Unlinked
    BY PartsOfType DEF Parts, LinksOK
<1>1. ASSUME NEW r \in Requests, NEW u \in Users, NEW w \in Wallets, Challenge(r, u, w)
      PROVE  ProvenInv'
      BY <1>0, <1>1 DEF Challenge, ProvenInv, VerifiedMeansProven, RequestsOK, RequestRow
<1>2. ASSUME NEW r \in Requests, NEW u \in Users, NEW w \in Wallets, Verify(r, u, w)
      PROVE  ProvenInv'
      BY <1>0, <1>2 DEF Verify, ProvenInv, VerifiedMeansProven, RequestsOK, RequestRow
<1>3. ASSUME NEW r \in Requests, IssueNonce(r)
      PROVE  ProvenInv'
  <2>1. \A w \in Wallets : link'[w].verified => link[w].verified /\ link'[w] = link[w]
      BY <1>0, <1>3 DEF IssueNonce, RequestsOK, LinkRow, Unlinked
  <2>2. \A w \in Wallets : Linked(w) => link'[w].user = link[w].user
      BY <1>0, <1>3 DEF IssueNonce, RequestsOK, LinkRow
  <2>3. \A q \in Requests : request'[q].pc = "confirm"
            => request'[q] = request[q] /\ Linked(request[q].wallet)
      BY <1>0, <1>3, RestingRow, WalletsAssumption
      DEF IssueNonce, RequestsOK, ProvenInv, Linked
  <2> QED BY <1>0, <2>1, <2>2, <2>3 DEF ProvenInv, VerifiedMeansProven, RequestsOK
<1>4. ASSUME NEW r \in Requests, Confirm(r)
      PROVE  ProvenInv'
  <2>1. \A w \in Wallets : link'[w].user = link[w].user
      BY <1>0, <1>4 DEF Confirm, RequestsOK, LinkRow
  <2>2. \A w \in Wallets : link'[w].verified =>
            link[w].verified \/ w = request[r].wallet
      BY <1>0, <1>4 DEF Confirm, RequestsOK, LinkRow
  <2>3. \A q \in Requests : request'[q].pc = "confirm" => request'[q] = request[q]
      BY <1>0, <1>4 DEF Confirm, RequestsOK, RequestRow
  <2>4. request[r].pc = "confirm"
      BY <1>4 DEF Confirm
  <2> QED BY <1>0, <2>1, <2>2, <2>3, <2>4 DEF ProvenInv, VerifiedMeansProven, RequestsOK
<1>5. ASSUME NEW r \in Requests, ConfirmNothing(r) \/ Respond(r)
      PROVE  ProvenInv'
      BY <1>0, <1>5, RestingRow
      DEF ConfirmNothing, Respond, ProvenInv, VerifiedMeansProven, RequestsOK
<1>6. ASSUME NEW u \in Users, NEW w \in Wallets, Unlink(u, w)
      PROVE  ProvenInv'
  <2>1. /\ Linked(w) /\ ~Linked(w)'
        /\ \A v \in Wallets \ {w} : link'[v] = link[v]
        /\ ~link'[w].verified /\ request' = request
      BY <1>0, <1>6, WalletsAssumption DEF Unlink, Linked, Unlinked
  <2>2. \A r \in Requests : request[r].pc = "confirm" => request[r].wallet # w
      BY <2>1 DEF UnlinksWait, wallet, Linked
  <2> QED BY <1>0, <2>1, <2>2 DEF ProvenInv, VerifiedMeansProven, RequestsOK
<1>7. ASSUME NEW w \in Wallets, Expire(w)
      PROVE  ProvenInv'
  <2>1. \A v \in Wallets :
            link'[v].user = link[v].user /\ link'[v].verified = link[v].verified
      BY <1>0, <1>7 DEF Expire, LinkRow
  <2> QED BY <1>0, <1>7, <2>1 DEF Expire, ProvenInv, VerifiedMeansProven, RequestsOK
<1>8. CASE UNCHANGED wallet
      BY <1>8 DEF wallet, ProvenInv, VerifiedMeansProven
<1> QED
    BY <1>1, <1>2, <1>3, <1>4, <1>5, <1>6, <1>7, <1>8 DEF WalletNext, WalletStep

(* A verified address belongs to the user who signed for it, through any    *)
(* unlinks, takeovers and races, unless its row is removed between verify's *)
(* check and its write: then it may not.                                    *)
THEOREM ProvenUnlessRemoved ==
    WalletSpec /\ [][UnlinksWait]_wallet => []VerifiedMeansProven
<1>1. WalletTypeOK /\ ProvenInv /\ [WalletNext]_wallet /\ [UnlinksWait]_wallet => ProvenInv'
    BY ProvenStep
<1>2. ProvenInv => VerifiedMeansProven
    BY DEF ProvenInv
<1> QED BY <1>1, <1>2, ProvenInit, WalletsTypeCorrect, PTL DEF WalletSpec

-----------------------------------------------------------------------------
(* Billing: types                                                           *)


ListenerRow == [pc : {"idle", "scan", "handle", "owned", "apply"},
                confirmed : 0 .. MaxBlocks, from : 0 .. MaxBlocks, to : 0 .. MaxBlocks,
                queue : SUBSET Heights, log : 0 .. MaxBlocks,
                user : Users \cup {Nobody}, end : Nat]
SubscriptionRow == [tier : Tiers, status : Standings, end : Nat, graceEnd : Nat,
                    payer : Wallets \cup {NoWallet}]
LapseRow == [pc : {"idle", "grace"}, now : 0 .. MaxBlocks, ends : [Users -> Nat]]

ChainOK == block \in [Heights -> Logs] /\ head \in 0 .. MaxBlocks
TablesOK ==
    /\ cursor \in 0 .. MaxBlocks
    /\ payment \in [Heights -> Users \cup {Nobody}]
    /\ sub \in [Users -> SubscriptionRow]
TasksOK == listener \in ListenerRow /\ lapse \in LapseRow
MishapsOK == mishaps \in [{"reorg", "fault"} -> Nat]

LEMMA TypeParts ==
    /\ TypeOK <=> WalletTypeOK /\ ChainOK /\ TablesOK /\ TasksOK /\ MishapsOK
    /\ TypeOK' <=> WalletTypeOK' /\ ChainOK' /\ TablesOK' /\ TasksOK' /\ MishapsOK'
BY DEF TypeOK, ChainOK, TablesOK, TasksOK, MishapsOK, ListenerRow, SubscriptionRow, LapseRow

LEMMA HeightsAreNumbers == \A b \in Heights : b \in Nat /\ b >= 1 /\ b <= MaxBlocks /\ b \in 0 .. MaxBlocks
BY BillingBoundsAssumption DEF Heights

LEMMA IdleRow == Idle \in ListenerRow /\ Idle.pc = "idle"
BY BillingBoundsAssumption DEF Idle, ListenerRow

LEMMA NoLapseRow == NoLapse \in LapseRow /\ \A u \in Users : NoLapse.ends[u] = 0
BY BillingBoundsAssumption DEF NoLapse, LapseRow

LEMMA NewSubscriptionRow == NewSubscription \in SubscriptionRow
BY DEF NewSubscription, SubscriptionRow, Tiers, Standings

LEMMA LogsHaveWallets == \A log \in Logs : log # NoLog => log.wallet \in Wallets
BY DEF Logs

LEMMA OwnersAreUsers ==
    ASSUME WalletTypeOK, NEW w \in Wallets
    PROVE  OwnerOf(w) \in Users \cup {Nobody}
BY RowOfType DEF OwnerOf, LinkRow

-----------------------------------------------------------------------------
(* What the step of each part changes *)

(* The wallets' steps, with the answer that attaches the wallet, and the    *)
(* restart: the requests and the links stay well formed.                    *)
LEMMA WalletPart ==
    ASSUME WalletTypeOK, [Next]_vars
    PROVE  WalletTypeOK'
<1>1. CASE [WalletNext]_wallet
    BY <1>1, WalletTypeStep
<1>2. CASE Crash
  <2>1. RequestsOK'
      BY <1>2, RestingRow DEF Crash, RequestsOK
  <2> QED BY <1>2, <2>1, PartsOfType DEF Crash, Parts, LinksOK, Linked
<1> QED
    BY <1>1, <1>2
    DEF Next, ListenerStep, vars, wallet, WalletNext, Mine, Reorg, Sync, GetLogs, FindOwner,
        ReadSubscription, ApplyCharge, MarkSubscribed, MarkCancelled, SaveCursor, AttachWallet,
        ReadLapsed, GiveGrace, ExpireLapsed, SyncFails

(* The chain only grows, and keeps every block that has its confirmations.  *)
LEMMA ChainPart ==
    ASSUME IInv, [Next]_vars
    PROVE  /\ ChainOK' /\ head' >= head
           /\ \A b \in Heights : b + Confirmations <= head => block'[b] = block[b]
<1> USE TypeParts DEF IInv
<1>1. ASSUME NEW log \in Logs, Mine(log)
      PROVE  /\ ChainOK' /\ head' >= head
             /\ \A b \in Heights : b + Confirmations <= head => block'[b] = block[b]
      BY <1>1, HeightsAreNumbers, SizesAssumption, BillingBoundsAssumption
      DEF Mine, ChainOK, Heights
<1>2. ASSUME NEW b \in Heights, Reorg(b)
      PROVE  /\ ChainOK' /\ head' >= head
             /\ \A c \in Heights : c + Confirmations <= head => block'[c] = block[c]
  <2>1. NoLog \in Logs
      BY DEF Logs
  <2> QED BY <1>2, <2>1, HeightsAreNumbers, SizesAssumption, BillingBoundsAssumption
          DEF Reorg, ChainOK, Heights
<1>3. CASE UNCHANGED chain
      BY <1>3, BillingBoundsAssumption DEF chain, ChainOK
<1> QED
    BY <1>1, <1>2, <1>3
    DEF Next, ListenerStep, vars, chain, Sync, GetLogs, FindOwner,
        ReadSubscription, ApplyCharge, MarkSubscribed, MarkCancelled, SaveCursor, AttachWallet,
        ReadLapsed, GiveGrace, ExpireLapsed, SyncFails, Crash

(* What the listener does in a step.                                        *)
LEMMA ListenerCases ==
    ASSUME [Next]_vars
    PROVE  \/ UNCHANGED <<listener, cursor, payment>>
           \/ listener' = Idle /\ UNCHANGED <<cursor, payment>>
           \/ Sync \/ GetLogs \/ (\E b \in Heights : FindOwner(b)) \/ ReadSubscription
           \/ ApplyCharge \/ MarkSubscribed \/ MarkCancelled \/ SaveCursor
BY DEF Next, ListenerStep, vars, tables, tasks, Mine, Reorg, AttachWallet,
       ReadLapsed, GiveGrace, ExpireLapsed, SyncFails, Crash

(* A scan from a height up to the confirmed one, and its next range.        *)
LEMMA ScanRow ==
    ASSUME NEW confirmed \in 0 .. MaxBlocks, NEW from \in 0 .. MaxBlocks
    PROVE  [Idle EXCEPT !.pc = "scan", !.confirmed = confirmed, !.from = from] \in ListenerRow
<1> DEFINE r == [Idle EXCEPT !.pc = "scan"]
<1>1. r \in ListenerRow
    BY IdleRow DEF ListenerRow
<1>2. [r EXCEPT !.confirmed = confirmed, !.from = from] \in ListenerRow
  <2> HIDE DEF r
  <2> QED BY <1>1 DEF ListenerRow
<1> QED BY <1>2

LEMMA NextScanRow ==
    ASSUME listener \in ListenerRow, NEW from \in 0 .. MaxBlocks
    PROVE  [listener EXCEPT !.pc = "scan", !.from = from] \in ListenerRow
BY DEF ListenerRow

(* The log in hand is handled: the rest of the range is left.               *)
LEMMA HandledRow ==
    ASSUME listener \in ListenerRow
    PROVE  /\ LogHandled \in ListenerRow
           /\ LogHandled.pc = "handle"
           /\ LogHandled.queue = listener.queue \ {listener.log}
           /\ LogHandled.confirmed = listener.confirmed
           /\ LogHandled.from = listener.from /\ LogHandled.to = listener.to
<1> DEFINE r == [listener EXCEPT !.pc = "handle", !.queue = @ \ {listener.log}]
<1>1. 0 \in 0 .. MaxBlocks /\ 0 \in Nat
    BY BillingBoundsAssumption
<1>2. r \in ListenerRow
    BY DEF ListenerRow
<1>3. [r EXCEPT !.log = 0, !.user = Nobody, !.end = 0] \in ListenerRow
  <2> HIDE DEF r
  <2> QED BY <1>1, <1>2 DEF ListenerRow
<1>4. LogHandled = [r EXCEPT !.log = 0, !.user = Nobody, !.end = 0]
    BY DEF LogHandled
<1>5. /\ LogHandled.pc = "handle"
      /\ LogHandled.queue = listener.queue \ {listener.log}
      /\ LogHandled.confirmed = listener.confirmed
      /\ LogHandled.from = listener.from /\ LogHandled.to = listener.to
    BY DEF LogHandled, ListenerRow
<1> QED BY <1>3, <1>4, <1>5

(* A scan stays confirmed and above the cursor, so no reorganisation takes  *)
(* back what it found.                                                      *)
LEMMA ScanPart ==
    ASSUME IInv, [Next]_vars
    PROVE  listener' \in ListenerRow /\ cursor' \in 0 .. MaxBlocks /\ ScanIsConfirmed'
<1>0. /\ listener \in ListenerRow /\ cursor \in 0 .. MaxBlocks /\ ScanIsConfirmed /\ LogInHand
      /\ ChainOK /\ WalletTypeOK /\ sub \in [Users -> SubscriptionRow]
    BY TypeParts DEF IInv, TasksOK, TablesOK
<1>1. /\ ChainOK' /\ head' >= head
      /\ \A b \in Heights : b + Confirmations <= head => block'[b] = block[b]
    BY ChainPart
<1>2. \A b \in Heights : listener.pc # "idle" /\ b <= listener.confirmed => block'[b] = block[b]
  <2>1. listener.pc # "idle" => listener.confirmed + Confirmations <= head
      BY <1>0 DEF ScanIsConfirmed
  <2>2. listener.confirmed \in Nat /\ head \in Nat
      BY <1>0, BillingBoundsAssumption DEF ListenerRow, ChainOK
  <2> QED BY <1>1, <2>1, <2>2, HeightsAreNumbers, SizesAssumption
<1>3. /\ listener.from \in Nat /\ listener.to \in Nat /\ listener.confirmed \in 0 .. MaxBlocks
      /\ listener.queue \in SUBSET Heights /\ cursor \in Nat /\ head \in Nat /\ head' \in Nat
      /\ head <= MaxBlocks
    BY <1>0, <1>1, BillingBoundsAssumption DEF ListenerRow, ChainOK
<1> USE SizesAssumption, BillingBoundsAssumption
<1>4. ASSUME listener' = listener, cursor' = cursor
      PROVE  ScanIsConfirmed'
      BY <1>0, <1>1, <1>2, <1>3, <1>4, HeightsAreNumbers DEF ScanIsConfirmed
<1>5. CASE listener' = Idle /\ UNCHANGED cursor
      BY <1>0, <1>5, IdleRow DEF ScanIsConfirmed
<1>6. CASE Sync
  <2>1. /\ listener' = [Idle EXCEPT !.pc = "scan", !.confirmed = head - Confirmations,
                                    !.from = cursor + 1]
        /\ UNCHANGED <<cursor, head>>
        /\ cursor + 1 <= head - Confirmations
      BY <1>6 DEF Sync, tables, chain
  <2>2. head - Confirmations \in 0 .. MaxBlocks /\ cursor + 1 \in 0 .. MaxBlocks
      BY <1>3, <2>1
  <2>3. listener' \in ListenerRow
      BY <2>1, <2>2, ScanRow
  <2> QED BY <1>0, <1>3, <2>1, <2>2, <2>3 DEF Idle, ScanIsConfirmed
<1>7. CASE GetLogs
  <2> DEFINE last == listener.from + Span - 1
             to == IF last > listener.confirmed THEN listener.confirmed ELSE last
             found == {b \in listener.from .. to : block[b] # NoLog}
  <2>1. /\ listener.pc = "scan"
        /\ listener' = [listener EXCEPT !.pc = "handle", !.to = to, !.queue = found]
        /\ UNCHANGED <<cursor, block, head>>
      BY <1>7 DEF GetLogs, tables, chain
  <2>2. cursor < listener.from /\ listener.from <= listener.confirmed
        /\ listener.confirmed + Confirmations <= head
      BY <1>0, <2>1 DEF ScanIsConfirmed
  <2>3. to \in 0 .. MaxBlocks /\ listener.from <= to /\ to <= listener.confirmed
      BY <1>3, <2>2
  <2>4. \A b \in found : b \in Heights /\ listener.from <= b /\ b <= to /\ block[b] # NoLog
      BY <1>3, <2>2, <2>3 DEF Heights
  <2> HIDE DEF to, found
  <2>5. listener' \in ListenerRow
      BY <1>0, <2>1, <2>3, <2>4 DEF ListenerRow
  <2>6. /\ listener'.from = listener.from /\ listener'.confirmed = listener.confirmed
        /\ listener'.to = to /\ listener'.queue = found
      BY <1>0, <2>1 DEF ListenerRow
  <2> QED BY <1>0, <2>1, <2>2, <2>3, <2>4, <2>5, <2>6 DEF ScanIsConfirmed
<1>8. ASSUME NEW b \in Heights, FindOwner(b)
      PROVE  listener' \in ListenerRow /\ cursor' = cursor /\ ScanIsConfirmed'
  <2>1. listener.pc = "handle" /\ b \in listener.queue /\ UNCHANGED <<cursor, block, head>>
      BY <1>8 DEF FindOwner, NextLog, tables, chain
  <2>2. block[b].wallet \in Wallets
      BY <1>0, <2>1, LogsHaveWallets DEF ScanIsConfirmed, ChainOK
  <2>3. OwnerOf(block[b].wallet) \in Users \cup {Nobody}
      BY <1>0, <2>2, OwnersAreUsers
  <2>4. CASE listener' = [listener EXCEPT !.queue = @ \ {b}]
    <3>1. listener' \in ListenerRow
        BY <1>0, <2>4 DEF ListenerRow
    <3> QED BY <1>0, <1>3, <2>1, <2>4, <3>1 DEF ListenerRow, ScanIsConfirmed
  <2>5. CASE listener' = [listener EXCEPT !.pc = "owned", !.log = b,
                                          !.user = OwnerOf(block[b].wallet)]
    <3>1. listener' \in ListenerRow
        BY <1>0, <2>3, <2>5, HeightsAreNumbers DEF ListenerRow
    <3> QED BY <1>0, <1>3, <2>1, <2>5, <3>1 DEF ListenerRow, ScanIsConfirmed
  <2> QED BY <1>8, <2>1, <2>4, <2>5 DEF FindOwner
<1>9. CASE listener' = LogHandled /\ listener.pc # "idle" /\ listener.pc # "scan"
           /\ UNCHANGED <<cursor, chain>>
      BY <1>0, <1>3, <1>9, HandledRow DEF ScanIsConfirmed, chain
<1>10. CASE ReadSubscription
  <2>1. listener.pc = "owned" /\ UNCHANGED <<cursor, chain>>
      BY <1>10 DEF ReadSubscription, tables
  <2>2. CASE listener' = [listener EXCEPT !.pc = "apply", !.end = sub[listener.user].end]
    <3>1. sub[listener.user].end \in Nat
        BY <1>0, <2>1 DEF LogInHand, SubscriptionRow
    <3>2. listener' \in ListenerRow
        BY <1>0, <2>2, <3>1 DEF ListenerRow
    <3> QED BY <1>0, <1>3, <2>1, <2>2, <3>2 DEF ListenerRow, ScanIsConfirmed, chain
  <2> QED BY <1>9, <1>10, <2>1, <2>2 DEF ReadSubscription
<1>11. CASE ApplyCharge \/ MarkSubscribed \/ MarkCancelled
      BY <1>9, <1>11 DEF ApplyCharge, MarkSubscribed, MarkCancelled, Applying
<1>12. CASE SaveCursor
  <2>1. /\ listener.pc = "handle" /\ cursor' = listener.to /\ UNCHANGED chain
        /\ listener' = IF listener.to + 1 <= listener.confirmed
                       THEN [listener EXCEPT !.pc = "scan", !.from = listener.to + 1]
                       ELSE Idle
      BY <1>12 DEF SaveCursor
  <2>2. listener.to \in 0 .. MaxBlocks
      BY <1>0 DEF ListenerRow
  <2>3. CASE listener.to + 1 <= listener.confirmed
    <3>0. listener.to + 1 \in 0 .. MaxBlocks
        BY <1>3, <2>2, <2>3
    <3>1. listener' \in ListenerRow
        BY <1>0, <2>1, <2>3, <3>0, NextScanRow
    <3> QED BY <1>0, <1>3, <2>1, <2>2, <2>3, <3>1 DEF ListenerRow, ScanIsConfirmed, chain
  <2>4. CASE ~(listener.to + 1 <= listener.confirmed)
      BY <2>1, <2>2, <2>4, IdleRow DEF ScanIsConfirmed
  <2> QED BY <2>3, <2>4
<1> QED
    BY <1>0, <1>4, <1>5, <1>6, <1>7, <1>8, <1>10, <1>11, <1>12, ListenerCases, IdleRow
    DEF ApplyCharge, MarkSubscribed, MarkCancelled, ReadSubscription, Sync, GetLogs, tables

-----------------------------------------------------------------------------
(* What a step does to the subscriptions *)

(* applyCharge adds a period; every other write of a subscription leaves    *)
(* the end of its paid time, and gives a grace only as ReadLapsed read it.  *)
LEMMA SubscriptionPart ==
    ASSUME IInv, [Next]_vars, ~ApplyCharge
    PROVE  /\ sub' \in [Users -> SubscriptionRow] /\ payment' = payment
           /\ \A u \in Users :
                  /\ sub'[u].end = sub[u].end
                  /\ sub'[u].graceEnd \in {sub[u].graceEnd, lapse.ends[u] + Grace}
<1>0. /\ sub \in [Users -> SubscriptionRow] /\ lapse \in LapseRow /\ listener \in ListenerRow
      /\ LogInHand /\ ScanIsConfirmed /\ ChainOK /\ WalletTypeOK
    BY TypeParts DEF IInv, TablesOK, TasksOK
<1>1. ASSUME NEW r \in Requests, AttachWallet(r)
      PROVE  /\ sub' \in [Users -> SubscriptionRow] /\ payment' = payment
             /\ \A u \in Users : sub'[u].end = sub[u].end /\ sub'[u].graceEnd = sub[u].graceEnd
  <2>1. request[r].user \in Users /\ request[r].wallet \in Wallets
      BY <1>0, <1>1, PartsOfType DEF AttachWallet, Respond, Parts, RequestsOK
  <2> QED BY <1>0, <1>1, <2>1 DEF AttachWallet, SubscriptionRow
<1>2. CASE MarkSubscribed
  <2>1. /\ listener.user \in Users /\ block[listener.log].wallet \in Wallets
    <3>1. listener.pc = "apply" /\ listener.log \in listener.queue /\ listener.user \in Users
        BY <1>0, <1>2 DEF MarkSubscribed, Applying, LogInHand
    <3>2. block[listener.log] # NoLog /\ block[listener.log] \in Logs
        BY <1>0, <3>1 DEF ScanIsConfirmed, ListenerRow, ChainOK
    <3> QED BY <3>1, <3>2, LogsHaveWallets
  <2> QED BY <1>0, <1>2, <2>1 DEF MarkSubscribed, SubscriptionRow, Standings
<1>3. CASE MarkCancelled
      BY <1>0, <1>3 DEF MarkCancelled, SubscriptionRow, Standings
<1>4. ASSUME NEW u \in Users, GiveGrace(u)
      PROVE  /\ sub' \in [Users -> SubscriptionRow] /\ payment' = payment
             /\ \A v \in Users :
                    /\ sub'[v].end = sub[v].end
                    /\ sub'[v].graceEnd \in {sub[v].graceEnd, lapse.ends[v] + Grace}
  <2>1. lapse.ends[u] + Grace \in Nat
      BY <1>0, SizesAssumption DEF LapseRow
  <2> DEFINE new == [sub[u] EXCEPT !.status = "GRACE", !.graceEnd = lapse.ends[u] + Grace]
  <2>2. new \in SubscriptionRow /\ new.end = sub[u].end /\ new.graceEnd = lapse.ends[u] + Grace
      BY <1>0, <2>1 DEF SubscriptionRow, Standings
  <2>3. sub' = [sub EXCEPT ![u] = new] /\ payment' = payment
      BY <1>0, <1>4 DEF GiveGrace, SubscriptionRow
  <2> QED BY <1>0, <2>2, <2>3
<1>5. CASE ExpireLapsed
  <2>1. \A u \in Users : sub'[u] \in {sub[u], [sub[u] EXCEPT !.status = "EXPIRED", !.tier = "FREE"]}
      BY <1>5 DEF ExpireLapsed
  <2>2. \A u \in Users : /\ sub'[u] \in SubscriptionRow
                        /\ sub'[u].end = sub[u].end /\ sub'[u].graceEnd = sub[u].graceEnd
      BY <1>0, <2>1, ZenonT(30) DEF SubscriptionRow, Standings, Tiers
  <2>3. sub' = [u \in Users |-> sub'[u]] /\ payment' = payment
      BY <1>5 DEF ExpireLapsed
  <2> QED BY <2>2, <2>3
<1>6. CASE UNCHANGED <<payment, sub>>
      BY <1>0, <1>6
<1> QED
    BY <1>1, <1>2, <1>3, <1>4, <1>5, <1>6
    DEF Next, ListenerStep, vars, tables, Mine, Reorg, Sync, GetLogs, FindOwner,
        ReadSubscription, SaveCursor, ReadLapsed, SyncFails, Crash

(* applyCharge itself: the payment is new, and the end is one period later. *)
LEMMA ChargePart ==
    ASSUME IInv, ApplyCharge
    PROVE  LET b == listener.log
               u == listener.user
               end == (IF sub[u].end > b THEN sub[u].end ELSE b) + Period
           IN  /\ u \in Users /\ b \in Heights /\ b + Confirmations <= head
               /\ block[b].event = "Charged" /\ payment[b] = Nobody
               /\ payment' = [payment EXCEPT ![b] = u]
               /\ sub' \in [Users -> SubscriptionRow]
               /\ sub'[u].end = end /\ sub'[u].graceEnd = 0
               /\ \A v \in Users \ {u} : sub'[v] = sub[v]
               /\ UNCHANGED <<block, head, lapse>>
<1> DEFINE b == listener.log
           u == listener.user
           end == (IF sub[u].end > b THEN sub[u].end ELSE b) + Period
<1>0. /\ sub \in [Users -> SubscriptionRow] /\ listener \in ListenerRow /\ ChainOK
      /\ LogInHand /\ ScanIsConfirmed
    BY TypeParts DEF IInv, TablesOK, TasksOK
<1>1. /\ listener.pc = "apply" /\ block[b].event = "Charged"
      /\ payment' = [payment EXCEPT ![b] = u]
      /\ UNCHANGED <<block, head, lapse>>
    BY DEF ApplyCharge, Applying, chain
<1>2. b \in listener.queue /\ u \in Users /\ listener.end = sub[u].end /\ payment[b] = Nobody
    BY <1>0, <1>1 DEF LogInHand
<1>3. /\ b \in Heights /\ block[b] # NoLog /\ b <= listener.to /\ listener.to <= listener.confirmed
      /\ listener.confirmed + Confirmations <= head
    BY <1>0, <1>1, <1>2 DEF ScanIsConfirmed, ListenerRow
<1>4. b + Confirmations <= head
    BY <1>0, <1>3, HeightsAreNumbers, SizesAssumption, BillingBoundsAssumption
    DEF ListenerRow, ChainOK
<1>5. block[b].wallet \in Wallets
    BY <1>0, <1>3, LogsHaveWallets DEF ChainOK
<1>6. end \in Nat
    BY <1>0, <1>2, <1>3, HeightsAreNumbers, SizesAssumption DEF SubscriptionRow
<1> DEFINE new == [tier |-> "PRO", status |-> "ACTIVE", end |-> end, graceEnd |-> 0,
                   payer |-> block[b].wallet]
<1>7. sub' = [sub EXCEPT ![u] = new]
    BY <1>2 DEF ApplyCharge
<1>8. new \in SubscriptionRow
    BY <1>5, <1>6 DEF SubscriptionRow, Tiers, Standings
<1>9. new.end = end /\ new.graceEnd = 0
    OBVIOUS
<1> HIDE DEF new, end
<1>10. sub' \in [Users -> SubscriptionRow] /\ sub'[u] = new /\ \A v \in Users \ {u} : sub'[v] = sub[v]
    BY <1>0, <1>2, <1>7, <1>8
<1> QED BY <1>1, <1>2, <1>3, <1>4, <1>9, <1>10 DEF end

-----------------------------------------------------------------------------
(* The conjuncts of the inductive invariant *)

LEMMA TypeStep ==
    ASSUME IInv, [Next]_vars
    PROVE  TypeOK'
<1>0. WalletTypeOK /\ ChainOK /\ TablesOK /\ TasksOK /\ MishapsOK
    BY TypeParts DEF IInv
<1>1. WalletTypeOK' /\ ChainOK'
    BY <1>0, WalletPart, ChainPart
<1>2. listener' \in ListenerRow /\ cursor' \in 0 .. MaxBlocks
    BY ScanPart
<1>3. payment' \in [Heights -> Users \cup {Nobody}] /\ sub' \in [Users -> SubscriptionRow]
  <2>1. CASE ApplyCharge
      BY <1>0, <2>1, ChargePart DEF TablesOK
  <2>2. CASE ~ApplyCharge
      BY <1>0, <2>2, SubscriptionPart DEF TablesOK
  <2> QED BY <2>1, <2>2
<1>4. lapse' \in LapseRow
  <2>1. CASE ReadLapsed
    <3> DEFINE ends == [u \in Users |->
                           IF sub[u].tier = "PRO" /\ sub[u].status = "ACTIVE" /\ sub[u].end < head
                           THEN sub[u].end ELSE 0]
    <3>1. lapse' = [pc |-> "grace", now |-> head, ends |-> ends]
        BY <2>1 DEF ReadLapsed
    <3>2. ends \in [Users -> Nat]
        BY <1>0 DEF TablesOK, SubscriptionRow
    <3> HIDE DEF ends
    <3> QED BY <1>0, <3>1, <3>2 DEF ChainOK, LapseRow
  <2>2. ASSUME NEW u \in Users, GiveGrace(u)
        PROVE  lapse' \in LapseRow
        BY <1>0, <2>2 DEF GiveGrace, TasksOK, LapseRow
  <2>3. CASE lapse' = NoLapse
        BY <2>3, NoLapseRow
  <2>4. CASE UNCHANGED lapse
        BY <1>0, <2>4 DEF TasksOK
  <2> QED
      BY <2>1, <2>2, <2>3, <2>4
      DEF Next, ListenerStep, vars, tasks, Mine, Reorg, Sync, GetLogs, FindOwner,
          ReadSubscription, ApplyCharge, MarkSubscribed, MarkCancelled, SaveCursor,
          AttachWallet, ExpireLapsed, SyncFails, Crash
<1>5. MishapsOK'
  <2>1. ASSUME NEW m \in {"reorg", "fault"}, mishaps' = [mishaps EXCEPT ![m] = @ + 1]
        PROVE  MishapsOK'
        BY <1>0, <2>1 DEF MishapsOK
  <2>2. CASE UNCHANGED mishaps
        BY <1>0, <2>2 DEF MishapsOK
  <2> QED
      BY <2>1, <2>2
      DEF Next, ListenerStep, vars, Mine, Reorg, Sync, GetLogs, FindOwner,
          ReadSubscription, ApplyCharge, MarkSubscribed, MarkCancelled, SaveCursor,
          AttachWallet, ReadLapsed, GiveGrace, ExpireLapsed, SyncFails, Crash
<1> QED BY <1>1, <1>2, <1>3, <1>4, <1>5, TypeParts DEF TablesOK, TasksOK

(* Nobody but the listener pays a log or moves the end of a period while it *)
(* has the log in hand.                                                     *)
LEMMA HandStep ==
    ASSUME IInv, [Next]_vars
    PROVE  LogInHand'
<1>0. /\ listener \in ListenerRow /\ LogInHand /\ ScanIsConfirmed /\ ChainOK
      /\ WalletTypeOK /\ sub \in [Users -> SubscriptionRow]
    BY TypeParts DEF IInv, TablesOK, TasksOK
<1>1. ASSUME listener' = listener, payment' = payment, ~ApplyCharge
      PROVE  LogInHand'
  <2>1. \A u \in Users : sub'[u].end = sub[u].end
      BY <1>1, SubscriptionPart
  <2>2. listener.pc \in {"owned", "apply"} => block'[listener.log] = block[listener.log]
    <3>1. listener.pc \in {"owned", "apply"} =>
              /\ listener.log \in Heights /\ listener.log <= listener.confirmed
              /\ listener.confirmed + Confirmations <= head
        BY <1>0, HeightsAreNumbers, BillingBoundsAssumption
        DEF LogInHand, ScanIsConfirmed, ListenerRow
    <3>2. listener.pc \in {"owned", "apply"} => listener.log + Confirmations <= head
        BY <1>0, <3>1, HeightsAreNumbers, SizesAssumption, BillingBoundsAssumption
        DEF ListenerRow, ChainOK
    <3> QED BY <3>1, <3>2, ChainPart
  <2> QED BY <1>0, <1>1, <2>1, <2>2 DEF LogInHand
<1>2. ASSUME listener'.pc \notin {"owned", "apply"}
      PROVE  LogInHand'
      BY <1>2 DEF LogInHand
<1>3. ASSUME NEW b \in Heights, FindOwner(b)
      PROVE  LogInHand'
  <2>1. b \in listener.queue /\ listener.pc = "handle"
      BY <1>3 DEF FindOwner, NextLog
  <2>2. block[b].wallet \in Wallets
      BY <1>0, <2>1, LogsHaveWallets DEF ScanIsConfirmed, ChainOK
  <2>3. OwnerOf(block[b].wallet) \in Users \cup {Nobody}
      BY <1>0, <2>2, OwnersAreUsers
  <2>4. \/ listener'.pc = "handle"
        \/ /\ listener'.pc = "owned" /\ listener'.log = b /\ listener'.queue = listener.queue
           /\ listener'.user = OwnerOf(block[b].wallet) /\ OwnerOf(block[b].wallet) # Nobody
      BY <1>0, <1>3, <2>1 DEF FindOwner, ListenerRow
  <2> QED BY <2>1, <2>3, <2>4 DEF LogInHand
<1>4. CASE ReadSubscription
  <2>1. /\ listener.pc = "owned"
        /\ listener.log \in listener.queue /\ listener.user \in Users
        /\ UNCHANGED <<sub, block, payment>>
      BY <1>0, <1>4 DEF ReadSubscription, LogInHand, tables, chain
  <2>2. CASE Skipped(listener.log, listener.user)
      BY <1>0, <1>2, <1>4, <2>2, HandledRow DEF ReadSubscription
  <2>3. CASE ~Skipped(listener.log, listener.user)
    <3>1. listener' = [listener EXCEPT !.pc = "apply", !.end = sub[listener.user].end]
        BY <1>4, <2>3 DEF ReadSubscription
    <3>2. /\ listener'.pc = "apply" /\ listener'.log = listener.log
          /\ listener'.queue = listener.queue /\ listener'.user = listener.user
          /\ listener'.end = sub[listener.user].end
        BY <1>0, <3>1 DEF ListenerRow
    <3> QED BY <2>1, <2>3, <3>2 DEF LogInHand, Skipped
  <2> QED BY <2>2, <2>3
<1>5. CASE ApplyCharge \/ MarkSubscribed \/ MarkCancelled
      BY <1>0, <1>2, <1>5, HandledRow DEF ApplyCharge, MarkSubscribed, MarkCancelled
<1>6. CASE Sync \/ GetLogs \/ SaveCursor \/ listener' = Idle
  <2>1. CASE Sync
      BY <1>2, <2>1 DEF Sync, Idle
  <2>2. CASE GetLogs
      BY <1>0, <1>2, <2>2 DEF GetLogs, ListenerRow
  <2>3. CASE SaveCursor
      BY <1>0, <1>2, <2>3, IdleRow DEF SaveCursor, ListenerRow
  <2> QED BY <1>2, <1>6, <2>1, <2>2, <2>3, IdleRow
<1> QED BY <1>1, <1>3, <1>4, <1>5, <1>6, ListenerCases

LEMMA GraceStep ==
    ASSUME IInv, [Next]_vars
    PROVE  GraceIsBounded'
<1>0. /\ sub \in [Users -> SubscriptionRow] /\ lapse \in LapseRow /\ GraceIsBounded /\ TypeOK'
    BY TypeParts, TypeStep DEF IInv, TablesOK, TasksOK
<1> USE SizesAssumption
<1>1. CASE ApplyCharge
  <2> DEFINE u == listener.user
  <2>1. u \in Users /\ sub'[u].graceEnd = 0 /\ sub'[u].end >= sub[u].end /\ sub'[u].end \in Nat
    <3>1. sub[u].end \in Nat /\ listener.log \in Nat
        BY <1>0, <1>1, ChargePart, HeightsAreNumbers DEF SubscriptionRow
    <3> QED BY <1>1, <3>1, ChargePart
  <2>2. \A v \in Users \ {u} : sub'[v] = sub[v]
      BY <1>1, ChargePart
  <2>3. lapse' = lapse
      BY <1>1, ChargePart
  <2>4. \A v \in Users : sub[v].end \in Nat /\ lapse.ends[v] \in Nat
      BY <1>0 DEF SubscriptionRow, LapseRow
  <2> QED BY <1>0, <2>1, <2>2, <2>3, <2>4 DEF GraceIsBounded
<1>2. CASE ~ApplyCharge
  <2>1. \A u \in Users : /\ sub'[u].end = sub[u].end
                        /\ sub'[u].graceEnd \in {sub[u].graceEnd, lapse.ends[u] + Grace}
      BY <1>2, SubscriptionPart
  <2>2. \A u \in Users : lapse'.ends[u] \in {lapse.ends[u], sub[u].end, 0}
    <3>1. CASE ReadLapsed
        BY <3>1 DEF ReadLapsed
    <3>2. ASSUME NEW v \in Users, GiveGrace(v)
          PROVE  \A u \in Users : lapse'.ends[u] \in {lapse.ends[u], sub[u].end, 0}
          BY <1>0, <3>2 DEF GiveGrace, LapseRow
    <3>3. CASE lapse' = NoLapse
        BY <3>3, NoLapseRow
    <3>4. CASE UNCHANGED lapse
        BY <3>4
    <3> QED
        BY <1>2, <3>1, <3>2, <3>3, <3>4
        DEF Next, ListenerStep, vars, tasks, Mine, Reorg, Sync, GetLogs, FindOwner,
            ReadSubscription, MarkSubscribed, MarkCancelled, SaveCursor,
            AttachWallet, ExpireLapsed, SyncFails, Crash
  <2>3. \A u \in Users : /\ sub[u].end \in Nat /\ sub[u].graceEnd \in Nat
                        /\ lapse.ends[u] \in Nat
      BY <1>0 DEF SubscriptionRow, LapseRow
  <2> QED BY <1>0, <2>1, <2>2, <2>3 DEF GraceIsBounded
<1> QED BY <1>1, <1>2

LEMMA CreditStep ==
    ASSUME IInv, [Next]_vars
    PROVE  CreditsAreFinal'
<1>0. CreditsAreFinal /\ payment \in [Heights -> Users \cup {Nobody}] /\ ChainOK /\ ChainOK'
    BY TypeParts, ChainPart DEF IInv, TablesOK
<1>1. \A b \in Heights : payment'[b] # Nobody =>
          block[b].event = "Charged" /\ b + Confirmations <= head
  <2>1. CASE ApplyCharge
      BY <1>0, <2>1, ChargePart DEF CreditsAreFinal
  <2>2. CASE ~ApplyCharge
      BY <1>0, <2>2, SubscriptionPart DEF CreditsAreFinal
  <2> QED BY <2>1, <2>2
<1> QED BY <1>0, <1>1, ChainPart, HeightsAreNumbers, SizesAssumption, BillingBoundsAssumption
        DEF CreditsAreFinal, ChainOK

-----------------------------------------------------------------------------
(* Theorems *)

LEMMA InitOK == Init => IInv
<1> SUFFICES ASSUME Init PROVE IInv
    OBVIOUS
<1>1. WalletTypeOK
    BY WalletTypeInit DEF Init
<1>2. ChainOK /\ MishapsOK
    BY BillingBoundsAssumption DEF Init, ChainOK, MishapsOK, Logs
<1>3. TablesOK
    BY BillingBoundsAssumption, NewSubscriptionRow DEF Init, TablesOK
<1>4. TasksOK
    BY IdleRow, NoLapseRow DEF Init, TasksOK
<1>5. ScanIsConfirmed /\ LogInHand /\ CreditsAreFinal
    BY IdleRow DEF Init, ScanIsConfirmed, LogInHand, CreditsAreFinal
<1>6. GraceIsBounded
  <2>1. \A u \in Users : lapse.ends[u] = 0
      BY NoLapseRow DEF Init
  <2>2. NewSubscription.end = 0 /\ NewSubscription.graceEnd = 0
      BY DEF NewSubscription
  <2>3. \A u \in Users : sub[u].end = 0 /\ sub[u].graceEnd = 0
      BY <2>2 DEF Init
  <2>4. 0 <= 0 /\ 0 <= 0 + Grace
      BY SizesAssumption
  <2> QED BY <2>1, <2>3, <2>4 DEF GraceIsBounded
<1> QED BY <1>1, <1>2, <1>3, <1>4, <1>5, <1>6, TypeParts DEF IInv

(* The inductive invariant of the listener, the subscriptions and the       *)
(* wallets: types, scans that no reorganisation reaches, a log in hand that *)
(* nobody else pays, bounded graces and final credits (sync, applyCharge,   *)
(* reconcileLapsed).                                                        *)
THEOREM Invariance == Spec => []IInv
<1>1. IInv /\ [Next]_vars => IInv'
    BY TypeStep, ScanPart, HandStep, GraceStep, CreditStep DEF IInv
<1> QED BY InitOK, <1>1, PTL DEF Spec

(* No charge that a reorganisation can still take back is ever credited     *)
(* (sync waits for CONFIRMATIONS).                                          *)
THEOREM CreditedOnceFinal == Spec => []CreditsAreFinal
<1>1. IInv => CreditsAreFinal
    BY DEF IInv
<1> QED BY <1>1, Invariance, PTL

(* However charges, cancellations, restarts and the lapse job interleave,   *)
(* nobody uses the paid features after the paid time and its grace          *)
(* (isProActive, applyCharge, reconcileLapsed).                             *)
THEOREM AccessEnds == Spec => []NoAccessBeyondGrace
<1>1. IInv => NoAccessBeyondGrace
  <2> SUFFICES ASSUME IInv, NEW u \in Users, IsProActive(sub[u], head)
               PROVE  head < sub[u].end + Grace
      BY DEF NoAccessBeyondGrace
  <2>1. /\ sub[u].end \in Nat /\ sub[u].graceEnd \in Nat /\ head \in Nat
        /\ sub[u].graceEnd <= sub[u].end + Grace
      BY TypeParts, BillingBoundsAssumption
      DEF IInv, TablesOK, SubscriptionRow, ChainOK, GraceIsBounded
  <2> QED BY <2>1, SizesAssumption DEF IsProActive
<1> QED BY <1>1, Invariance, PTL

(* Whatever the listener reads again and whenever it restarts, each charge  *)
(* buys one period for one user, once (applyCharge refines PaidTime).       *)
THEOREM PaidTimeImplemented == Spec => ImplementsPaidTime
<1>1. Init => Paid!Init
  <2> SUFFICES ASSUME Init PROVE Paid!Init
      OBVIOUS
  <2>1. NewSubscription.end = 0
      BY DEF NewSubscription
  <2> QED BY <2>1 DEF Init, Paid!Init
<1>2. ASSUME IInv, [Next]_vars
      PROVE  [Paid!Next]_Paid!paidTime
  <2>1. CASE ApplyCharge
    <3>1. PICK u \in Users, b \in Heights : u = listener.user /\ b = listener.log
        BY <1>2, <2>1, ChargePart
    <3>2. payment[b] = Nobody /\ payment' = [payment EXCEPT ![b] = u]
        BY <1>2, <2>1, <3>1, ChargePart
    <3>3. /\ sub'[u].end = (IF sub[u].end > b THEN sub[u].end ELSE b) + Period
          /\ \A v \in Users \ {u} : sub'[v].end = sub[v].end
        BY <1>2, <2>1, <3>1, ChargePart
    <3> DEFINE until == [v \in Users |-> sub[v].end]
    <3>4. [v \in Users |-> sub'[v].end]
            = [until EXCEPT ![u] = (IF until[u] > b THEN until[u] ELSE b) + Period]
        BY <3>3
    <3>5. Paid!Credit(u, b)
        BY <3>2, <3>4 DEF Paid!Credit
    <3> QED BY <3>5 DEF Paid!Next
  <2>2. CASE ~ApplyCharge
      BY <1>2, <2>2, SubscriptionPart DEF Paid!paidTime
  <2> QED BY <2>1, <2>2
<1> QED BY <1>1, <1>2, Invariance, PTL DEF Spec, ImplementsPaidTime, Paid!Spec

-----------------------------------------------------------------------------
(* The owner the listener found is the holder of the wallet, whoever has it *)
(* by the time the log is applied.                                          *)
PayerInv ==
    /\ ProvenInv
    /\ CreditsGoToThePayer
    /\ listener.pc \in {"owned", "apply"} =>
           listener.user = HolderOf[block[listener.log].wallet]

LEMMA ProvenPart ==
    ASSUME WalletTypeOK, ProvenInv, [Next]_vars, [UnlinksWait]_vars
    PROVE  ProvenInv'
<1>0. [UnlinksWait]_wallet
    BY DEF vars, wallet
<1>1. CASE [WalletNext]_wallet
    BY <1>0, <1>1, ProvenStep
<1>2. CASE Crash
    BY <1>2, RestingRow DEF Crash, ProvenInv, VerifiedMeansProven
<1> QED
    BY <1>1, <1>2
    DEF Next, ListenerStep, vars, wallet, WalletNext, Mine, Reorg, Sync, GetLogs, FindOwner,
        ReadSubscription, ApplyCharge, MarkSubscribed, MarkCancelled, SaveCursor, AttachWallet,
        ReadLapsed, GiveGrace, ExpireLapsed, SyncFails

LEMMA PayerStep ==
    ASSUME IInv, PayerInv, [Next]_vars, [UnlinksWait]_vars
    PROVE  PayerInv'
<1>0. /\ listener \in ListenerRow /\ LogInHand /\ ScanIsConfirmed /\ ChainOK /\ WalletTypeOK
      /\ payment \in [Heights -> Users \cup {Nobody}] /\ CreditsAreFinal
    BY TypeParts DEF IInv, TablesOK, TasksOK
<1>1. ProvenInv'
    BY <1>0, ProvenPart DEF PayerInv
<1>2. listener.pc \in {"owned", "apply"} =>
          listener.log \in Heights /\ block'[listener.log] = block[listener.log]
  <2> SUFFICES ASSUME listener.pc \in {"owned", "apply"}
               PROVE  listener.log \in Heights /\ block'[listener.log] = block[listener.log]
      OBVIOUS
  <2>1. /\ listener.log \in Heights /\ listener.log <= listener.confirmed
        /\ listener.confirmed + Confirmations <= head
      BY <1>0, HeightsAreNumbers, BillingBoundsAssumption
      DEF LogInHand, ScanIsConfirmed, ListenerRow
  <2>2. listener.log + Confirmations <= head
      BY <1>0, <2>1, HeightsAreNumbers, SizesAssumption, BillingBoundsAssumption
      DEF ListenerRow, ChainOK
  <2> QED BY <2>1, <2>2, ChainPart
<1>3. CreditsGoToThePayer'
  <2>1. \A b \in Heights : payment[b] # Nobody => block'[b] = block[b]
      BY <1>0, ChainPart DEF CreditsAreFinal
  <2>2. CASE ApplyCharge
    <3>1. /\ listener.pc = "apply"
          /\ payment' = [payment EXCEPT ![listener.log] = listener.user]
        BY <2>2 DEF ApplyCharge, Applying
    <3> QED BY <1>0, <1>2, <2>1, <3>1 DEF PayerInv, CreditsGoToThePayer
  <2>3. CASE ~ApplyCharge
      BY <2>1, <2>3, SubscriptionPart DEF PayerInv, CreditsGoToThePayer
  <2> QED BY <2>2, <2>3
<1>4. listener'.pc \in {"owned", "apply"} =>
          listener'.user = HolderOf[block'[listener'.log].wallet]
  <2>1. CASE listener' = listener
      BY <1>2, <2>1 DEF PayerInv
  <2>2. CASE listener'.pc \notin {"owned", "apply"}
      BY <2>2
  <2>3. ASSUME NEW b \in Heights, FindOwner(b), listener'.pc \in {"owned", "apply"}
        PROVE  listener'.user = HolderOf[block'[listener'.log].wallet]
    <3>1. b \in listener.queue /\ listener.pc = "handle" /\ block' = block
        BY <2>3 DEF FindOwner, NextLog, chain
    <3>2. block[b].wallet \in Wallets
        BY <1>0, <3>1, LogsHaveWallets DEF ScanIsConfirmed, ChainOK
    <3>3. /\ listener'.log = b /\ listener'.user = OwnerOf(block[b].wallet)
          /\ OwnerOf(block[b].wallet) # Nobody
        BY <1>0, <2>3, <3>1 DEF FindOwner, ListenerRow
    <3>4. OwnerOf(block[b].wallet) = HolderOf[block[b].wallet]
        BY <3>2, <3>3 DEF OwnerOf, PayerInv, ProvenInv, VerifiedMeansProven
    <3> QED BY <3>1, <3>3, <3>4
  <2>4. CASE ReadSubscription
    <3>1. listener.pc = "owned" /\ block' = block
        BY <2>4 DEF ReadSubscription, chain
    <3>2. \/ listener' = LogHandled
          \/ listener'.log = listener.log /\ listener'.user = listener.user
        BY <1>0, <2>4 DEF ReadSubscription, ListenerRow
    <3> QED BY <1>0, <3>1, <3>2, HandledRow DEF PayerInv
  <2>5. CASE ApplyCharge \/ MarkSubscribed \/ MarkCancelled
      BY <1>0, <2>5, HandledRow DEF ApplyCharge, MarkSubscribed, MarkCancelled
  <2>6. CASE Sync
      BY <2>6 DEF Sync, Idle
  <2>7. CASE GetLogs
      BY <1>0, <2>7 DEF GetLogs, ListenerRow
  <2>8. CASE SaveCursor
      BY <1>0, <2>8, IdleRow DEF SaveCursor, ListenerRow
  <2> QED BY <2>1, <2>3, <2>4, <2>5, <2>6, <2>7, <2>8, ListenerCases, IdleRow
<1> QED BY <1>1, <1>3, <1>4 DEF PayerInv

(* A charge is credited to the user who holds the wallet it was pulled from *)
(* unless a wallet's row was removed between verify's check and its write   *)
(* (ownerOf, handle, applyCharge; an unlink or another owner at any other   *)
(* time, while the log is in hand too, changes nothing).                    *)
THEOREM PayersAreCredited == Spec /\ [][UnlinksWait]_vars => []CreditsGoToThePayer
<1>1. Init => PayerInv
    BY IdleRow, ProvenInit DEF Init, PayerInv, CreditsGoToThePayer
<1>2. IInv /\ PayerInv /\ [Next]_vars /\ [UnlinksWait]_vars => PayerInv'
    BY PayerStep
<1>3. PayerInv => CreditsGoToThePayer
    BY DEF PayerInv
<1> QED BY <1>1, <1>2, <1>3, Invariance, PTL DEF Spec

-----------------------------------------------------------------------------
(* Nothing is skipped *)

(* Logs below the head only disappear, and a wallet that is in the chain is *)
(* not proven afresh: what is due was due before.                           *)
LEMMA DueStep ==
    ASSUME IInv, [Next]_vars, [ProvenFirst]_vars, NEW b \in Heights, b <= head, Due(b)'
    PROVE  Due(b)
<1>0. ChainOK /\ b \in Nat /\ head \in Nat
    BY TypeParts, HeightsAreNumbers, BillingBoundsAssumption DEF IInv, ChainOK
<1>1. block'[b] = block[b]
  <2>1. ASSUME NEW log \in Logs, Mine(log)
        PROVE  block'[b] = block[b]
      BY <1>0, <2>1 DEF Mine, ChainOK
  <2>2. ASSUME NEW c \in Heights, Reorg(c)
        PROVE  block'[b] = block[b]
      BY <1>0, <2>2 DEF Reorg, Due, NoLog
  <2>3. CASE UNCHANGED chain
      BY <2>3 DEF chain
  <2> QED
      BY <2>1, <2>2, <2>3
      DEF Next, ListenerStep, vars, chain, Sync, GetLogs, FindOwner,
          ReadSubscription, ApplyCharge, MarkSubscribed, MarkCancelled, SaveCursor, AttachWallet,
          ReadLapsed, GiveGrace, ExpireLapsed, SyncFails, Crash
<1>2. block[b].event = "Charged" /\ block[b].wallet \in Wallets
    BY <1>0, <1>1, LogsHaveWallets DEF Due, NoLog, ChainOK
<1>3. PICK w \in Wallets : w = block[b].wallet
    BY <1>2
<1>4. OwnerOf(w)' # Nobody
    BY <1>1, <1>3 DEF Due, OwnerOf
<1>5. OwnerOf(w) # Nobody
  <2>1. CASE ProvenFirst
      BY <1>3, <1>4, <2>1 DEF ProvenFirst
  <2>2. CASE UNCHANGED vars
      BY <1>4, <2>2 DEF vars, wallet, OwnerOf
  <2> QED BY <2>1, <2>2
<1> QED BY <1>2, <1>3, <1>5 DEF Due

(* What is credited stays so.                                               *)
LEMMA PaymentsStay ==
    ASSUME IInv, [Next]_vars, NEW b \in Heights, payment[b] # Nobody
    PROVE  payment'[b] # Nobody
<1>1. CASE ApplyCharge
  <2>1. listener.user \in Users /\ payment \in [Heights -> Users \cup {Nobody}]
      BY <1>1, TypeParts DEF ApplyCharge, Applying, IInv, LogInHand, TablesOK
  <2> QED BY <1>1, <2>1, WalletsAssumption DEF ApplyCharge
<1>2. CASE ~ApplyCharge
    BY <1>2, SubscriptionPart
<1> QED BY <1>1, <1>2

(* A log leaves the queue when it is credited, or is no charge of a proven  *)
(* wallet.                                                                  *)
LEMMA ScanStep ==
    ASSUME IInv, ScanIsComplete, [Next]_vars, [ProvenFirst]_vars
    PROVE  ScanIsComplete'
<1>0. /\ listener \in ListenerRow /\ LogInHand /\ ScanIsConfirmed /\ ChainOK /\ WalletTypeOK
      /\ payment \in [Heights -> Users \cup {Nobody}] /\ cursor \in Nat /\ head \in Nat
      /\ listener.from \in Nat /\ listener.to \in Nat /\ listener.confirmed \in Nat
      /\ head' \in Nat /\ head' >= head /\ Confirmations \in Nat
  <2>1. /\ listener \in ListenerRow /\ LogInHand /\ ScanIsConfirmed /\ ChainOK /\ WalletTypeOK
        /\ payment \in [Heights -> Users \cup {Nobody}] /\ cursor \in 0 .. MaxBlocks
      BY TypeParts DEF IInv, TablesOK, TasksOK
  <2>2. ChainOK' /\ head' >= head
      BY ChainPart
  <2> QED BY <2>1, <2>2, SizesAssumption, BillingBoundsAssumption DEF ListenerRow, ChainOK
<1>1. ASSUME listener.pc \notin {"idle", "scan"}, NEW b \in listener.from .. listener.to
      PROVE  /\ b \in Heights /\ b <= head /\ (Due(b)' => Due(b))
             /\ payment[b] # Nobody => payment'[b] # Nobody
  <2>1. b \in Nat /\ b >= 1 /\ b <= listener.confirmed /\ listener.confirmed <= head
      BY <1>0, <1>1 DEF ScanIsConfirmed, ScanIsComplete
  <2>2. b \in Heights /\ b <= head
      BY <1>0, <2>1, BillingBoundsAssumption DEF Heights, ChainOK
  <2> QED BY <2>2, DueStep, PaymentsStay
<1>2. CASE /\ UNCHANGED <<cursor, payment>>
           /\ listener' = Idle \/ listener' = listener
  <2>1. cursor' <= head'
      BY <1>0, <1>2 DEF ScanIsComplete
  <2>2. ASSUME listener' = listener, listener.pc \notin {"idle", "scan"},
               NEW b \in (listener.from .. listener.to) \ listener.queue, Due(b)'
        PROVE  payment'[b] # Nobody
      BY <1>1, <2>2 DEF ScanIsComplete
  <2> QED BY <1>2, <2>1, <2>2, IdleRow DEF ScanIsComplete
<1>3. CASE Sync
  <2>1. listener' = [Idle EXCEPT !.pc = "scan", !.confirmed = head - Confirmations,
                                !.from = cursor + 1] /\ cursor' = cursor
      BY <1>3 DEF Sync, tables
  <2>2. listener'.pc = "scan" /\ listener'.from = cursor + 1
      BY <2>1 DEF Idle
  <2> QED BY <1>0, <2>1, <2>2 DEF ScanIsComplete
<1>4. CASE GetLogs
  <2>1. PICK to : /\ listener' = [listener EXCEPT !.pc = "handle", !.to = to,
                            !.queue = {b \in listener.from .. to : block[b] # NoLog}]
                  /\ listener.pc = "scan" /\ UNCHANGED <<chain, cursor, payment, wallet>>
      BY <1>4, Zenon DEF GetLogs, tables
  <2>2. /\ listener'.pc = "handle" /\ listener'.from = listener.from /\ listener'.to = to
        /\ listener'.queue = {b \in listener.from .. to : block[b] # NoLog}
      BY <1>0, <2>1 DEF ListenerRow
  <2>3. ASSUME NEW b \in (listener'.from .. listener'.to) \ listener'.queue
        PROVE  ~Due(b)'
    <3>1. block[b] = NoLog /\ block' = block
        BY <2>1, <2>2, <2>3 DEF chain
    <3> QED BY <3>1 DEF Due, NoLog
  <2>4. cursor' = cursor /\ listener.from = cursor + 1
      BY <1>0, <2>1 DEF ScanIsComplete
  <2> QED BY <1>0, <2>1, <2>2, <2>3, <2>4 DEF ScanIsComplete
<1>5. ASSUME listener'.from = listener.from, listener'.to = listener.to, cursor' = cursor,
             listener.pc \notin {"idle", "scan"},
             \A b \in listener.from .. listener.to :
                 /\ b \in listener.queue /\ b \notin listener'.queue /\ Due(b)' => payment'[b] # Nobody
                 /\ b \notin listener.queue => b \notin listener'.queue
      PROVE  ScanIsComplete'
  <2>1. ASSUME NEW b \in (listener'.from .. listener'.to) \ listener'.queue, Due(b)'
        PROVE  payment'[b] # Nobody
      BY <1>1, <1>5, <2>1 DEF ScanIsComplete
  <2> QED BY <1>0, <1>5, <2>1 DEF ScanIsComplete
<1>6. ASSUME NEW c \in Heights, FindOwner(c)
      PROVE  ScanIsComplete'
  <2>1. listener.pc = "handle" /\ c \in listener.queue /\ UNCHANGED <<wallet, chain, cursor>>
      BY <1>6 DEF FindOwner, NextLog, tables
  <2>2. /\ listener'.from = listener.from /\ listener'.to = listener.to
        /\ \/ listener'.queue = listener.queue
           \/ /\ listener'.queue = listener.queue \ {c}
              /\ (block[c] = NoLog \/ OwnerOf(block[c].wallet) = Nobody)
    <3> DEFINE owner == IF block[c] = NoLog THEN Nobody ELSE OwnerOf(block[c].wallet)
    <3>1. listener' = IF owner = Nobody
                      THEN [listener EXCEPT !.queue = listener.queue \ {c}]
                      ELSE [listener EXCEPT !.pc = "owned", !.log = c, !.user = owner]
        BY <1>6 DEF FindOwner
    <3>2. owner = Nobody => block[c] = NoLog \/ OwnerOf(block[c].wallet) = Nobody
        OBVIOUS
    <3> HIDE DEF owner
    <3>3. CASE owner = Nobody
      <4>1. listener' = [listener EXCEPT !.queue = listener.queue \ {c}]
          BY <3>1, <3>3, Zenon
      <4>2. listener'.from = listener.from /\ listener'.to = listener.to
            /\ listener'.queue = listener.queue \ {c}
          BY <1>0, <4>1 DEF ListenerRow
      <4> QED BY <3>2, <3>3, <4>2
    <3>4. CASE owner # Nobody
      <4>1. listener' = [listener EXCEPT !.pc = "owned", !.log = c, !.user = owner]
          BY <3>1, <3>4, Zenon
      <4>2. listener'.from = listener.from /\ listener'.to = listener.to
            /\ listener'.queue = listener.queue
          BY <1>0, <4>1 DEF ListenerRow
      <4> QED BY <4>2
    <3> QED BY <3>3, <3>4
  <2>3. c \notin listener'.queue => ~Due(c)'
      BY <2>1, <2>2 DEF Due, NoLog, OwnerOf, wallet, chain
  <2> QED BY <1>5, <2>1, <2>2, <2>3
<1>7. ASSUME NEW log, log = listener.log, listener' = LogHandled, cursor' = cursor,
             listener.pc \in {"owned", "apply"}, Due(log)' => payment'[log] # Nobody
      PROVE  ScanIsComplete'
  <2>1. /\ listener'.from = listener.from /\ listener'.to = listener.to
        /\ listener'.queue = listener.queue \ {listener.log}
      BY <1>0, <1>7, HandledRow
  <2> QED BY <1>5, <1>7, <2>1
<1>8. CASE ReadSubscription
  <2>1. /\ listener.pc = "owned" /\ UNCHANGED <<wallet, chain, cursor, payment>>
        /\ IF Skipped(listener.log, listener.user) THEN listener' = LogHandled
           ELSE listener' = [listener EXCEPT !.pc = "apply", !.end = sub[listener.user].end]
      BY <1>8 DEF ReadSubscription, tables
  <2>2. CASE Skipped(listener.log, listener.user)
    <3>1. PICK log : log = listener.log
        OBVIOUS
    <3>2. Due(log)' => payment'[log] # Nobody
        BY <2>1, <2>2, <3>1 DEF Skipped, Due, chain
    <3> QED BY <1>7, <2>1, <2>2, <3>1, <3>2
  <2>3. CASE ~Skipped(listener.log, listener.user)
    <3>1. /\ listener'.from = listener.from /\ listener'.to = listener.to
          /\ listener'.queue = listener.queue
        BY <1>0, <2>1, <2>3 DEF ListenerRow
    <3> QED BY <1>5, <2>1, <3>1
  <2> QED BY <2>2, <2>3
<1>9. CASE ApplyCharge
  <2>1. /\ listener' = LogHandled /\ cursor' = cursor /\ listener.pc = "apply"
        /\ payment' = [payment EXCEPT ![listener.log] = listener.user]
      BY <1>9 DEF ApplyCharge, Applying
  <2>2. listener.user \in Users /\ listener.log \in Heights
      BY <1>0, <2>1 DEF LogInHand, ListenerRow
  <2>3. PICK log : log = listener.log
      OBVIOUS
  <2>4. payment'[log] # Nobody
      BY <1>0, <2>1, <2>2, <2>3, WalletsAssumption
  <2> QED BY <1>7, <2>1, <2>3, <2>4
<1>10. CASE MarkSubscribed \/ MarkCancelled
  <2>1. /\ listener' = LogHandled /\ cursor' = cursor /\ listener.pc = "apply"
        /\ block' = block /\ block[listener.log].event \in {"Subscribed", "Unsubscribed"}
      BY <1>10 DEF MarkSubscribed, MarkCancelled, Applying, chain
  <2>2. PICK log : log = listener.log
      OBVIOUS
  <2>3. ~Due(log)'
      BY <2>1, <2>2 DEF Due
  <2> QED BY <1>7, <2>1, <2>2, <2>3
<1>11. CASE SaveCursor
  <2>1. /\ listener.pc = "handle" /\ listener.queue = {} /\ cursor' = listener.to
        /\ \/ listener' = [listener EXCEPT !.pc = "scan", !.from = listener.to + 1]
           \/ listener' = Idle
      BY <1>11 DEF SaveCursor
  <2>2. cursor' <= head'
      BY <1>0, <2>1 DEF ScanIsConfirmed
  <2>3. CASE listener' = [listener EXCEPT !.pc = "scan", !.from = listener.to + 1]
    <3>1. listener'.pc = "scan" /\ listener'.from = listener.to + 1
        BY <1>0, <2>3 DEF ListenerRow
    <3> QED BY <2>1, <2>2, <3>1 DEF ScanIsComplete
  <2>4. CASE listener' = Idle
      BY <2>2, <2>4, IdleRow DEF ScanIsComplete
  <2> QED BY <2>1, <2>3, <2>4
<1> QED BY <1>2, <1>3, <1>4, <1>6, <1>8, <1>9, <1>10, <1>11, ListenerCases

LEMMA CursorStep ==
    ASSUME IInv, ScanIsComplete, NothingIsSkipped, [Next]_vars, [ProvenFirst]_vars
    PROVE  NothingIsSkipped'
<1>0. /\ listener \in ListenerRow /\ ScanIsConfirmed /\ head \in 0 .. MaxBlocks
      /\ cursor \in Nat /\ cursor <= head
      /\ listener.to \in Nat /\ listener.confirmed \in Nat /\ Confirmations \in Nat
  <2>1. /\ listener \in ListenerRow /\ ScanIsConfirmed /\ ChainOK /\ cursor \in 0 .. MaxBlocks
      BY TypeParts DEF IInv, TablesOK, TasksOK
  <2> QED BY <2>1, SizesAssumption, BillingBoundsAssumption
          DEF ListenerRow, ChainOK, ScanIsComplete
<1>1. \A b \in 1 .. cursor : b \in Heights /\ b <= head
    BY <1>0, BillingBoundsAssumption DEF Heights
<1>2. \A b \in 1 .. cursor : Due(b)' => payment'[b] # Nobody
    BY <1>1, DueStep, PaymentsStay DEF NothingIsSkipped
<1>3. CASE SaveCursor
  <2>1. listener.pc = "handle" /\ listener.queue = {} /\ cursor' = listener.to
      BY <1>3 DEF SaveCursor
  <2>2. listener.from = cursor + 1 /\ listener.to <= head
      BY <1>0, <2>1 DEF ScanIsComplete, ScanIsConfirmed
  <2>3. ASSUME NEW b \in listener.from .. listener.to, Due(b)'
        PROVE  payment'[b] # Nobody
    <3>1. b \in Heights /\ b <= head
        BY <1>0, <2>2, BillingBoundsAssumption DEF Heights
    <3>2. Due(b)
        BY <2>3, <3>1, DueStep
    <3> QED BY <2>1, <3>1, <3>2, PaymentsStay DEF ScanIsComplete
  <2>4. \A b \in 1 .. cursor' : b \in 1 .. cursor \/ b \in listener.from .. listener.to
      BY <1>0, <2>1, <2>2
  <2> QED BY <1>2, <2>3, <2>4 DEF NothingIsSkipped
<1>4. CASE cursor' = cursor
    BY <1>2, <1>4 DEF NothingIsSkipped
<1>5. ASSUME ~SaveCursor PROVE cursor' = cursor
    BY <1>5, ListenerCases
       DEF Sync, GetLogs, FindOwner, ReadSubscription, ApplyCharge, MarkSubscribed, MarkCancelled,
           tables
<1> QED BY <1>3, <1>4, <1>5

(* The cursor leaves no charge of a proven wallet behind, whatever fails,   *)
(* when wallets are proven before the chain has a log of them (sync).       *)
THEOREM NothingSkipped == Spec /\ [][ProvenFirst]_vars => []NothingIsSkipped
<1>1. Init => ScanIsComplete /\ NothingIsSkipped
    BY IdleRow DEF Init, ScanIsComplete, NothingIsSkipped
<1>2. /\ IInv /\ ScanIsComplete /\ NothingIsSkipped /\ [Next]_vars /\ [ProvenFirst]_vars
      => ScanIsComplete' /\ NothingIsSkipped'
    BY ScanStep, CursorStep
<1> QED BY <1>1, <1>2, Invariance, PTL DEF Spec

-----------------------------------------------------------------------------
(* The front end is each of its pages, at rest while another one is shown   *)
(* (pages/ of the front end).                                               *)
LEMMA EachPageIsItself == PagesSpec => SettingsSpec /\ ListsSpec /\ BillingPageSpec /\ FormSpec
<1>1. PagesInit => SettingsInit /\ ListsInit /\ BillingPageInit /\ FormInit
    BY DEF PagesInit
<1>2. [PagesNext]_pages => /\ [SettingsNext]_settings /\ [ListsNext]_lists
                           /\ [BillingPageNext]_billingPage /\ [FormNext]_botForm
    BY DEF PagesNext, pages
<1> QED BY <1>1, <1>2, PTL DEF PagesSpec, SettingsSpec, ListsSpec, BillingPageSpec, FormSpec

-----------------------------------------------------------------------------
(* The billing page: an address that a tab loads with, or pays from, is     *)
(* proven, for the request of a tab that waits for its proof is about the   *)
(* address it shows.                                                        *)

TabRow == [pc : {"loading", "ready", "blank", "switching", "challenging", "signing", "verifying"},
           address : Wallets \cup {NoWallet}, nonce : Nat, verified : BOOLEAN, isPro : BOOLEAN]
SlotRow == [pc : {"idle", "issue", "confirm", "verified"},
            user : Users \cup {Nobody}, wallet : Wallets \cup {NoWallet}]

TabsOK ==
    /\ tab \in [Requests -> TabRow]
    /\ request \in [Requests -> SlotRow]
    /\ nonces \in Nat /\ plan \in BOOLEAN

ProofIsShown(r) ==
    /\ request[r].pc = "verified" => request[r].wallet \in proven
    /\ tab[r].pc = "verifying" /\ request[r].pc # "idle" => request[r].wallet = tab[r].address
    /\ tab[r].pc = "loading" /\ tab[r].address # NoWallet => tab[r].address \in proven
    /\ tab[r].verified /\ ~tab[r].isPro /\ tab[r].address # NoWallet => tab[r].address \in proven

BillingPageInv == TabsOK /\ (\A r \in Requests : ProofIsShown(r)) /\ SubscribersAreProven

(* The request of a tab that has none is one like any other.                 *)
LEMMA RestingSlot == Resting \in SlotRow /\ Resting.pc = "idle"
BY DEF Resting, SlotRow

(* A page that is loading knows no wallet and shows no proof.               *)
LEMMA MountingRow ==
    /\ Mounting \in TabRow /\ Mounting.pc = "loading" /\ Mounting.address = NoWallet
    /\ ~Mounting.verified
BY DEF Mounting, TabRow

(* The billing page opens with nothing connected and nothing proved.        *)
LEMMA BillingPageStart == BillingPageInit => BillingPageInv
<1> SUFFICES ASSUME BillingPageInit PROVE BillingPageInv
    OBVIOUS
<1>1. /\ \A r \in Requests : tab[r] = Mounting /\ request[r] = Resting
      /\ nonces = 0 /\ plan = FALSE /\ sent = {}
      /\ tab \in [Requests -> TabRow] /\ request \in [Requests -> SlotRow]
    BY RestingSlot, MountingRow DEF BillingPageInit, WalletInit
<1>2. \A r \in Requests : ProofIsShown(r)
    BY <1>1, RestingSlot, MountingRow DEF ProofIsShown
<1> QED BY <1>1, <1>2 DEF BillingPageInv, TabsOK, SubscribersAreProven

(* A step of one tab and its request, which forgets no proof and pays       *)
(* nothing.                                                                 *)
LEMMA TabStep ==
    ASSUME BillingPageInv, NEW r \in Requests, NEW new \in TabRow, NEW slot \in SlotRow,
           tab' = [tab EXCEPT ![r] = new], request' = [request EXCEPT ![r] = slot],
           nonces' \in Nat, plan' = plan, proven \subseteq proven',
           \A t \in sent' : t \in sent \/ t.what \notin {"approve", "subscribe"},
           slot.pc = "verified" => slot.wallet \in proven',
           new.pc = "verifying" /\ slot.pc # "idle" => slot.wallet = new.address,
           new.pc = "loading" /\ new.address # NoWallet => new.address \in proven',
           new.verified /\ ~new.isPro /\ new.address # NoWallet => new.address \in proven'
    PROVE  BillingPageInv'
<1>1. /\ tab'[r] = new /\ request'[r] = slot
      /\ \A q \in Requests \ {r} : tab'[q] = tab[q] /\ request'[q] = request[q]
    BY DEF BillingPageInv, TabsOK
<1>2. TabsOK'
    BY DEF BillingPageInv, TabsOK
<1>3. ASSUME NEW q \in Requests PROVE ProofIsShown(q)'
  <2>1. CASE q = r
      BY <1>1, <2>1 DEF ProofIsShown
  <2>2. CASE q # r
      BY <1>1, <2>2 DEF BillingPageInv, ProofIsShown
  <2> QED BY <2>1, <2>2
<1>4. SubscribersAreProven'
    BY DEF BillingPageInv, SubscribersAreProven
<1> QED BY <1>2, <1>3, <1>4 DEF BillingPageInv

(* What is offered to whom.                                                 *)
LEMMA OffersOf ==
    ASSUME NEW r \in Requests
    PROVE  /\ "connect" \in Offers(r) => ~tab[r].verified
           /\ "unsubscribe" \in Offers(r) => tab[r].isPro /\ tab[r].pc = "ready"
           /\ \A what \in {"approve", "subscribe"} :
                  what \in Offers(r) => tab[r].verified /\ ~tab[r].isPro
BY DEF Offers, TabAt

(* A tab or a request that stays as it is.                                  *)
LEMMA AsItIs ==
    ASSUME TabsOK, NEW r \in Requests
    PROVE  /\ tab = [tab EXCEPT ![r] = tab[r]] /\ tab[r] \in TabRow
           /\ request = [request EXCEPT ![r] = request[r]] /\ request[r] \in SlotRow
BY DEF TabsOK

(* Every click, answer, reload and change of the server keeps the invariant. *)
LEMMA BillingPageStep ==
    ASSUME BillingPageInv, [BillingPageNext]_billingPage
    PROVE  BillingPageInv'
<1>0. TabsOK /\ \A r \in Requests : ProofIsShown(r) /\ tab[r] \in TabRow /\ request[r] \in SlotRow
    BY DEF BillingPageInv, TabsOK
<1>1. CASE UNCHANGED billingPage \/ LinksChange
  <2>1. UNCHANGED <<tab, request, nonces, plan, sent, proven>>
      BY <1>1 DEF billingPage, billing, wallet, LinksChange, Unlink, Expire
  <2> QED BY <2>1 DEF BillingPageInv, TabsOK, ProofIsShown, SubscribersAreProven
<1>2. CASE PlanChanges
  <2>1. UNCHANGED <<tab, request, nonces, sent, proven>> /\ plan' \in BOOLEAN
      BY <1>0, <1>2 DEF wallet, PlanChanges, TabsOK
  <2> QED BY <2>1 DEF BillingPageInv, TabsOK, ProofIsShown, SubscribersAreProven
<1>3. ASSUME NEW r \in Requests, NEW new \in TabRow, tab' = [tab EXCEPT ![r] = new], PageOnly,
             new.pc # "verifying",
             new.pc = "loading" /\ new.address # NoWallet => new.address \in proven,
             new.verified /\ ~new.isPro /\ new.address # NoWallet => new.address \in proven
      PROVE  BillingPageInv'
  <2>1. UNCHANGED <<request, nonces, plan, sent, proven>>
      BY <1>3 DEF PageOnly, wallet
  <2> QED BY <1>0, <1>3, <2>1, AsItIs, TabStep DEF TabsOK, ProofIsShown
<1>4. ASSUME NEW r \in Requests, Shows(r) PROVE BillingPageInv'
  <2> DEFINE known == \E w \in Wallets : OwnerOf(w) = User
             new == [tab[r] EXCEPT !.pc = "ready", !.isPro = plan, !.verified = known]
  <2>1. known \in BOOLEAN
      OBVIOUS
  <2>2. tab' = [tab EXCEPT ![r] = new] /\ PageOnly /\ tab[r].pc = "loading"
      BY <1>0, <1>4 DEF Shows, TabAt, TabsOK
  <2> HIDE DEF known
  <2>3. new \in TabRow /\ new.pc = "ready" /\ new.address = tab[r].address
      BY <1>0, <2>1 DEF TabRow, TabsOK
  <2>4. new.address # NoWallet => new.address \in proven
      BY <1>0, <2>2, <2>3 DEF ProofIsShown
  <2> HIDE DEF new
  <2> QED BY <1>3, <2>2, <2>3, <2>4
<1>5. ASSUME NEW r \in Requests, Remount(r) PROVE BillingPageInv'
  <2>1. UNCHANGED <<request, nonces, plan, sent, proven>> /\ tab' = [tab EXCEPT ![r] = Mounting]
      BY <1>5 DEF Remount, wallet
  <2> QED BY <1>0, <2>1, AsItIs, MountingRow, TabStep DEF TabsOK, ProofIsShown
<1>6. ASSUME NEW r \in Requests, NEW pc \in {"ready", "blank", "switching"},
             NEW address \in Wallets \cup {NoWallet}, PageOnly,
             tab' = [tab EXCEPT ![r].pc = pc, ![r].address = address],
             address = tab[r].address \/ tab[r].isPro \/ ~tab[r].verified
      PROVE  BillingPageInv'
  <2> DEFINE new == [tab[r] EXCEPT !.pc = pc, !.address = address]
  <2>1. tab' = [tab EXCEPT ![r] = new]
      BY <1>0, <1>6 DEF TabsOK
  <2>2. /\ new \in TabRow /\ new.pc = pc /\ new.address = address
        /\ new.verified = tab[r].verified /\ new.isPro = tab[r].isPro
      BY <1>0 DEF TabRow
  <2> HIDE DEF new
  <2> QED BY <1>0, <1>3, <1>6, <2>1, <2>2 DEF ProofIsShown
<1>7. ASSUME NEW r \in Requests, Aborts(r) PROVE BillingPageInv'
  <2>1. PICK pc \in {"ready", "blank"} : tab' = [tab EXCEPT ![r].pc = pc] /\ PageOnly
      BY <1>7 DEF Aborts, Goes
  <2>2. tab' = [tab EXCEPT ![r].pc = pc, ![r].address = tab[r].address]
        /\ tab[r].address \in Wallets \cup {NoWallet}
      BY <1>0, <2>1 DEF TabsOK, TabRow
  <2> QED BY <1>6, <2>1, <2>2
<1>8. ASSUME NEW r \in Requests, NEW w \in Wallets, Connect(r, w) PROVE BillingPageInv'
  <2>1. tab' = [tab EXCEPT ![r].pc = "switching", ![r].address = w] /\ PageOnly /\ ~tab[r].verified
      BY <1>8, OffersOf DEF Connect
  <2> QED BY <1>6, <2>1
<1>9. ASSUME NEW r \in Requests, NEW new \in TabRow, NEW slot \in SlotRow,
             tab' = [tab EXCEPT ![r] = new], request' = [request EXCEPT ![r] = slot],
             nonces' \in Nat, ServiceOnly, slot.pc # "verified",
             new.pc \in {"ready", "challenging", "signing"} \/ new = tab[r],
             new.pc = "verifying" /\ slot.pc # "idle" => slot.wallet = new.address,
             new.address = tab[r].address, new.verified = tab[r].verified, new.isPro = tab[r].isPro
      PROVE  BillingPageInv'
    BY <1>0, <1>9, TabStep DEF ServiceOnly, ProofIsShown
<1>10. ASSUME NEW r \in Requests, NEW pc \in {"challenging", "signing", "verifying", "loading"},
              NEW nonce \in Nat
       PROVE  LET new == [tab[r] EXCEPT !.pc = pc, !.nonce = nonce] IN
              /\ new \in TabRow /\ new.pc = pc /\ new.address = tab[r].address
              /\ new.verified = tab[r].verified /\ new.isPro = tab[r].isPro
    BY <1>0 DEF TabRow
<1>11. ASSUME NEW r \in Requests, NEW pc \in {"challenging", "verifying", "loading"}
       PROVE  LET new == [tab[r] EXCEPT !.pc = pc] IN
              /\ new \in TabRow /\ new.pc = pc /\ new.address = tab[r].address
              /\ new.verified = tab[r].verified /\ new.isPro = tab[r].isPro
    BY <1>0 DEF TabRow
<1>12. ASSUME NEW r \in Requests, AskChallenge(r) PROVE BillingPageInv'
  <2> DEFINE new == [tab[r] EXCEPT !.pc = "challenging"]
             asked == [pc |-> "issue", user |-> User, wallet |-> tab[r].address]
  <2>1. /\ tab' = [tab EXCEPT ![r] = new] /\ nonces' = nonces /\ ServiceOnly
        /\ request[r].pc = "idle"
        /\ \/ request' = [request EXCEPT ![r] = asked]
           \/ request' = request
      BY <1>0, <1>12 DEF AskChallenge, Challenge, Goes, TabsOK
  <2>2. asked \in SlotRow /\ asked.pc = "issue"
      BY <1>0, UserAssumption DEF SlotRow, TabRow
  <2>3. PICK slot \in SlotRow : request' = [request EXCEPT ![r] = slot] /\ slot.pc # "verified"
      BY <1>0, <2>1, <2>2, AsItIs
  <2>4. /\ new \in TabRow /\ new.pc = "challenging" /\ new.address = tab[r].address
        /\ new.verified = tab[r].verified /\ new.isPro = tab[r].isPro
      BY <1>11
  <2> HIDE DEF new
  <2> QED BY <1>0, <1>9, <2>1, <2>3, <2>4 DEF TabsOK
<1>13. ASSUME NEW r \in Requests, GetChallenge(r) PROVE BillingPageInv'
  <2>1. /\ request' = [request EXCEPT ![r] = Resting] /\ nonces' = nonces + 1 /\ ServiceOnly
        /\ \/ tab' = [tab EXCEPT ![r].pc = "signing", ![r].nonce = nonces']
           \/ tab' = tab
      BY <1>13 DEF GetChallenge, IssueNonce
  <2>2. nonces' \in Nat
      BY <1>0, <2>1 DEF TabsOK
  <2>3. PICK nonce \in Nat : nonce = nonces'
      BY <2>2
  <2> DEFINE new == [tab[r] EXCEPT !.pc = "signing", !.nonce = nonce]
  <2>4. tab' = [tab EXCEPT ![r] = new] \/ tab' = tab
      BY <1>0, <2>1, <2>3 DEF TabsOK
  <2>5. /\ new \in TabRow /\ new.pc = "signing" /\ new.address = tab[r].address
        /\ new.verified = tab[r].verified /\ new.isPro = tab[r].isPro
      BY <1>10
  <2> HIDE DEF new
  <2>6. CASE tab' = [tab EXCEPT ![r] = new]
      BY <1>0, <1>9, <2>1, <2>2, <2>5, <2>6, RestingSlot
  <2>7. CASE tab' = tab
      BY <1>0, <1>9, <2>1, <2>2, <2>7, AsItIs, RestingSlot
  <2> QED BY <2>4, <2>6, <2>7
<1>14. ASSUME NEW r \in Requests, AskVerify(r) PROVE BillingPageInv'
  <2> DEFINE new == [tab[r] EXCEPT !.pc = "verifying"]
             slot == [pc |-> "confirm", user |-> User, wallet |-> tab[r].address]
  <2>1. /\ tab' = [tab EXCEPT ![r] = new] /\ request' = [request EXCEPT ![r] = slot]
        /\ UNCHANGED <<nonces, plan, sent, proven>>
      BY <1>0, <1>14 DEF AskVerify, Verify, Goes, ServiceOnly, TabsOK
  <2>2. slot \in SlotRow /\ slot.pc = "confirm" /\ slot.wallet = tab[r].address
      BY <1>0, UserAssumption DEF SlotRow, TabRow
  <2>3. /\ new \in TabRow /\ new.pc = "verifying" /\ new.address = tab[r].address
        /\ new.verified = tab[r].verified /\ new.isPro = tab[r].isPro
      BY <1>11
  <2> HIDE DEF new, slot
  <2> QED BY <1>0, <2>1, <2>2, <2>3, TabStep DEF TabsOK, ProofIsShown
<1>15. ASSUME NEW r \in Requests, Proved(r) PROVE BillingPageInv'
  <2>1. UNCHANGED <<tab, plan, sent>>
      BY <1>15 DEF Proved
  <2>2. CASE Confirm(r) /\ proven' = proven \cup {request[r].wallet}
    <3> DEFINE slot == [request[r] EXCEPT !.pc = "verified"]
    <3>1. request' = [request EXCEPT ![r] = slot] /\ nonces' = nonces + 1 /\ request[r].pc = "confirm"
        BY <1>0, <2>2 DEF Confirm, TabsOK
    <3>2. slot \in SlotRow /\ slot.pc = "verified" /\ slot.wallet = request[r].wallet
        BY <1>0 DEF SlotRow
    <3> HIDE DEF slot
    <3>3. slot.wallet \in proven' /\ nonces' \in Nat /\ proven \subseteq proven'
        BY <1>0, <2>2, <3>1, <3>2 DEF TabsOK
    <3>4. /\ tab[r].pc = "verifying" => slot.wallet = tab[r].address
          /\ tab[r].pc = "loading" /\ tab[r].address # NoWallet => tab[r].address \in proven'
          /\ tab[r].verified /\ ~tab[r].isPro /\ tab[r].address # NoWallet =>
                 tab[r].address \in proven'
        BY <1>0, <3>1, <3>2, <3>3 DEF ProofIsShown
    <3> QED BY <1>0, <2>1, <3>1, <3>2, <3>3, <3>4, AsItIs, TabStep
  <2>3. CASE ConfirmNothing(r) /\ UNCHANGED proven
    <3>1. request' = [request EXCEPT ![r] = Resting] /\ nonces' = nonces
        BY <2>3 DEF ConfirmNothing
    <3> QED BY <1>0, <2>1, <2>3, <3>1, AsItIs, RestingSlot, TabStep DEF TabsOK, ProofIsShown
  <2> QED BY <1>15, <2>2, <2>3 DEF Proved
<1>16. ASSUME NEW r \in Requests, GetProof(r) PROVE BillingPageInv'
  <2>1. /\ request' = [request EXCEPT ![r] = Resting] /\ request[r].pc = "verified"
        /\ UNCHANGED <<nonces, plan, sent, proven>>
      BY <1>16 DEF GetProof, Respond, ServiceOnly
  <2> DEFINE new == [tab[r] EXCEPT !.pc = "loading"]
  <2>2. CASE tab[r].pc = "verifying"
    <3>1. tab' = [tab EXCEPT ![r] = new]
        BY <1>0, <1>16, <2>2 DEF GetProof, TabAt, Goes, TabsOK
    <3>2. /\ new \in TabRow /\ new.pc = "loading" /\ new.address = tab[r].address
          /\ new.verified = tab[r].verified /\ new.isPro = tab[r].isPro
        BY <1>11
    <3> HIDE DEF new
    <3>3. tab[r].address \in proven
        BY <1>0, <2>1, <2>2 DEF ProofIsShown
    <3> QED BY <1>0, <2>1, <3>1, <3>2, <3>3, RestingSlot, TabStep DEF TabsOK
  <2>3. CASE tab[r].pc # "verifying"
    <3>1. tab' = tab
        BY <1>16, <2>3 DEF GetProof, TabAt
    <3> QED BY <1>0, <2>1, <2>3, <3>1, AsItIs, RestingSlot, TabStep DEF TabsOK, ProofIsShown
  <2> QED BY <2>2, <2>3
<1>17. ASSUME NEW r \in Requests, NEW what \in {"approve", "subscribe"}, Pay(r, what)
       PROVE  BillingPageInv'
  <2>1. /\ UNCHANGED <<tab, request, nonces, plan, proven>> /\ tab[r].address # NoWallet
        /\ sent' = sent \cup {[what |-> what, from |-> tab[r].address]}
        /\ tab[r].verified /\ ~tab[r].isPro
      BY <1>17, OffersOf DEF Pay, Transact, wallet
  <2>2. tab[r].address \in proven
      BY <1>0, <2>1 DEF ProofIsShown
  <2> QED BY <2>1, <2>2 DEF BillingPageInv, TabsOK, ProofIsShown, SubscribersAreProven
<1>18. ASSUME NEW r \in Requests, Unsubscribe(r) PROVE BillingPageInv'
  <2>1. PICK from \in Wallets \cup {NoWallet} : tab' = [tab EXCEPT ![r].address = from]
      BY <1>0, <1>18 DEF Unsubscribe, TabRow, UserWallets
  <2> DEFINE new == [tab[r] EXCEPT !.address = from]
  <2>2. tab' = [tab EXCEPT ![r] = new]
      BY <1>0, <2>1 DEF TabsOK
  <2>3. /\ new \in TabRow /\ new.pc = tab[r].pc /\ new.address = from
        /\ new.verified = tab[r].verified /\ new.isPro = tab[r].isPro
      BY <1>0 DEF TabRow
  <2>4. /\ UNCHANGED <<request, nonces, plan, proven>>
        /\ \A t \in sent' : t \in sent \/ t.what \notin {"approve", "subscribe"}
      BY <1>18 DEF Unsubscribe, Transact, wallet
  <2>5. tab[r].isPro /\ tab[r].pc = "ready"
      BY <1>18, OffersOf DEF Unsubscribe
  <2> HIDE DEF new
  <2>6. request[r].pc = "verified" => request[r].wallet \in proven'
      BY <1>0, <2>4 DEF ProofIsShown
  <2>7. request' = [request EXCEPT ![r] = request[r]] /\ request[r] \in SlotRow /\ nonces' \in Nat
      BY <1>0, <2>4, AsItIs DEF TabsOK
  <2> QED BY <2>2, <2>3, <2>4, <2>5, <2>6, <2>7, TabStep
<1> QED
    BY <1>1, <1>2, <1>4, <1>5, <1>7, <1>8, <1>12, <1>13, <1>14, <1>15, <1>16, <1>17, <1>18
    DEF BillingPageNext

(* Approvals and subscriptions only come from wallets the user has proved,  *)
(* for any number of tabs, wallets, reloads and requests (pages/billing).   *)
THEOREM SubscribersProveFirst == BillingPageSpec => []SubscribersAreProven
<1>1. BillingPageInv => SubscribersAreProven
    BY DEF BillingPageInv
<1> QED BY <1>1, BillingPageStart, BillingPageStep, PTL DEF BillingPageSpec

-----------------------------------------------------------------------------
(* The settings: a save that is on its way has a body the DTO has let       *)
(* through, which names a loss limit only if there is one, so that the row  *)
(* only gets rules that were judged, and loses no limit.                    *)

Obeyable(rules) ==
    /\ \A i, j \in DOMAIN rules : rules[i].symbol = rules[j].symbol => i = j
    /\ \A n \in DOMAIN rules :
           /\ \A side \in Sides : rules[n][side] \in Prices
           /\ ~Crossed(rules[n].minBuyPrice, rules[n].maxBuyPrice)
           /\ ~Crossed(rules[n].minSellPrice, rules[n].maxSellPrice)

TaskOK(k) ==
    /\ DOMAIN task[k] = {"pc", "patch", "found"}
    /\ task[k].pc \in {"find", "create", "reread", "update"} /\ task[k].patch # Null =>
           BodyIsValid(task[k].patch) /\ (task[k].patch.limit = Null \/ task[k].patch.limit # 0)
    /\ task[k].pc = "update" => task[k].patch # Null
    /\ task[k].pc = "idle" => task[k].patch = Null

SettingsInv ==
    /\ task = [k \in Tasks |-> task[k]] /\ \A k \in Tasks : TaskOK(k)
    /\ row # Null => Obeyable(row.rules)

(* No tab has a request yet, and the row, if there is one, is the default's. *)
LEMMA SettingsStart == SettingsInit => SettingsInv
<1> SUFFICES ASSUME SettingsInit PROVE SettingsInv
    OBVIOUS
<1>1. task = [k \in Tasks |-> NoTask]
    BY DEF SettingsInit
<1>2. \A k \in Tasks : TaskOK(k)
    BY <1>1 DEF TaskOK, NoTask
<1>3. row = OldRow => Obeyable(row.rules)
  <2> DEFINE rule == [emptyRule(CHOOSE p \in Pairs : TRUE) EXCEPT !.maxBuyPrice = 1]
  <2>1. rule.minBuyPrice = 0 /\ rule.maxBuyPrice = 1 /\ rule.minSellPrice = 0 /\ rule.maxSellPrice = 0
      BY DEF emptyRule
  <2>2. OldRow.rules = <<rule>>
      BY DEF OldRow
  <2> HIDE DEF rule
  <2>3. <<rule>>[1] = rule /\ DOMAIN <<rule>> = {1}
      OBVIOUS
  <2>4. \A side \in Sides : rule[side] \in Prices
      BY <2>1, PricesAssumption DEF Sides, Prices
  <2> QED BY <2>1, <2>2, <2>3, <2>4 DEF Obeyable, Crossed
<1> QED BY <1>1, <1>2, <1>3 DEF SettingsInit, SettingsInv

(* A step of one request.                                                   *)
LEMMA RequestStep ==
    ASSUME SettingsInv, NEW k \in Tasks, NEW new, task' = [task EXCEPT ![k] = new],
           DOMAIN new = {"pc", "patch", "found"},
           new.pc \in {"find", "create", "reread", "update"} /\ new.patch # Null =>
               BodyIsValid(new.patch) /\ (new.patch.limit = Null \/ new.patch.limit # 0),
           new.pc = "update" => new.patch # Null,
           new.pc = "idle" => new.patch = Null,
           row' # Null => Obeyable(row'.rules)
    PROVE  SettingsInv'
<1>1. task'[k] = new
    BY DEF SettingsInv
<1>2. \A q \in Tasks \ {k} : task'[q] = task[q]
    BY DEF SettingsInv
<1>3. task' = [q \in Tasks |-> task'[q]]
    BY DEF SettingsInv
<1>4. ASSUME NEW q \in Tasks PROVE TaskOK(q)'
  <2>1. CASE q = k
      BY <1>1, <2>1 DEF TaskOK
  <2>2. CASE q # k
      BY <1>2, <2>2 DEF SettingsInv, TaskOK
  <2> QED BY <2>1, <2>2
<1> QED BY <1>3, <1>4 DEF SettingsInv

(* A request goes on with its body, which has been judged, or ends.         *)
LEMMA GoesOn ==
    ASSUME SettingsInv, NEW k \in Tasks, NEW new, task' = [task EXCEPT ![k] = new],
           DOMAIN new = {"pc", "patch", "found"}, new.patch = task[k].patch,
           \/ task[k].pc \in {"find", "create", "reread"}
           \/ new.pc \in {"failed", "answered"},
           new.pc = "update" => task[k].patch # Null,
           new.pc # "idle",
           row' # Null => Obeyable(row'.rules)
    PROVE  SettingsInv'
BY RequestStep DEF SettingsInv, TaskOK

(* A request goes on to its next await with the body it came with.          *)
LEMMA NextPc ==
    ASSUME SettingsInv, NEW k \in Tasks, NEW pc \in {"create", "reread", "failed"},
           task' = [task EXCEPT ![k].pc = pc],
           task[k].pc \in {"find", "create", "reread"} \/ pc = "failed",
           row' # Null => Obeyable(row'.rules)
    PROVE  SettingsInv'
<1> DEFINE new == [task[k] EXCEPT !.pc = pc]
<1>1. task' = [task EXCEPT ![k] = new]
    BY DEF SettingsInv
<1>2. DOMAIN new = {"pc", "patch", "found"} /\ new.pc = pc /\ new.patch = task[k].patch
    BY DEF SettingsInv, TaskOK
<1> HIDE DEF new
<1> QED BY <1>1, <1>2, GoesOn

(* A request has read the row, and goes on with its body.                   *)
LEMMA NextFound ==
    ASSUME SettingsInv, NEW k \in Tasks, NEW pc \in {"update", "answered"}, NEW found,
           task' = [task EXCEPT ![k].pc = pc, ![k].found = found],
           task[k].pc \in {"find", "create", "reread"} \/ pc = "answered",
           task[k].patch # Null \/ pc = "answered",
           row' # Null => Obeyable(row'.rules)
    PROVE  SettingsInv'
<1> DEFINE new == [task[k] EXCEPT !.pc = pc, !.found = found]
<1>1. task' = [task EXCEPT ![k] = new]
    BY DEF SettingsInv
<1>2. DOMAIN new = {"pc", "patch", "found"} /\ new.pc = pc /\ new.patch = task[k].patch
    BY DEF SettingsInv, TaskOK
<1> HIDE DEF new
<1> QED BY <1>1, <1>2, GoesOn

(* What a request does when it has the row.                                 *)
LEMMA HasStep ==
    ASSUME SettingsInv, NEW k \in Tasks, NEW found, task' = Has(k, found),
           task[k].pc \in {"find", "create", "reread"}, row' # Null => Obeyable(row'.rules)
    PROVE  SettingsInv'
<1>1. CASE task[k].patch = Null
  <2>1. task' = [task EXCEPT ![k].pc = "answered", ![k].found = found]
      BY <1>1 DEF Has
  <2> QED BY <2>1, NextFound
<1>2. CASE task[k].patch # Null
  <2>1. task' = [task EXCEPT ![k].pc = "update", ![k].found = found]
      BY <1>2 DEF Has
  <2> QED BY <1>2, <2>1, NextFound
<1> QED BY <1>1, <1>2

(* Every step of a tab, of the service and of the runner keeps the          *)
(* invariant.                                                                *)
LEMMA SettingsStep ==
    ASSUME SettingsInv, [SettingsNext]_settings
    PROVE  SettingsInv'
<1>0. /\ row # Null => Obeyable(row.rules)
      /\ \A k \in Tasks : TaskOK(k)
      /\ Obeyable(<<>>)
    BY DEF SettingsInv, Obeyable
<1>1. CASE UNCHANGED <<row, task>>
    BY <1>1 DEF SettingsInv, TaskOK
<1>2. ASSUME NEW k \in Tasks, FindRow(k) PROVE SettingsInv'
  <2>1. CASE row # Null
      BY <1>0, <1>2, <2>1, HasStep DEF FindRow, At
  <2>2. CASE row = Null
    <3>1. task' = [task EXCEPT ![k].pc = "create"] /\ row' = row /\ task[k].pc = "find"
        BY <1>2, <2>2 DEF FindRow, At
    <3> QED BY <1>0, <3>1, NextPc
  <2> QED BY <2>1, <2>2
<1>3. ASSUME NEW k \in Tasks, CreateRow(k) PROVE SettingsInv'
  <2>1. CASE row' = Defaults /\ task' = Has(k, Defaults)
      BY <1>0, <1>3, <2>1, HasStep DEF CreateRow, At, Defaults
  <2>2. CASE row' = row /\ task' = [task EXCEPT ![k].pc = "reread"]
      BY <1>0, <1>3, <2>2, NextPc DEF CreateRow, At
  <2> QED BY <1>3, <2>1, <2>2 DEF CreateRow
<1>4. ASSUME NEW k \in Tasks, ReadAgain(k) PROVE SettingsInv'
    BY <1>0, <1>4, HasStep DEF ReadAgain, At
<1>5. ASSUME NEW k \in Tasks, Update(k) PROVE SettingsInv'
  <2> DEFINE patch == task[k].patch
             saved == [limit |-> IF patch.limit = Null THEN row.limit ELSE patch.limit,
                       rules |-> patch.rules]
  <2>1. task[k].pc = "update" /\ BodyIsValid(patch)
      BY <1>0, <1>5 DEF Update, At, TaskOK
  <2>2. CASE task' = [task EXCEPT ![k].pc = "failed"] /\ row' = row
      BY <1>0, <2>2, NextPc
  <2>3. CASE /\ RulesAreValid(patch.rules) /\ row' = saved
             /\ task' = [task EXCEPT ![k].pc = "answered", ![k].found = saved]
    <3>1. Obeyable(row'.rules)
        BY <2>1, <2>3 DEF BodyIsValid, RulesAreValid, Obeyable
    <3> HIDE DEF saved
    <3> QED BY <2>3, <3>1, NextFound
  <2> QED BY <1>5, <2>2, <2>3 DEF Update
<1>6. ASSUME NEW k \in Tasks, task' = [task EXCEPT ![k] = NoTask], row' = row PROVE SettingsInv'
  <2>1. DOMAIN NoTask = {"pc", "patch", "found"} /\ NoTask.pc = "idle" /\ NoTask.patch = Null
      BY DEF NoTask
  <2> QED BY <1>0, <1>6, <2>1, RequestStep
<1>7. CASE RunnerAsks
  <2>1. Runner \in Tasks /\ task[Runner].pc = "idle" /\ row' = row
        /\ task' = [task EXCEPT ![Runner].pc = "find"]
      BY <1>7 DEF RunnerAsks, At, Tasks
  <2> DEFINE new == [task[Runner] EXCEPT !.pc = "find"]
  <2>2. task' = [task EXCEPT ![Runner] = new]
      BY <2>1 DEF SettingsInv
  <2>3. DOMAIN new = {"pc", "patch", "found"} /\ new.pc = "find" /\ new.patch = Null
      BY <1>0, <2>1 DEF TaskOK
  <2> HIDE DEF new
  <2> QED BY <1>0, <2>1, <2>2, <2>3, RequestStep
<1>8. CASE RunnerHasIt
    BY <1>6, <1>8 DEF RunnerHasIt, Tasks
<1>9. ASSUME NEW t \in Tabs, Load(t) PROVE SettingsInv'
  <2>1. <<t, "load">> \in Tasks /\ row' = row
        /\ task' = [task EXCEPT ![<<t, "load">>] = [NoTask EXCEPT !.pc = "find"]]
      BY <1>9 DEF Load, Tasks
  <2> DEFINE new == [NoTask EXCEPT !.pc = "find"]
  <2>2. DOMAIN new = {"pc", "patch", "found"} /\ new.patch = Null /\ new.pc = "find"
      BY DEF NoTask
  <2> HIDE DEF new
  <2> QED BY <1>0, <2>1, <2>2, RequestStep DEF new
<1>10. ASSUME NEW t \in Tabs, Edit(t) PROVE SettingsInv'
    BY <1>1, <1>10 DEF Edit
<1>11. ASSUME NEW t \in Tabs, Save(t) PROVE SettingsInv'
  <2> DEFINE body == Body(page[t].draft)
             new == [NoTask EXCEPT !.pc = IF BodyIsValid(body) THEN "find" ELSE "failed",
                                   !.patch = body]
  <2>1. <<t, "save">> \in Tasks /\ row' = row /\ task' = [task EXCEPT ![<<t, "save">>] = new]
      BY <1>11 DEF Save, Tasks
  <2>2. body.limit # 0 \/ body.limit = Null
      BY DEF Body
  <2> HIDE DEF body
  <2>3. /\ DOMAIN new = {"pc", "patch", "found"} /\ new.patch = body
        /\ new.pc = IF BodyIsValid(body) THEN "find" ELSE "failed"
      BY DEF NoTask
  <2> HIDE DEF new
  <2> QED BY <1>0, <2>1, <2>2, <2>3, RequestStep
<1>12. ASSUME NEW t \in Tabs, NEW kind_ \in {"load", "save"}, Got(t, kind_) \/ Failed(t, kind_)
       PROVE  SettingsInv'
    BY <1>6, <1>12 DEF Got, Failed, Tasks
<1> QED
    BY <1>1, <1>2, <1>3, <1>4, <1>5, <1>7, <1>8, <1>9, <1>10, <1>11, <1>12
    DEF SettingsNext, settings

(* Rules that were judged leave a price to buy at and one to sell at.       *)
LEMMA OpenBounds ==
    ASSUME NEW lo \in Prices, NEW hi \in Prices, ~Crossed(lo, hi)
    PROVE  \E price \in 1 .. MaxPrice : ~Blocks(lo, hi, price)
<1>1. CASE hi > 0
  <2>1. hi \in 1 .. MaxPrice /\ ~Blocks(lo, hi, hi)
      BY <1>1, PricesAssumption DEF Prices, Crossed, Blocks
  <2> QED BY <2>1
<1>2. CASE ~(hi > 0) /\ lo > 0
  <2>1. lo \in 1 .. MaxPrice /\ ~Blocks(lo, hi, lo)
      BY <1>2, PricesAssumption DEF Prices, Blocks
  <2> QED BY <2>1
<1>3. CASE ~(hi > 0) /\ ~(lo > 0)
  <2>1. 1 \in 1 .. MaxPrice /\ ~Blocks(lo, hi, 1)
      BY <1>3, PricesAssumption DEF Prices, Blocks
  <2> QED BY <2>1
<1> QED BY <1>1, <1>2, <1>3

(* Rules that can be obeyed leave a price of each side that is not blocked. *)
LEMMA ObeyableRules ==
    ASSUME NEW rules, Obeyable(rules), NEW n \in DOMAIN rules, NEW r, r = rules[n]
    PROVE  /\ \E price \in 1 .. MaxPrice : ~Blocks(r.minBuyPrice, r.maxBuyPrice, price)
           /\ \E price \in 1 .. MaxPrice : ~Blocks(r.minSellPrice, r.maxSellPrice, price)
<1>1. /\ r.minBuyPrice \in Prices /\ r.maxBuyPrice \in Prices
      /\ r.minSellPrice \in Prices /\ r.maxSellPrice \in Prices
    BY DEF Obeyable, Sides
<1> QED BY <1>1, OpenBounds DEF Obeyable

(* The invariant of the settings, in every state.                           *)
LEMMA SettingsInvariance == SettingsSpec => []SettingsInv
BY SettingsStart, SettingsStep, PTL DEF SettingsSpec

(* The rules that are stored can be obeyed, however many tabs edit and save *)
(* them at once, and whatever they send (SettingsService.update).           *)
THEOREM RulesStayObeyable == SettingsSpec => []RulesCanBeObeyed
<1>1. SettingsInv => RulesCanBeObeyed
    BY ObeyableRules DEF SettingsInv, Obeyable, RulesCanBeObeyed
<1> QED BY <1>1, SettingsInvariance, PTL

(* No save of a stale tab and no first request loses a loss limit           *)
(* (SettingsService.get and update, settings.vue onSave).                   *)
THEOREM LimitsAreKept == SettingsSpec => LimitsStay
<1> DEFINE Kept == row # Null /\ row.limit \notin {Null, 0} => row'.limit \notin {Null, 0}
<1>1. SettingsInv /\ [SettingsNext]_settings => [Kept]_settings
  <2> SUFFICES ASSUME SettingsInv, SettingsNext, row # Null, row.limit \notin {Null, 0}
               PROVE  row'.limit \notin {Null, 0}
      OBVIOUS
  <2>1. ASSUME NEW k \in Tasks, Update(k), row' # row
        PROVE  row'.limit \notin {Null, 0}
    <3>1. /\ task[k].patch # Null /\ task[k].pc = "update"
          /\ row' = [limit |-> IF task[k].patch.limit = Null THEN row.limit ELSE task[k].patch.limit,
                     rules |-> task[k].patch.rules]
        BY <2>1 DEF Update, At, SettingsInv, TaskOK
    <3>2. task[k].patch.limit = Null \/ task[k].patch.limit # 0
        BY <3>1 DEF SettingsInv, TaskOK
    <3> QED BY <3>1, <3>2
  <2>2. CASE row' = row
      BY <2>2
  <2> QED
      BY <2>1, <2>2 DEF SettingsNext, FindRow, CreateRow, ReadAgain, RunnerAsks, RunnerHasIt, Load,
                        Edit, Save, Got, Failed
<1> QED BY <1>1, SettingsInvariance, PTL DEF SettingsSpec, LimitsStay

-----------------------------------------------------------------------------
(* Induction and recursion over numbers, as in BotRunnerProofs: what the    *)
(* lists of the list pages are made by.                                     *)

(* Every set of numbers has a least one.                                    *)
LEMMA Least ==
  ASSUME NEW T \in SUBSET Nat, T # {}
  PROVE  \E x \in T : \A y \in T : x <= y
<1> DEFINE U == {0 .. n : n \in T}
           R == StrictSubsetOrdering(Nat)
<1>1. U \subseteq FiniteSubsetsOf(Nat) /\ U # {}
  <2>1. \A n \in Nat : IsFiniteSet(0 .. n) /\ 0 .. n \in SUBSET Nat
    BY FS_Interval
  <2> QED BY <2>1 DEF FiniteSubsetsOf
<1>2. IsWellFoundedOn(R, FiniteSubsetsOf(Nat))
  BY FS_StrictSubsetOrderingWellFounded
<1> HIDE DEF U, R
<1>3. PICK s \in U : \A t \in U : <<t, s>> \notin R
  BY <1>1, <1>2, WFMin
<1>4. PICK x \in T : s = 0 .. x
  BY DEF U
<1>5. ASSUME NEW y \in T, y < x PROVE FALSE
  <2>1. 0 .. y \in U /\ 0 .. y \subseteq 0 .. x /\ x \in 0 .. x /\ x \notin 0 .. y
    BY <1>5 DEF U
  <2>2. <<0 .. y, 0 .. x>> \in R
    <3>1. 0 .. y \in SUBSET Nat /\ 0 .. x \in SUBSET Nat
      BY <1>5
    <3> QED BY <2>1, <3>1, Zenon DEF R, StrictSubsetOrdering
  <2> QED BY <2>1, <2>2, <1>3, <1>4
<1> QED BY <1>5

(* A set with 0 that has with a number the next one has them all.  Written  *)
(* about a set rather than a predicate, which no prover here could take.    *)
LEMMA Induction ==
  ASSUME NEW S, 0 \in S, \A n \in Nat : n \in S => n + 1 \in S
  PROVE  Nat \subseteq S
<1> SUFFICES ASSUME Nat \ S # {} PROVE FALSE
  OBVIOUS
<1>1. PICK x \in Nat \ S : \A y \in Nat \ S : x <= y
  BY Least
<1>2. x - 1 \in Nat /\ x - 1 \in S
  BY <1>1
<1> QED BY <1>1, <1>2

(* A function on 0 .. L that starts at base and goes on by step[n].          *)
Steps(L, V) == [1 .. L -> [V -> V]]
Follows(f, L, V, base, step) ==
    /\ f \in [0 .. L -> V]
    /\ f[0] = base
    /\ \A n \in 1 .. L : f[n] = step[n][f[n - 1]]

(* Such a function exists.                                                  *)
LEMMA Recursion ==
  ASSUME NEW L \in Nat, NEW V, NEW base \in V, NEW step \in Steps(L, V)
  PROVE  \E f : Follows(f, L, V, base, step)
<1> DEFINE S == {m \in Nat : m <= L => \E f : Follows(f, m, V, base, step)}
<1>1. 0 \in S
  <2> DEFINE f == [n \in 0 .. 0 |-> base]
  <2>1. f \in [0 .. 0 -> V] /\ f[0] = base /\ 1 .. 0 = {}
    OBVIOUS
  <2> QED BY <2>1 DEF Follows
<1>2. ASSUME NEW m \in Nat, m \in S PROVE m + 1 \in S
  <2> SUFFICES ASSUME m + 1 <= L PROVE \E f : Follows(f, m + 1, V, base, step)
    OBVIOUS
  <2>1. PICK f : Follows(f, m, V, base, step)
    BY <1>2
  <2> DEFINE g == [n \in 0 .. (m + 1) |-> IF n = m + 1 THEN step[m + 1][f[m]] ELSE f[n]]
  <2>2. f[m] \in V /\ m + 1 \in 1 .. L
    BY <2>1 DEF Follows
  <2>3. step[m + 1][f[m]] \in V
    BY <2>2 DEF Steps
  <2>4. g \in [0 .. (m + 1) -> V] /\ g[0] = base
    BY <2>1, <2>3 DEF Follows
  <2>5. ASSUME NEW n \in 1 .. (m + 1) PROVE g[n] = step[n][g[n - 1]]
    <3>1. g[n - 1] = f[n - 1]
      OBVIOUS
    <3>2. CASE n = m + 1
      BY <3>1, <3>2
    <3>3. CASE n \in 1 .. m
      <4>1. g[n] = f[n]
        BY <3>3
      <4> QED BY <2>1, <3>1, <3>3, <4>1 DEF Follows
    <3> QED BY <3>2, <3>3
  <2> HIDE DEF g
  <2> QED BY <2>4, <2>5 DEF Follows
<1>3. Nat \subseteq S
  <2> HIDE DEF S
  <2> QED BY <1>1, <1>2, Induction
<1> QED BY <1>3

-----------------------------------------------------------------------------
(* The list pages: a page that has removed a row fetches no more, and no    *)
(* other answer brings a row into its list but one that creates it; and     *)
(* while nothing excuses the page its list is the server's but for the      *)
(* answers on their way, since no request crosses another.                  *)

(* The types, and what a request is about and what its answer says.         *)
RowRec == [id : Ids, version : Nat]
CallRec == [pc : {"idle", "sent", "orphan", "served", "failed"},
            op : {"fetch", "act", "remove", "create"}, id : Ids \cup {NoRow},
            answer : Seq(RowRec), again : BOOLEAN]

ListsOK ==
    /\ kind \in {"bots", "orders", "keys", "portfolio"}
    /\ born \in 0 .. MaxRows
    /\ rows \in [Ids -> Nat \cup {NoRow}] /\ \A id \in Ids : id > born => ~There(id)
    /\ list \in Seq(RowRec) /\ \A n \in DOMAIN list : list[n].id <= born
    /\ calls \in [Slots -> CallRec]
    /\ removed \subseteq 1 .. born
    /\ excuse \in BOOLEAN

Busy(s, op) == calls[s].pc # "idle" /\ calls[s].op = op
Live(s, op) == calls[s].pc \notin {"idle", "orphan"} /\ calls[s].op = op
Ready(s, op) == calls[s].pc = "served" /\ calls[s].op = op
About(s, id) == (Busy(s, "act") \/ Busy(s, "remove")) /\ calls[s].id = id

CallOK(s) ==
    /\ Busy(s, "act") \/ Busy(s, "remove") => calls[s].id \in 1 .. born
    /\ Busy(s, "remove") => kind \in {"bots", "keys"} /\ ~Fetching
    /\ Ready(s, "fetch") => \A n \in DOMAIN calls[s].answer : calls[s].answer[n].id <= born
    /\ Ready(s, "act") => Len(calls[s].answer) = 1 /\ calls[s].answer[1].id = calls[s].id
    /\ Ready(s, "remove") => ~There(calls[s].id)
    /\ Live(s, "create") => \A q \in Slots : Live(q, "create") => q = s
    /\ Ready(s, "create") => \E new \in 1 .. born :
          /\ calls[s].answer = <<[id |-> new, version |-> 0]>>
          /\ new \notin removed
          /\ \A q \in Slots : ~About(q, new)

(* The page removes rows only once its one fetch is over, and a row that it *)
(* creates is none of those.                                                *)
RowsInv ==
    /\ ListsOK
    /\ \A s \in Slots : CallOK(s)
    /\ removed # {} => kind \in {"bots", "keys"} /\ ~Fetching
    /\ GoneRowsStayGone

Descending(rs) == \A m, n \in DOMAIN rs : m < n => rs[m].id > rs[n].id
Lists(rs) ==
    /\ Descending(rs)
    /\ \A n \in DOMAIN rs : There(rs[n].id) /\ rs[n].version = rows[rs[n].id]
    /\ \A id \in Ids : There(id) => \E n \in DOMAIN rs : rs[n].id = id

(* While nothing excuses the page, no request crosses another, and the list *)
(* is the server's but for the answers that are on their way.               *)
Alone(s) ==
    /\ calls[s].pc # "orphan"
    /\ Busy(s, "fetch") => \A q \in Slots : calls[q].pc # "idle" => q = s
    /\ Busy(s, "act") => \A q \in Slots : Busy(q, "act") /\ calls[q].id = calls[s].id => q = s
    /\ Ready(s, "fetch") => Lists(calls[s].answer)
    /\ Ready(s, "act") /\ There(calls[s].id) => calls[s].answer[1].version = rows[calls[s].id]
    /\ Ready(s, "create") => /\ rows[calls[s].answer[1].id] = 0
                             /\ \A n \in DOMAIN list : list[n].id < calls[s].answer[1].id

OnItsWay(op, id) == \E s \in Slots : Ready(s, op) /\ calls[s].id = id
RowFollows(n) ==
    /\ There(list[n].id) \/ OnItsWay("remove", list[n].id)
    /\ There(list[n].id) => list[n].version = rows[list[n].id] \/ OnItsWay("act", list[n].id)
ListFollows ==
    /\ Descending(list)
    /\ \A n \in DOMAIN list : RowFollows(n)
    /\ \A id \in Ids : There(id) =>
          Shown(id) \/ \E s \in Slots : Ready(s, "create") /\ calls[s].answer[1].id = id

NoFetch == \A s \in Slots : ~Busy(s, "fetch")
TruthInv == ~excuse => (\A s \in Slots : Alone(s)) /\ (NoFetch => ListFollows)

(* Two lists of the server's rows, newest first, are one.                   *)
LEMMA ListInto ==
    ASSUME NEW s \in Seq(RowRec), NEW t \in Seq(RowRec), Lists(s), Lists(t), NEW k \in DOMAIN s
    PROVE  k \in DOMAIN t /\ s[k] = t[k]
<1> DEFINE Bad == {n \in DOMAIN s : ~(n \in DOMAIN t /\ s[n] = t[n])}
<1> SUFFICES ASSUME Bad # {} PROVE FALSE
    OBVIOUS
<1>1. /\ DOMAIN s = 1 .. Len(s) /\ DOMAIN t = 1 .. Len(t) /\ Len(s) \in Nat /\ Len(t) \in Nat
      /\ \A n \in DOMAIN s : s[n] \in RowRec
      /\ \A n \in DOMAIN t : t[n] \in RowRec
    OBVIOUS
<1>2. PICK m \in Bad : \A n \in Bad : m <= n
  <2>1. Bad \in SUBSET Nat
      BY <1>1
  <2> QED BY <2>1, Least
<1>3. PICK j \in DOMAIN t : t[j] = s[m]
  <2>1. PICK j \in DOMAIN t : t[j].id = s[m].id
      BY <1>1, <1>2 DEF Lists, RowRec
  <2>2. t[j].version = rows[t[j].id] /\ s[m].version = rows[s[m].id]
    <3>1. m \in DOMAIN s
        BY <1>2
    <3> QED BY <2>1, <3>1 DEF Lists
  <2>3. \A x \in RowRec : x = [id |-> x.id, version |-> x.version]
      BY DEF RowRec
  <2>4. s[m] \in RowRec /\ t[j] \in RowRec
      BY <1>1, <1>2, <2>1
  <2> QED BY <2>1, <2>2, <2>3, <2>4
<1>4. \A n \in DOMAIN s : n < m => n \in DOMAIN t /\ s[n] = t[n]
    BY <1>1, <1>2
<1>5. \A n \in DOMAIN s : s[n].id \in Nat
    BY <1>1 DEF RowRec, Ids
<1>6. j > m
  <2>1. CASE j < m
    <3>1. j \in DOMAIN s /\ s[j] = t[j]
        BY <1>1, <1>2, <1>4, <2>1
    <3> QED BY <1>2, <1>3, <1>5, <2>1, <3>1 DEF Lists, Descending
  <2> QED BY <1>1, <1>2, <1>3, <2>1
<1>7. m \in DOMAIN t /\ t[m].id > t[j].id
    BY <1>1, <1>2, <1>3, <1>6 DEF Lists, Descending
<1>8. PICK i \in DOMAIN s : s[i].id = t[m].id
    BY <1>1, <1>7 DEF Lists, RowRec
<1>9. i < m
    BY <1>1, <1>2, <1>3, <1>5, <1>7, <1>8, SMTT(30) DEF Lists, Descending
<1>10. i \in DOMAIN t /\ t[i].id = t[m].id
    BY <1>4, <1>8, <1>9
<1>11. t[m].id \in Nat
    BY <1>5, <1>8
<1> QED BY <1>7, <1>9, <1>10, <1>11 DEF Lists, Descending

LEMMA ListIsOne ==
    ASSUME NEW s \in Seq(RowRec), NEW t \in Seq(RowRec), Lists(s), Lists(t)
    PROVE  s = t
<1>1. /\ DOMAIN s = 1 .. Len(s) /\ DOMAIN t = 1 .. Len(t) /\ Len(s) \in Nat /\ Len(t) \in Nat
      /\ s = [k \in DOMAIN s |-> s[k]] /\ t = [k \in DOMAIN t |-> t[k]]
    OBVIOUS
<1>2. DOMAIN s = DOMAIN t /\ \A k \in DOMAIN s : s[k] = t[k]
    BY ListInto
<1> QED BY <1>1, <1>2

(* The server's answer is such a list.                                      *)
LEMMA ServerLists ==
    ASSUME ListsOK
    PROVE  ServerList \in Seq(RowRec) /\ Lists(ServerList)
<1> DEFINE entry(id) == [id |-> id, version |-> rows[id]]
           D == 0 .. MaxRows
           V == Seq(RowRec)
           step == [id \in 1 .. MaxRows |-> [v \in V |-> IF There(id) THEN <<entry(id)>> \o v ELSE v]]
<1>0. MaxRows \in Nat /\ Ids = 1 .. MaxRows
    BY RowsAssumption DEF Ids
<1>1. \A id \in 1 .. MaxRows : There(id) => entry(id) \in RowRec
    BY <1>0 DEF ListsOK, There, RowRec
<1>2. <<>> \in V /\ step \in Steps(MaxRows, V)
  <2>1. ASSUME NEW id \in 1 .. MaxRows, NEW v \in V, There(id) PROVE <<entry(id)>> \o v \in V
    <3>1. <<entry(id)>> \in Seq(RowRec)
        BY <1>1, <2>1
    <3> QED BY <3>1
  <2> QED BY <2>1 DEF Steps
<1>3. PICK f : Follows(f, MaxRows, V, <<>>, step)
  <2> HIDE DEF step, V
  <2> QED BY <1>0, <1>2, Recursion
<1>4. /\ f \in [D -> V] /\ f[0] = <<>>
      /\ \A id \in 1 .. MaxRows : f[id] = IF There(id) THEN <<entry(id)>> \o f[id - 1] ELSE f[id - 1]
  <2>1. f \in [D -> V] /\ f[0] = <<>>
      BY <1>3 DEF Follows
  <2>2. ASSUME NEW id \in 1 .. MaxRows
        PROVE  f[id] = IF There(id) THEN <<entry(id)>> \o f[id - 1] ELSE f[id - 1]
    <3>1. f[id - 1] \in V
        BY <1>0, <2>1
    <3> HIDE DEF V
    <3> QED BY <1>3, <3>1 DEF Follows
  <2> QED BY <2>1, <2>2
<1>5. f = [id \in D |-> IF id = 0 THEN <<>>
                        ELSE IF There(id) THEN <<entry(id)>> \o f[id - 1] ELSE f[id - 1]]
  <2>1. \A id \in D : f[id] = IF id = 0 THEN <<>>
                               ELSE IF There(id) THEN <<entry(id)>> \o f[id - 1] ELSE f[id - 1]
    <3>1. \A id \in D : id = 0 \/ id \in 1 .. MaxRows
        BY <1>0
    <3> HIDE DEF D, V, entry
    <3> QED BY <1>4, <3>1
  <2>2. f = [id \in D |-> f[id]]
    <3> HIDE DEF D, V
    <3> QED BY <1>4
  <2> HIDE DEF D, V
  <2> QED BY <2>1, <2>2
<1> DEFINE g == CHOOSE upTo : upTo = [id \in D |->
                    IF id = 0 THEN <<>>
                    ELSE IF There(id) THEN <<entry(id)>> \o upTo[id - 1] ELSE upTo[id - 1]]
<1>6. ServerList = g[MaxRows]
    BY Zenon DEF ServerList
<1>7. g = [id \in D |-> IF id = 0 THEN <<>>
                        ELSE IF There(id) THEN <<entry(id)>> \o g[id - 1] ELSE g[id - 1]]
  <2> HIDE DEF D
  <2> QED BY <1>5, Zenon
<1> HIDE DEF g
<1>8. /\ g[0] = <<>>
      /\ \A id \in 1 .. MaxRows : g[id] = IF There(id) THEN <<entry(id)>> \o g[id - 1] ELSE g[id - 1]
  <2>1. 0 \in D /\ \A id \in 1 .. MaxRows : id \in D /\ id # 0
      BY <1>0
  <2> HIDE DEF D
  <2> QED BY <1>7, <2>1
<1> DEFINE Good(m) ==
      /\ g[m] \in V /\ Descending(g[m])
      /\ \A n \in DOMAIN g[m] : g[m][n].id <= m /\ There(g[m][n].id) /\ g[m][n].version = rows[g[m][n].id]
      /\ \A id \in 1 .. m : There(id) => \E n \in DOMAIN g[m] : g[m][n].id = id
    S == {m \in Nat : m <= MaxRows => Good(m)}
<1>9. 0 \in S
  <2>1. g[0] \in V /\ DOMAIN g[0] = {} /\ 1 .. 0 = {}
      BY <1>8
  <2> QED BY <2>1 DEF Descending
<1>10. ASSUME NEW m \in Nat, m \in S PROVE m + 1 \in S
  <2> SUFFICES ASSUME m + 1 <= MaxRows PROVE Good(m + 1)
      OBVIOUS
  <2>1. PICK id \in 1 .. MaxRows : id = m + 1 /\ id - 1 = m
      BY <1>0
  <2>2. PICK old \in V : old = g[m] /\ Good(m)
      BY <1>0, <1>10, <2>1
  <2>3. CASE ~There(id)
    <3>1. g[id] = old
        BY <1>8, <2>1, <2>2, <2>3
    <3>2. \A n \in DOMAIN old : old[n].id <= id
      <4>1. \A n \in DOMAIN old : old[n].id \in Nat /\ old[n].id <= m
        <5>1. \A n \in DOMAIN old : old[n] \in RowRec
            OBVIOUS
        <5> QED BY <1>0, <2>2, <5>1 DEF RowRec
      <4> QED BY <2>1, <4>1
    <3>3. \A i \in 1 .. id : There(i) => \E n \in DOMAIN old : old[n].id = i
      <4>1. \A i \in 1 .. id : There(i) => i \in 1 .. m
          BY <2>1, <2>3
      <4> QED BY <2>2, <4>1
    <3> QED BY <2>1, <2>2, <3>1, <3>2, <3>3
  <2>4. CASE There(id)
    <3>1. PICK r \in RowRec : r = [id |-> id, version |-> rows[id]] /\ g[id] = <<r>> \o old
      <4>1. entry(id) \in RowRec /\ g[id] = <<entry(id)>> \o old
        <5> HIDE DEF entry
        <5> QED BY <1>1, <1>8, <2>1, <2>2, <2>4
      <4> QED BY <4>1
    <3>2. PICK new \in V : new = <<r>> \o old
      <4>1. \A x \in RowRec, v \in V : <<x>> \o v \in V
          OBVIOUS
      <4> QED BY <4>1
    <3>3. /\ DOMAIN new = 1 .. Len(old) + 1 /\ new[1] = r /\ Len(old) \in Nat
          /\ \A n \in 2 .. Len(old) + 1 : n - 1 \in DOMAIN old /\ new[n] = old[n - 1]
          /\ \A n \in DOMAIN old : n + 1 \in DOMAIN new /\ new[n + 1] = old[n]
        BY <3>2
    <3>4. \A n \in DOMAIN old : old[n].id \in Nat /\ old[n].id < id
      <4>1. \A n \in DOMAIN old : old[n].id \in Nat /\ old[n].id <= m
        <5>1. \A n \in DOMAIN old : old[n] \in RowRec
            OBVIOUS
        <5> QED BY <1>0, <2>2, <5>1 DEF RowRec
      <4> QED BY <2>1, <4>1
    <3>5. Descending(new)
      <4> SUFFICES ASSUME NEW a \in DOMAIN new, NEW c \in DOMAIN new, a < c PROVE new[a].id > new[c].id
          BY DEF Descending
      <4>1. c - 1 \in DOMAIN old /\ new[c] = old[c - 1]
          BY <3>3
      <4>2. CASE a = 1
          BY <3>1, <3>3, <3>4, <4>1, <4>2
      <4>3. CASE a # 1
        <5>1. a - 1 \in DOMAIN old /\ new[a] = old[a - 1] /\ a - 1 < c - 1
            BY <3>3, <4>3
        <5> QED BY <2>2, <4>1, <5>1 DEF Descending
      <4> QED BY <4>2, <4>3
    <3>6. \A n \in DOMAIN new : /\ new[n].id <= id /\ There(new[n].id)
                                /\ new[n].version = rows[new[n].id]
      <4> SUFFICES ASSUME NEW n \in DOMAIN new
                   PROVE /\ new[n].id <= id /\ There(new[n].id) /\ new[n].version = rows[new[n].id]
          OBVIOUS
      <4>1. CASE n = 1
          BY <2>4, <3>1, <3>3, <4>1
      <4>2. CASE n # 1
        <5>1. n - 1 \in DOMAIN old /\ new[n] = old[n - 1]
            BY <3>3, <4>2
        <5> QED BY <2>2, <3>4, <5>1
      <4> QED BY <4>1, <4>2
    <3>7. ASSUME NEW i \in 1 .. id, There(i) PROVE \E n \in DOMAIN new : new[n].id = i
      <4>1. CASE i = id
        <5>1. 1 \in DOMAIN new /\ new[1].id = id
            BY <3>1, <3>3
        <5> QED BY <4>1, <5>1
      <4>2. CASE i # id
        <5>1. i \in 1 .. m
            BY <2>1, <4>2
        <5>2. PICK n \in DOMAIN old : old[n].id = i
            BY <2>2, <3>7, <5>1
        <5> QED BY <3>3, <5>2
      <4> QED BY <4>1, <4>2
    <3> QED BY <2>1, <3>1, <3>2, <3>5, <3>6, <3>7
  <2> QED BY <2>3, <2>4
<1>11. Nat \subseteq S
  <2> HIDE DEF S
  <2> QED BY <1>9, <1>10, Induction
<1>12. Good(MaxRows)
    BY <1>0, <1>11
<1> QED BY <1>0, <1>6, <1>12 DEF Lists

(* The list without a row is the rest of it, in its order.                  *)
LEMMA WithoutIs ==
    ASSUME list \in Seq(RowRec), NEW id
    PROVE  /\ Without(id) \in Seq(RowRec)
           /\ \A n \in DOMAIN Without(id) : \E m \in DOMAIN list :
                 list[m] = Without(id)[n] /\ list[m].id # id
           /\ \A m \in DOMAIN list : list[m].id # id =>
                 \E n \in DOMAIN Without(id) : Without(id)[n] = list[m]
           /\ Descending(list) => Descending(Without(id))
<1>1. PICK L \in Nat : L = Len(list) /\ DOMAIN list = 1 .. L
    OBVIOUS
<1> DEFINE D == 0 .. L
           V == Seq(RowRec)
           step == [n \in 1 .. L |-> [v \in V |-> IF list[n].id = id THEN v ELSE Append(v, list[n])]]
<1>2. <<>> \in V /\ step \in Steps(L, V)
  <2>1. ASSUME NEW n \in 1 .. L, NEW v \in V PROVE Append(v, list[n]) \in V
    <3>1. list[n] \in RowRec
        BY <1>1
    <3> QED BY <3>1
  <2> QED BY <2>1 DEF Steps
<1>3. PICK f : Follows(f, L, V, <<>>, step)
  <2> HIDE DEF step, V
  <2> QED BY <1>2, Recursion
<1>4. /\ f \in [D -> V] /\ f[0] = <<>>
      /\ \A n \in 1 .. L : f[n] = IF list[n].id = id THEN f[n - 1] ELSE Append(f[n - 1], list[n])
  <2>1. f \in [D -> V] /\ f[0] = <<>>
      BY <1>3 DEF Follows
  <2>2. ASSUME NEW n \in 1 .. L
        PROVE  f[n] = IF list[n].id = id THEN f[n - 1] ELSE Append(f[n - 1], list[n])
    <3>1. f[n - 1] \in V
        BY <2>1
    <3> HIDE DEF V
    <3> QED BY <1>3, <3>1 DEF Follows
  <2> QED BY <2>1, <2>2
<1>5. f = [n \in D |-> IF n = 0 THEN <<>>
                       ELSE IF list[n].id = id THEN f[n - 1] ELSE Append(f[n - 1], list[n])]
  <2>1. \A n \in D : f[n] = IF n = 0 THEN <<>>
                            ELSE IF list[n].id = id THEN f[n - 1] ELSE Append(f[n - 1], list[n])
    <3>1. \A n \in D : n = 0 \/ n \in 1 .. L
        OBVIOUS
    <3> HIDE DEF D, V
    <3> QED BY <1>4, <3>1
  <2>2. f = [n \in D |-> f[n]]
    <3> HIDE DEF D, V
    <3> QED BY <1>4
  <2> HIDE DEF D, V
  <2> QED BY <2>1, <2>2
<1> DEFINE g == CHOOSE kept : kept = [n \in 0 .. Len(list) |->
                    IF n = 0 THEN <<>>
                    ELSE IF list[n].id = id THEN kept[n - 1] ELSE Append(kept[n - 1], list[n])]
<1>6. Without(id) = g[L]
  <2>1. Without(id) = g[Len(list)]
      BY Zenon DEF Without
  <2> HIDE DEF g
  <2> QED BY <1>1, <2>1
<1>7. g = [n \in D |-> IF n = 0 THEN <<>>
                       ELSE IF list[n].id = id THEN g[n - 1] ELSE Append(g[n - 1], list[n])]
  <2>1. D = 0 .. Len(list)
      BY <1>1
  <2> HIDE DEF D
  <2> QED BY <1>5, <2>1, Zenon
<1> HIDE DEF g
<1>8. /\ g[0] = <<>>
      /\ \A n \in 1 .. L : g[n] = IF list[n].id = id THEN g[n - 1] ELSE Append(g[n - 1], list[n])
  <2>1. 0 \in D /\ \A n \in 1 .. L : n \in D /\ n # 0
      OBVIOUS
  <2> HIDE DEF D
  <2> QED BY <1>7, <2>1
<1> DEFINE Good(l) ==
      /\ g[l] \in V
      /\ \A n \in DOMAIN g[l] : \E m \in 1 .. l : list[m] = g[l][n] /\ list[m].id # id
      /\ \A m \in 1 .. l : list[m].id # id => \E n \in DOMAIN g[l] : g[l][n] = list[m]
      /\ Descending(list) => Descending(g[l])
    S == {l \in Nat : l <= L => Good(l)}
<1>9. 0 \in S
  <2>1. g[0] \in V /\ DOMAIN g[0] = {} /\ 1 .. 0 = {}
      BY <1>8
  <2> QED BY <2>1 DEF Descending
<1>10. ASSUME NEW l \in Nat, l \in S PROVE l + 1 \in S
  <2> SUFFICES ASSUME l + 1 <= L PROVE Good(l + 1)
      OBVIOUS
  <2>1. PICK k \in 1 .. L : k = l + 1 /\ k - 1 = l
      OBVIOUS
  <2>2. PICK old \in V : old = g[l] /\ Good(l)
      BY <1>10, <2>1
  <2>3. \A m \in 1 .. k : m = k \/ m \in 1 .. l
      BY <2>1
  <2>4. CASE list[k].id = id
    <3>1. g[k] = old
        BY <1>8, <2>1, <2>2, <2>4
    <3>2. \A m \in 1 .. l : m \in 1 .. k
        BY <2>1
    <3> QED BY <2>1, <2>2, <2>3, <2>4, <3>1, <3>2
  <2>5. CASE list[k].id # id
    <3>1. PICK r \in RowRec : r = list[k]
        BY <1>1
    <3>2. PICK new \in V : new = Append(old, r)
      <4>1. \A x \in RowRec, v \in V : Append(v, x) \in V
          OBVIOUS
      <4> QED BY <4>1
    <3>3. g[k] = new
        BY <1>8, <2>1, <2>2, <2>5, <3>1, <3>2
    <3>4. PICK e \in Nat : e = Len(old) + 1 /\ DOMAIN new = 1 .. e /\ DOMAIN old = 1 .. e - 1
                           /\ new[e] = r /\ \A n \in DOMAIN old : n \in DOMAIN new /\ new[n] = old[n]
        BY <3>2
    <3>5. ASSUME NEW n \in DOMAIN new PROVE \E m \in 1 .. k : list[m] = new[n] /\ list[m].id # id
      <4>1. CASE n = e
          BY <2>1, <2>5, <3>1, <3>4, <4>1
      <4>2. CASE n # e
        <5>1. n \in DOMAIN old /\ new[n] = old[n]
            BY <3>4, <4>2
        <5>2. PICK m \in 1 .. l : list[m] = old[n] /\ list[m].id # id
            BY <2>2, <5>1
        <5>3. m \in 1 .. k
            BY <2>1
        <5> QED BY <5>1, <5>2, <5>3
      <4> QED BY <4>1, <4>2
    <3>6. ASSUME NEW m \in 1 .. k, list[m].id # id PROVE \E n \in DOMAIN new : new[n] = list[m]
      <4>1. CASE m = k
        <5>1. e \in DOMAIN new
            BY <3>4
        <5> QED BY <3>1, <3>4, <4>1, <5>1
      <4>2. CASE m \in 1 .. l
        <5>1. PICK n \in DOMAIN old : old[n] = list[m]
            BY <2>2, <3>6, <4>2
        <5> QED BY <3>4, <5>1
      <4> QED BY <2>3, <4>1, <4>2
    <3>7. ASSUME Descending(list) PROVE Descending(new)
      <4> SUFFICES ASSUME NEW a \in DOMAIN new, NEW c \in DOMAIN new, a < c PROVE new[a].id > new[c].id
          BY DEF Descending
      <4>1. a \in DOMAIN old /\ new[a] = old[a]
          BY <3>4
      <4>2. CASE c = e
        <5>1. PICK m \in 1 .. l : list[m] = old[a]
            BY <2>2, <4>1
        <5>2. m \in DOMAIN list /\ k \in DOMAIN list /\ m < k
            BY <1>1, <2>1
        <5>3. list[m].id > list[k].id
            BY <3>7, <5>2 DEF Descending
        <5> QED BY <3>1, <3>4, <4>1, <4>2, <5>1, <5>3
      <4>3. CASE c # e
        <5>1. c \in DOMAIN old /\ new[c] = old[c]
            BY <3>4, <4>3
        <5> QED BY <2>2, <3>7, <4>1, <5>1 DEF Descending
      <4> QED BY <4>2, <4>3
    <3> QED BY <2>1, <3>3, <3>5, <3>6, <3>7
  <2> QED BY <2>4, <2>5
<1>11. Nat \subseteq S
  <2> HIDE DEF S
  <2> QED BY <1>9, <1>10, Induction
<1>12. Good(L)
  <2>1. L \in S
    <3> HIDE DEF S
    <3> QED BY <1>11
  <2> HIDE DEF Good
  <2> QED BY <2>1
<1>13. PICK w \in V : w = Without(id) /\ w = g[L]
    BY <1>6, <1>12
<1>14. /\ \A n \in DOMAIN w : \E m \in 1 .. L : list[m] = w[n] /\ list[m].id # id
       /\ \A m \in 1 .. L : list[m].id # id => \E n \in DOMAIN w : w[n] = list[m]
       /\ Descending(list) => Descending(w)
    BY <1>12, <1>13
<1>15. w \in Seq(RowRec)
    OBVIOUS
<1>16. /\ \A n \in DOMAIN w : \E m \in DOMAIN list : list[m] = w[n] /\ list[m].id # id
       /\ \A m \in DOMAIN list : list[m].id # id => \E n \in DOMAIN w : w[n] = list[m]
  <2> HIDE DEF V
  <2> QED BY <1>1, <1>14
<1> HIDE DEF V
<1> QED BY <1>13, <1>14, <1>15, <1>16

(* One request goes on, and with it perhaps the rows and the list.          *)
LEMMA RequestGoes ==
    ASSUME RowsInv, NEW s \in Slots, NEW c, calls' = [calls EXCEPT ![s] = c], kind' = kind,
           ListsOK', CallOK(s)', born <= born',
           \A id \in 1 .. born : ~There(id) => ~There(id)',
           Live(s, "fetch")' => Live(s, "fetch") \/ kind \notin {"bots", "keys"},
           Live(s, "create")' => Live(s, "create") \/ ~InFlight("create"),
           \A id : About(s, id)' => About(s, id) \/ ~InFlight("create"),
           removed' = removed \/ (Busy(s, "remove") /\ removed' = removed \cup {calls[s].id}),
           GoneRowsStayGone'
    PROVE  RowsInv'
<1>1. calls'[s] = c /\ \A q \in Slots \ {s} : calls'[q] = calls[q]
    BY DEF RowsInv, ListsOK
<1>2. /\ \A q \in Slots \ {s} : \A op : /\ Busy(q, op)' = Busy(q, op) /\ Live(q, op)' = Live(q, op)
                                        /\ Ready(q, op)' = Ready(q, op)
      /\ \A q \in Slots \ {s} : \A id : About(q, id)' = About(q, id)
    BY <1>1 DEF Busy, Live, Ready, About
<1>3. \A op : InFlight(op) <=> \E q \in Slots : Live(q, op)
    BY DEF InFlight, Live
<1>4. \A op : InFlight(op)' <=> \E q \in Slots : Live(q, op)'
    BY DEF InFlight, Live
<1>5. kind \in {"bots", "keys"} /\ ~Fetching => ~Fetching'
    BY <1>2, <1>3, <1>4 DEF Fetching
<1>6. ASSUME NEW q \in Slots \ {s} PROVE CallOK(q)'
  <2>1. CallOK(q) /\ calls'[q] = calls[q] /\ born \in Nat /\ born' \in Nat
      BY <1>1 DEF RowsInv, ListsOK
  <2>2. \A id \in 1 .. born : id \in 1 .. born'
      BY <2>1
  <2>3. Busy(q, "act")' \/ Busy(q, "remove")' => calls'[q].id \in 1 .. born'
      BY <1>2, <2>1, <2>2 DEF CallOK
  <2>4. Busy(q, "remove")' => kind' \in {"bots", "keys"} /\ ~Fetching'
      BY <1>2, <1>5, <2>1 DEF CallOK
  <2>5. Ready(q, "fetch")' => \A n \in DOMAIN calls'[q].answer : calls'[q].answer[n].id <= born'
    <3> SUFFICES ASSUME Ready(q, "fetch"), NEW n \in DOMAIN calls[q].answer
                 PROVE  calls[q].answer[n].id <= born'
        BY <1>2, <2>1
    <3>1. calls[q].answer[n].id <= born /\ calls[q].answer[n].id \in Nat
      <4>1. calls[q].answer[n] \in RowRec
          BY DEF RowsInv, ListsOK, CallRec
      <4> QED BY <2>1, <4>1, RowsAssumption DEF CallOK, RowRec, Ids
    <3> QED BY <2>1, <3>1
  <2>6. Ready(q, "act")' => Len(calls'[q].answer) = 1 /\ calls'[q].answer[1].id = calls'[q].id
      BY <1>2, <2>1 DEF CallOK
  <2>7. Ready(q, "remove")' => ~There(calls[q].id)'
    <3>1. Ready(q, "remove") => calls[q].id \in 1 .. born /\ ~There(calls[q].id)
        BY <2>1 DEF CallOK, Ready, Busy
    <3> QED BY <1>2, <2>1, <3>1 DEF There
  <2>8. Live(q, "create")' => \A p \in Slots : Live(p, "create")' => p = q
      BY <1>2, <1>3, <2>1 DEF CallOK
  <2>9. ASSUME Ready(q, "create")
        PROVE  \E new \in 1 .. born' : /\ calls'[q].answer = <<[id |-> new, version |-> 0]>>
                                       /\ new \notin removed'
                                       /\ \A p \in Slots : ~About(p, new)'
    <3>1. PICK new \in 1 .. born : /\ calls[q].answer = <<[id |-> new, version |-> 0]>>
                                   /\ new \notin removed
                                   /\ \A p \in Slots : ~About(p, new)
        BY <2>1, <2>9 DEF CallOK
    <3>2. InFlight("create")
        BY <1>3, <2>9 DEF Ready, Live
    <3>3. \A p \in Slots : ~About(p, new)'
        BY <1>2, <3>1, <3>2
    <3>4. new \notin removed'
        BY <3>1 DEF About
    <3> QED BY <2>1, <2>2, <3>1, <3>3, <3>4
  <2> QED BY <1>2, <2>3, <2>4, <2>5, <2>6, <2>7, <2>8, <2>9 DEF CallOK
<1>7. removed' # {} => kind' \in {"bots", "keys"} /\ ~Fetching'
    BY <1>5 DEF RowsInv, CallOK
<1> QED BY <1>6, <1>7 DEF RowsInv

LEMMA RowsStart == ListsInit => RowsInv
<1> SUFFICES ASSUME ListsInit PROVE RowsInv
    OBVIOUS
<1>1. /\ MaxRows \in Nat /\ FirstRows \in 1 .. MaxRows /\ NoRow \notin Nat /\ Ids = 1 .. MaxRows
    BY RowsAssumption DEF Ids
<1>2. NoRequest \in CallRec /\ [NoRequest EXCEPT !.pc = "sent"] \in CallRec
  <2>1. <<>> \in Seq(RowRec)
      OBVIOUS
  <2>2. NoRequest \in CallRec
      BY <2>1 DEF NoRequest, CallRec
  <2>3. \A x \in CallRec : [x EXCEPT !.pc = "sent"] \in CallRec
      BY DEF CallRec
  <2> QED BY <2>2, <2>3
<1>3. calls \in [Slots -> CallRec] /\ \A s \in Slots : calls[s].op = "fetch" /\ calls[s].pc \in {"idle", "sent"}
  <2>1. NoRequest.op = "fetch" /\ NoRequest.pc = "idle"
        /\ [NoRequest EXCEPT !.pc = "sent"].op = "fetch" /\ [NoRequest EXCEPT !.pc = "sent"].pc = "sent"
      BY DEF NoRequest
  <2> QED BY <1>2, <2>1 DEF ListsInit
<1>4. \A s \in Slots : CallOK(s)
    BY <1>3 DEF CallOK, Busy, Ready, Live
<1>5. born \in 1 .. MaxRows
    BY <1>1 DEF ListsInit
<1>6. rows \in [Ids -> Nat \cup {NoRow}] /\ \A id \in Ids : id > born => ~There(id)
    BY <1>1, <1>5 DEF ListsInit, There
<1>7. list \in Seq(RowRec) /\ DOMAIN list = {} /\ removed = {} /\ excuse \in BOOLEAN
  <2>1. list = <<>> /\ removed = {} /\ excuse = FALSE
      BY DEF ListsInit
  <2>2. <<>> \in Seq(RowRec) /\ DOMAIN <<>> = {}
      OBVIOUS
  <2> QED BY <2>1, <2>2
<1>8. kind \in {"bots", "orders", "keys", "portfolio"}
    BY DEF ListsInit
<1>9. ListsOK
    BY <1>3, <1>5, <1>6, <1>7, <1>8 DEF ListsOK
<1> QED BY <1>4, <1>7, <1>9 DEF RowsInv, GoneRowsStayGone

(* A request is sent.                                                       *)
LEMMA RowsSend ==
    ASSUME RowsInv, NEW op \in {"fetch", "act", "remove", "create"}, NEW id \in Ids \cup {NoRow},
           Send(op, id),
           op \in {"act", "remove"} => id \in 1 .. born /\ ~InFlight("create"),
           op = "create" => ~InFlight("create"),
           op = "fetch" => kind = "orders",
           op = "remove" => kind \in {"bots", "keys"} /\ ~Fetching
    PROVE  RowsInv'
<1>1. PICK s \in Slots : /\ calls[s].pc = "idle"
                         /\ calls' = [calls EXCEPT ![s] = [NoRequest EXCEPT !.pc = "sent", !.op = op, !.id = id]]
    BY DEF Send
<1>2. UNCHANGED <<kind, rows, born, list, removed>> /\ excuse' = (excuse \/ Crosses(op, id))
    BY DEF Send
<1> DEFINE c == [NoRequest EXCEPT !.pc = "sent", !.op = op, !.id = id]
<1>3. c \in CallRec /\ c.pc = "sent" /\ c.op = op /\ c.id = id
  <2>1. <<>> \in Seq(RowRec)
      OBVIOUS
  <2>2. NoRequest \in CallRec
      BY <2>1 DEF NoRequest, CallRec
  <2>3. \A x \in CallRec : LET y == [x EXCEPT !.pc = "sent", !.op = op, !.id = id]
                             IN y \in CallRec /\ y.pc = "sent" /\ y.op = op /\ y.id = id
      BY DEF CallRec
  <2> QED BY <2>2, <2>3
<1> HIDE DEF c
<1>4. calls' \in [Slots -> CallRec] /\ calls'[s] = c /\ \A q \in Slots \ {s} : calls'[q] = calls[q]
    BY <1>1, <1>3 DEF RowsInv, ListsOK, c
<1>5. ListsOK'
    BY <1>2, <1>4 DEF RowsInv, ListsOK, There
<1>6. Live(s, "create")' => Live(s, "create") \/ ~InFlight("create")
    BY <1>3, <1>4 DEF Live
<1>7. \A i : About(s, i)' => ~InFlight("create")
    BY <1>3, <1>4 DEF About, Busy
<1>8. Live(s, "fetch")' => kind \notin {"bots", "keys"}
    BY <1>3, <1>4 DEF Live
<1>9. CallOK(s)'
  <2>1. \A q \in Slots : Live(q, "create")' /\ op = "create" => q = s
      BY <1>4 DEF Live, InFlight
  <2>2. op = "remove" => ~Fetching'
      BY <1>3, <1>4 DEF Fetching, InFlight
  <2> QED BY <1>2, <1>3, <1>4, <2>1, <2>2 DEF CallOK, Busy, Ready, Live
<1>10. GoneRowsStayGone'
    BY <1>2 DEF RowsInv, GoneRowsStayGone
<1>11. born <= born' /\ \A i \in 1 .. born : ~There(i) => ~There(i)'
    BY <1>2 DEF RowsInv, ListsOK, There
<1> QED BY <1>1, <1>2, <1>5, <1>6, <1>7, <1>8, <1>9, <1>10, <1>11, RequestGoes

LEMMA RowsUser ==
    ASSUME RowsInv, Reload \/ Create \/ \E id \in Ids : Act(id) \/ Delete(id)
    PROVE  RowsInv'
<1>1. ASSUME NEW id \in Ids, Shown(id) PROVE id \in 1 .. born
  <2>1. PICK n \in DOMAIN list : list[n].id = id /\ id <= born
      BY <1>1 DEF Shown, RowsInv, ListsOK
  <2> QED BY <2>1, RowsAssumption DEF Ids, RowsInv, ListsOK
<1>2. CASE Reload
    BY <1>2, RowsSend DEF Reload
<1>3. CASE Create
    BY <1>3, RowsSend DEF Create
<1>4. ASSUME NEW id \in Ids, Act(id) PROVE RowsInv'
    BY <1>1, <1>4, RowsSend DEF Act, Offered
<1>5. ASSUME NEW id \in Ids, Delete(id) PROVE RowsInv'
    BY <1>1, <1>5, RowsSend DEF Delete, Offered, StaysInView
<1> QED BY <1>2, <1>3, <1>4, <1>5

(* A request ends, fails, or is left to the server.                         *)
LEMMA RequestFades ==
    ASSUME RowsInv, NEW s \in Slots, NEW c \in CallRec, calls' = [calls EXCEPT ![s] = c], kind' = kind,
           calls[s].pc # "idle", c.pc # "served", c.pc # "orphan" => calls[s].pc # "orphan" \/ c.pc = "idle",
           c.pc # "idle" => c.op = calls[s].op /\ c.id = calls[s].id,
           ListsOK', born <= born', \A id \in 1 .. born : ~There(id) => ~There(id)',
           removed' = removed \/ (Busy(s, "remove") /\ removed' = removed \cup {calls[s].id}),
           GoneRowsStayGone'
    PROVE  RowsInv'
<1>1. calls'[s] = c /\ \A q \in Slots \ {s} : calls'[q] = calls[q]
    BY DEF RowsInv, ListsOK
<1>2. /\ \A op : Busy(s, op)' => Busy(s, op)
      /\ \A op : Live(s, op)' => Live(s, op)
      /\ \A op : ~Ready(s, op)'
      /\ \A id : About(s, id)' => About(s, id)
    BY <1>1 DEF Busy, Live, Ready, About
<1>3. \A q \in Slots : \A op : Live(q, op)' => Live(q, op)
    BY <1>1, <1>2 DEF Live
<1>4. Fetching' => Fetching
    BY <1>3 DEF Fetching, InFlight, Live
<1>5. CallOK(s)'
  <2>1. CallOK(s) /\ born \in Nat /\ born' \in Nat
      BY DEF RowsInv, ListsOK
  <2>2. Busy(s, "act")' \/ Busy(s, "remove")' => calls'[s].id = calls[s].id
      BY <1>1 DEF Busy
  <2>3. Busy(s, "act")' \/ Busy(s, "remove")' => calls'[s].id \in 1 .. born'
      BY <1>2, <2>1, <2>2 DEF CallOK
  <2>4. Busy(s, "remove")' => kind' \in {"bots", "keys"} /\ ~Fetching'
      BY <1>2, <1>4, <2>1 DEF CallOK
  <2>5. Live(s, "create")' => \A q \in Slots : Live(q, "create")' => q = s
      BY <1>2, <1>3, <2>1 DEF CallOK
  <2> QED BY <1>2, <2>3, <2>4, <2>5 DEF CallOK
<1> QED BY <1>2, <1>5, RequestGoes

(* The server has served or refused a request.                              *)
LEMMA RowsServed ==
    ASSUME RowsInv, NEW s \in Slots, calls[s].pc \in {"sent", "orphan"},
           UNCHANGED <<kind, list, busy, spent, removed, excuse>>,
           NEW answer \in Seq(RowRec), Served(s, answer),
           born' \in 0 .. MaxRows, born <= born',
           rows' \in [Ids -> Nat \cup {NoRow}], \A id \in Ids : id > born' => rows'[id] = NoRow,
           \A id \in 1 .. born : ~There(id) => rows'[id] = NoRow,
           calls[s].op = "fetch" => \A n \in DOMAIN answer : answer[n].id <= born',
           calls[s].op = "act" => Len(answer) = 1 /\ answer[1].id = calls[s].id,
           calls[s].op = "remove" => rows'[calls[s].id] = NoRow,
           calls[s].op = "create" => \E new \in 1 .. born' :
              new > born /\ answer = <<[id |-> new, version |-> 0]>>
    PROVE  RowsInv'
<1>1. /\ calls \in [Slots -> CallRec] /\ calls[s] \in CallRec /\ born \in Nat
      /\ \A n \in DOMAIN list : list[n].id \in Nat /\ list[n].id <= born
  <2>1. \A n \in DOMAIN list : list[n] \in RowRec
      BY DEF RowsInv, ListsOK
  <2> QED BY <2>1, RowsAssumption DEF RowsInv, ListsOK, RowRec, Ids
<1>2. list' \in Seq(RowRec) /\ \A n \in DOMAIN list' : list'[n].id <= born'
    BY <1>1 DEF RowsInv, ListsOK
<1>3. removed' \subseteq 1 .. born'
    BY <1>1 DEF RowsInv, ListsOK
<1>4. GoneRowsStayGone'
    BY DEF RowsInv, GoneRowsStayGone
<1>5. \A id \in 1 .. born : ~There(id) => ~There(id)'
    BY DEF There
<1>6. ASSUME calls' \in [Slots -> CallRec] PROVE ListsOK'
  <2>1. kind' \in {"bots", "orders", "keys", "portfolio"} /\ excuse' \in BOOLEAN
      BY DEF RowsInv, ListsOK
  <2> QED BY <1>2, <1>3, <1>6, <2>1 DEF ListsOK, There
<1>7. CASE calls[s].pc = "orphan"
  <2>1. calls' = [calls EXCEPT ![s] = NoRequest]
      BY <1>7 DEF Served
  <2>2. NoRequest \in CallRec /\ NoRequest.pc = "idle"
    <3>1. <<>> \in Seq(RowRec)
        OBVIOUS
    <3> QED BY <3>1 DEF NoRequest, CallRec
  <2>3. ListsOK'
      BY <1>1, <1>6, <2>1, <2>2
  <2> QED BY <1>4, <1>5, <1>7, <2>1, <2>2, <2>3, RequestFades
<1>8. CASE calls[s].pc = "sent"
  <2>1. PICK c : c = [calls[s] EXCEPT !.pc = "served", !.answer = answer]
      OBVIOUS
  <2>2. c \in CallRec /\ c.pc = "served" /\ c.op = calls[s].op /\ c.id = calls[s].id /\ c.answer = answer
      BY <1>1, <2>1 DEF CallRec
  <2>3. calls' = [calls EXCEPT ![s] = c]
      BY <1>8, <2>1 DEF Served
  <2>4. calls' \in [Slots -> CallRec] /\ calls'[s] = c /\ \A q \in Slots \ {s} : calls'[q] = calls[q]
      BY <1>1, <2>2, <2>3
  <2>5. ListsOK'
      BY <1>6, <2>4
  <2>6. /\ \A op : Live(s, op)' <=> Live(s, op)
        /\ \A op : Busy(s, op)' <=> Busy(s, op)
        /\ \A id : About(s, id)' <=> About(s, id)
      BY <1>8, <2>2, <2>4 DEF Live, Busy, About
  <2>7. \A q \in Slots : /\ \A op : Live(q, op)' <=> Live(q, op)
                         /\ \A id : About(q, id)' <=> About(q, id)
      BY <2>4, <2>6 DEF Live, Busy, About
  <2>8. Fetching' <=> Fetching
      BY <2>7 DEF Fetching, InFlight, Live
  <2>9. CallOK(s)'
    <3>1. CallOK(s) /\ \A i \in 1 .. born : i \in 1 .. born'
        BY <1>1 DEF RowsInv
    <3>2. Busy(s, "act")' \/ Busy(s, "remove")' => calls'[s].id \in 1 .. born'
        BY <2>2, <2>4, <2>6, <3>1 DEF CallOK
    <3>3. Busy(s, "remove")' => kind' \in {"bots", "keys"} /\ ~Fetching'
        BY <2>6, <2>8, <3>1 DEF CallOK
    <3>4. Ready(s, "fetch")' => \A n \in DOMAIN calls'[s].answer : calls'[s].answer[n].id <= born'
        BY <2>2, <2>4 DEF Ready
    <3>5. Ready(s, "act")' => Len(calls'[s].answer) = 1 /\ calls'[s].answer[1].id = calls'[s].id
        BY <2>2, <2>4 DEF Ready
    <3>6. Ready(s, "remove")' => ~There(calls[s].id)'
        BY <2>2, <2>4 DEF Ready, There
    <3>7. Live(s, "create")' => \A q \in Slots : Live(q, "create")' => q = s
        BY <2>7, <3>1 DEF CallOK
    <3>8. ASSUME Ready(s, "create")'
          PROVE  \E new \in 1 .. born' : /\ calls'[s].answer = <<[id |-> new, version |-> 0]>>
                                         /\ new \notin removed'
                                         /\ \A q \in Slots : ~About(q, new)'
      <4>1. calls[s].op = "create"
          BY <2>2, <2>4, <3>8 DEF Ready
      <4>2. PICK new \in 1 .. born' : new > born /\ answer = <<[id |-> new, version |-> 0]>>
          BY <4>1
      <4>3. new \notin removed'
          BY <1>1, <4>2 DEF RowsInv, ListsOK
      <4>4. ASSUME NEW q \in Slots, About(q, new) PROVE FALSE
        <5>1. CallOK(q) /\ calls[q].id = new /\ (Busy(q, "act") \/ Busy(q, "remove"))
            BY <4>4 DEF RowsInv, About
        <5>2. new \in 1 .. born
            BY <5>1 DEF CallOK
        <5> QED BY <1>1, <4>2, <5>2
      <4> QED BY <2>2, <2>4, <2>7, <4>2, <4>3, <4>4
    <3> QED BY <3>2, <3>3, <3>4, <3>5, <3>6, <3>7, <3>8 DEF CallOK
  <2> QED BY <1>4, <1>5, <2>3, <2>5, <2>6, <2>9, RequestGoes
<1> QED BY <1>7, <1>8

LEMMA RowsServe ==
    ASSUME RowsInv, NEW s \in Slots, Serve(s)
    PROVE  RowsInv'
<1> DEFINE id == calls[s].id
           op == calls[s].op
<1>1. /\ calls[s].pc \in {"sent", "orphan"} /\ UNCHANGED <<kind, list, busy, spent, removed, excuse>>
    BY DEF Serve
<1>2. /\ calls \in [Slots -> CallRec] /\ calls[s] \in CallRec /\ CallOK(s)
      /\ born \in Nat /\ born \in 0 .. MaxRows /\ rows \in [Ids -> Nat \cup {NoRow}]
      /\ \A i \in Ids : i > born => rows[i] = NoRow
      /\ NoRow \notin Nat /\ Ids = 1 .. MaxRows /\ MaxRows \in Nat
    BY RowsAssumption DEF RowsInv, ListsOK, There, Ids
<1>3. CASE op = "fetch" /\ Served(s, ServerList) /\ UNCHANGED <<rows, born>>
  <2>1. PICK answer \in Seq(RowRec) : answer = ServerList /\ Lists(answer)
      BY ServerLists DEF RowsInv
  <2>2. \A n \in DOMAIN answer : answer[n].id <= born
    <3>1. \A n \in DOMAIN answer : answer[n].id \in Ids /\ There(answer[n].id)
      <4>1. \A n \in DOMAIN answer : answer[n] \in RowRec
          OBVIOUS
      <4> QED BY <2>1, <4>1 DEF Lists, RowRec
    <3> QED BY <1>2, <3>1 DEF There
  <2>3. \A i \in 1 .. born : ~There(i) => rows'[i] = NoRow
      BY <1>3 DEF There
  <2> QED BY <1>1, <1>2, <1>3, <2>1, <2>2, <2>3, RowsServed
<1>4. CASE op = "act" /\ There(id) /\ UNCHANGED born /\ rows' = [rows EXCEPT ![id] = @ + 1]
           /\ Served(s, <<[id |-> id, version |-> rows[id] + 1]>>)
  <2>1. id \in 1 .. born /\ id \in Ids
      BY <1>1, <1>2, <1>4 DEF CallOK, Busy
  <2>2. rows[id] \in Nat /\ rows[id] + 1 \in Nat
      BY <1>2, <1>4, <2>1 DEF There
  <2>3. PICK r \in RowRec : r = [id |-> id, version |-> rows[id] + 1]
      BY <2>1, <2>2 DEF RowRec
  <2>4. PICK answer \in Seq(RowRec) : answer = <<r>> /\ Len(answer) = 1 /\ answer[1] = r
    <3>1. \A x \in RowRec : <<x>> \in Seq(RowRec) /\ Len(<<x>>) = 1 /\ <<x>>[1] = x
        OBVIOUS
    <3> QED BY <3>1
  <2>5. rows' \in [Ids -> Nat \cup {NoRow}] /\ \A i \in Ids \ {id} : rows'[i] = rows[i]
      BY <1>2, <1>4, <2>2
  <2>6. \A i \in 1 .. born : i \in Ids
      BY <1>2
  <2>7. \A i \in 1 .. born : ~There(i) => rows'[i] = NoRow
      BY <1>4, <2>5, <2>6 DEF There
  <2>8. \A i \in Ids : i > born => rows'[i] = NoRow
      BY <1>2, <2>1, <2>5
  <2>9. answer[1].id = calls[s].id /\ Served(s, answer)
      BY <1>4, <2>3, <2>4
  <2>10. calls[s].op = "act" /\ born' \in 0 .. MaxRows /\ born <= born' /\ \A i \in Ids : i > born' => rows'[i] = NoRow
      BY <1>2, <1>4, <2>8
  <2> QED BY <1>1, <2>4, <2>5, <2>7, <2>9, <2>10, RowsServed
<1>5. CASE op = "remove" /\ There(id) /\ UNCHANGED born /\ rows' = [rows EXCEPT ![id] = NoRow]
           /\ Served(s, <<>>)
  <2>1. id \in Ids
      BY <1>1, <1>2, <1>5 DEF CallOK, Busy
  <2>2. <<>> \in Seq(RowRec)
      OBVIOUS
  <2>3. /\ rows' \in [Ids -> Nat \cup {NoRow}] /\ rows'[id] = NoRow
        /\ \A i \in Ids : rows[i] = NoRow => rows'[i] = NoRow
      BY <1>2, <1>5, <2>1
  <2>4. \A i \in 1 .. born : ~There(i) => rows'[i] = NoRow
      BY <1>2, <2>3 DEF There
  <2>5. \A i \in Ids : i > born' => rows'[i] = NoRow
      BY <1>2, <1>5, <2>3
  <2>6. /\ calls[s].op = "remove" /\ born' \in 0 .. MaxRows /\ born <= born'
        /\ rows'[calls[s].id] = NoRow
      BY <1>2, <1>5, <2>3
  <2>7. Served(s, <<>>) /\ rows' \in [Ids -> Nat \cup {NoRow}]
      BY <1>5, <2>3
  <2> QED BY <1>1, <2>2, <2>4, <2>5, <2>6, <2>7, RowsServed
<1>6. ASSUME op = "create", NEW new \in Ids, new = born + 1, born' = new, rows' = [rows EXCEPT ![new] = 0],
             Served(s, <<[id |-> new, version |-> 0]>>)
      PROVE  RowsInv'
  <2>1. PICK r \in RowRec : r = [id |-> new, version |-> 0]
      BY DEF RowRec
  <2>2. PICK answer \in Seq(RowRec) : answer = <<r>>
    <3>1. \A x \in RowRec : <<x>> \in Seq(RowRec)
        OBVIOUS
    <3> QED BY <3>1
  <2>3. rows' \in [Ids -> Nat \cup {NoRow}] /\ \A i \in Ids \ {new} : rows'[i] = rows[i]
      BY <1>2, <1>6
  <2>4. \A i \in 1 .. born : ~There(i) => rows'[i] = NoRow
      BY <1>2, <1>6, <2>3 DEF There
  <2>5. \A i \in Ids : i > born' => rows'[i] = NoRow
      BY <1>2, <1>6, <2>3
  <2>6. new \in 1 .. born' /\ new > born /\ answer = <<[id |-> new, version |-> 0]>>
      BY <1>2, <1>6, <2>1, <2>2
  <2>7. Served(s, answer) /\ born' \in 0 .. MaxRows /\ born <= born'
      BY <1>2, <1>6, <2>1, <2>2
  <2> QED BY <1>1, <1>6, <2>3, <2>4, <2>5, <2>6, <2>7, RowsServed
<1>7. CASE Refused(s) /\ UNCHANGED <<rows, born>>
  <2>1. PICK c \in CallRec : /\ calls' = [calls EXCEPT ![s] = c]
                             /\ c.pc = "idle" \/ (c.pc = "failed" /\ calls[s].pc = "sent")
                             /\ c.pc # "idle" => c.op = calls[s].op /\ c.id = calls[s].id
    <3>1. CASE calls[s].pc = "orphan"
      <4>1. NoRequest \in CallRec /\ NoRequest.pc = "idle"
        <5>1. <<>> \in Seq(RowRec)
            OBVIOUS
        <5> QED BY <5>1 DEF NoRequest, CallRec
      <4> QED BY <1>7, <3>1, <4>1 DEF Refused
    <3>2. CASE calls[s].pc = "sent"
      <4>1. \A x \in CallRec : LET y == [x EXCEPT !.pc = "failed"]
                               IN y \in CallRec /\ y.pc = "failed" /\ y.op = x.op /\ y.id = x.id
          BY DEF CallRec
      <4>2. calls' = [calls EXCEPT ![s] = [calls[s] EXCEPT !.pc = "failed"]]
          BY <1>7, <3>2 DEF Refused
      <4> QED BY <1>2, <3>2, <4>1, <4>2
    <3> QED BY <1>1, <3>1, <3>2
  <2>2. ListsOK' /\ GoneRowsStayGone' /\ born <= born' /\ \A i \in 1 .. born : ~There(i) => ~There(i)'
      BY <1>1, <1>2, <1>7, <2>1 DEF RowsInv, ListsOK, There, GoneRowsStayGone
  <2>3. calls[s].pc # "idle"
      BY <1>1
  <2> QED BY <1>1, <2>1, <2>2, <2>3, RequestFades
<1> QED BY <1>3, <1>4, <1>5, <1>6, <1>7 DEF Serve

LEMMA RowsElsewhere ==
    ASSUME RowsInv, NEW id \in Ids, Elsewhere(id)
    PROVE  RowsInv'
<1>1. /\ rows \in [Ids -> Nat \cup {NoRow}] /\ rows[id] \in Nat /\ rows' = [rows EXCEPT ![id] = rows[id] + 1]
      /\ UNCHANGED <<kind, born, list, calls, removed>> /\ excuse' = TRUE /\ NoRow \notin Nat
    BY RowsAssumption DEF Elsewhere, There, RowsInv, ListsOK
<1>2. rows' \in [Ids -> Nat \cup {NoRow}] /\ \A i \in Ids : There(i)' <=> There(i)
    BY <1>1 DEF There
<1>3. ListsOK' /\ GoneRowsStayGone'
    BY <1>1, <1>2 DEF RowsInv, ListsOK, GoneRowsStayGone
<1>4. ASSUME NEW s \in Slots PROVE CallOK(s)'
  <2>1. CallOK(s) /\ 1 .. born \subseteq Ids
      BY RowsAssumption DEF RowsInv, ListsOK, Ids
  <2>2. Ready(s, "remove")' => ~There(calls[s].id)'
    <3>1. Ready(s, "remove") => calls[s].id \in Ids /\ ~There(calls[s].id)
        BY <2>1 DEF CallOK, Ready, Busy
    <3>2. There(calls[s].id)' <=> rows'[calls[s].id] # NoRow
        BY <1>1 DEF There
    <3> QED BY <1>1, <1>2, <3>1, <3>2 DEF Ready, There
  <2> QED BY <1>1, <2>1, <2>2 DEF CallOK, Busy, Live, Ready, About, Fetching, InFlight
<1> QED BY <1>1, <1>3, <1>4 DEF RowsInv, Fetching, InFlight

(* What an answer makes of the list stays made of rows, and the page puts   *)
(* back none that it has removed.                                           *)
LEMMA PatchedList ==
    ASSUME RowsInv, NEW s \in Slots, Answered(s)
    PROVE  /\ list' \in Seq(RowRec)
           /\ \A n \in DOMAIN list' : list'[n].id <= born /\ list'[n].id \notin removed'
<1>1. /\ CallOK(s) /\ calls[s] \in CallRec /\ calls[s].pc = "served"
      /\ list' = Patched(calls[s].op, calls[s].id, calls[s].answer)
      /\ removed' = IF calls[s].op = "remove" THEN removed \cup {calls[s].id} ELSE removed
    BY DEF Answered, RowsInv, ListsOK
<1>2. /\ list \in Seq(RowRec) /\ \A n \in DOMAIN list : list[n].id <= born /\ list[n].id \notin removed
      /\ born \in Nat
    BY DEF RowsInv, ListsOK, GoneRowsStayGone
<1>3. CASE calls[s].op = "fetch"
  <2>1. list' = calls[s].answer /\ removed' = removed /\ calls[s].answer \in Seq(RowRec)
      BY <1>1, <1>3 DEF Patched, CallRec
  <2>2. Fetching
      BY <1>1, <1>3 DEF Fetching, InFlight
  <2>3. removed = {}
      BY <2>2 DEF RowsInv
  <2> QED BY <1>1, <1>3, <2>1, <2>3 DEF CallOK, Ready
<1>4. CASE calls[s].op = "create"
  <2>1. list' = calls[s].answer \o list /\ removed' = removed
      BY <1>1, <1>4 DEF Patched
  <2>2. PICK new \in 1 .. born : calls[s].answer = <<[id |-> new, version |-> 0]>> /\ new \notin removed
      BY <1>1, <1>4 DEF CallOK, Ready
  <2>3. PICK r \in RowRec : r = [id |-> new, version |-> 0]
    <3>1. new \in Ids
        BY RowsAssumption DEF Ids, RowsInv, ListsOK
    <3> QED BY <3>1 DEF RowRec
  <2>4. list' = <<r>> \o list /\ r.id = new
      BY <2>1, <2>2, <2>3
  <2>5. \A x \in RowRec, l \in Seq(RowRec) :
            /\ <<x>> \o l \in Seq(RowRec)
            /\ \A n \in DOMAIN (<<x>> \o l) : n = 1 \/ n - 1 \in DOMAIN l
            /\ \A n \in DOMAIN (<<x>> \o l) : (<<x>> \o l)[n] = IF n = 1 THEN x ELSE l[n - 1]
      OBVIOUS
  <2>6. \A n \in DOMAIN list' : list'[n] = r \/ \E m \in DOMAIN list : list'[n] = list[m]
      BY <1>2, <2>4, <2>5
  <2>7. list' \in Seq(RowRec)
      BY <1>2, <2>4, <2>5
  <2> QED BY <1>2, <2>1, <2>2, <2>4, <2>6, <2>7
<1>5. CASE calls[s].op = "act"
  <2>1. PICK r : r = calls[s].answer[1]
      OBVIOUS
  <2>2. list' = [n \in DOMAIN list |-> IF list[n].id = calls[s].id THEN r ELSE list[n]] /\ removed' = removed
      BY <1>1, <1>5, <2>1 DEF Patched
  <2>3. r \in RowRec /\ r.id = calls[s].id
    <3>1. Len(calls[s].answer) = 1 /\ r.id = calls[s].id /\ calls[s].answer \in Seq(RowRec)
        BY <1>1, <1>5, <2>1 DEF CallOK, Ready, CallRec
    <3>2. \A a \in Seq(RowRec) : Len(a) = 1 => a[1] \in RowRec
        OBVIOUS
    <3> QED BY <2>1, <3>1, <3>2
  <2>4. /\ DOMAIN list' = DOMAIN list
        /\ \A n \in DOMAIN list : list'[n].id = list[n].id /\ list'[n] \in RowRec
      BY <1>2, <2>2, <2>3
  <2>5. list' \in Seq(RowRec)
    <3>1. list' = [n \in 1 .. Len(list) |-> IF list[n].id = calls[s].id THEN r ELSE list[n]] /\ Len(list) \in Nat
        BY <1>2, <2>2
    <3>2. \A n \in 1 .. Len(list) : (IF list[n].id = calls[s].id THEN r ELSE list[n]) \in RowRec
        BY <1>2, <2>3
    <3> QED BY <3>1, <3>2
  <2> QED BY <1>2, <2>2, <2>4, <2>5
<1>6. CASE calls[s].op = "remove"
  <2>1. list' = Without(calls[s].id) /\ removed' = removed \cup {calls[s].id}
      BY <1>1, <1>6 DEF Patched
  <2>2. /\ list' \in Seq(RowRec)
        /\ \A n \in DOMAIN list' : \E m \in DOMAIN list : list[m] = list'[n] /\ list[m].id # calls[s].id
      BY <1>2, <2>1, WithoutIs
  <2> QED BY <1>2, <2>1, <2>2
<1>7. calls[s].op \in {"fetch", "act", "remove", "create"}
    BY <1>1 DEF CallRec
<1> QED BY <1>3, <1>4, <1>5, <1>6, <1>7

LEMMA RowsAnswered ==
    ASSUME RowsInv, NEW s \in Slots, Answered(s)
    PROVE  RowsInv'
<1>1. /\ UNCHANGED <<kind, rows, born, spent, excuse>> /\ calls[s].pc = "served"
      /\ calls' = [calls EXCEPT ![s] = NoRequest]
      /\ removed' = IF calls[s].op = "remove" THEN removed \cup {calls[s].id} ELSE removed
      /\ CallOK(s) /\ born \in Nat
    BY DEF Answered, Ends, RowsInv, ListsOK
<1>2. NoRequest \in CallRec /\ NoRequest.pc = "idle"
  <2>1. <<>> \in Seq(RowRec)
      OBVIOUS
  <2> QED BY <2>1 DEF NoRequest, CallRec
<1>3. calls' \in [Slots -> CallRec]
    BY <1>1, <1>2 DEF RowsInv, ListsOK
<1>4. /\ removed' \subseteq 1 .. born
      /\ removed' = removed \/ (Busy(s, "remove") /\ removed' = removed \cup {calls[s].id})
    BY <1>1 DEF RowsInv, ListsOK, CallOK, Busy
<1>5. ListsOK' /\ GoneRowsStayGone'
  <2>1. /\ kind' \in {"bots", "orders", "keys", "portfolio"} /\ born' \in 0 .. MaxRows /\ excuse' \in BOOLEAN
        /\ rows' \in [Ids -> Nat \cup {NoRow}] /\ \A id \in Ids : id > born' => ~There(id)'
      BY <1>1 DEF RowsInv, ListsOK, There
  <2> QED BY <1>1, <1>3, <1>4, <2>1, PatchedList DEF ListsOK, GoneRowsStayGone
<1>6. born <= born' /\ \A id \in 1 .. born : ~There(id) => ~There(id)'
    BY <1>1 DEF There
<1> QED BY <1>1, <1>2, <1>4, <1>5, <1>6, RequestFades

(* A request fails, loses its answer, or times out.                         *)
LEMMA RowsFade ==
    ASSUME RowsInv, NEW s \in Slots, Fails(s) \/ LoseAnswer(s) \/ GiveUp(s)
    PROVE  RowsInv'
<1>1. UNCHANGED <<kind, rows, born, list, removed>> /\ excuse' \in BOOLEAN /\ calls[s] \in CallRec
      /\ calls[s].pc \in {"sent", "served", "failed"}
    BY DEF Fails, LoseAnswer, GiveUp, RowsInv, ListsOK
<1>2. PICK c \in CallRec : /\ calls' = [calls EXCEPT ![s] = c]
                           /\ c.pc # "served"
                           /\ c.pc # "idle" => c.op = calls[s].op /\ c.id = calls[s].id
  <2>1. <<>> \in Seq(RowRec)
      OBVIOUS
  <2>2. CASE Fails(s)
    <3>1. NoRequest \in CallRec /\ NoRequest.pc = "idle"
        BY <2>1 DEF NoRequest, CallRec
    <3> QED BY <2>2, <3>1 DEF Fails, Ends
  <2>3. CASE LoseAnswer(s)
    <3>1. \A x \in CallRec : LET y == [x EXCEPT !.pc = "sent", !.again = TRUE, !.answer = <<>>]
                             IN y \in CallRec /\ y.pc = "sent" /\ y.op = x.op /\ y.id = x.id
        BY <2>1 DEF CallRec
    <3>2. \A x \in CallRec : LET y == [x EXCEPT !.pc = "failed"]
                             IN y \in CallRec /\ y.pc = "failed" /\ y.op = x.op /\ y.id = x.id
        BY DEF CallRec
    <3>3. \/ calls' = [calls EXCEPT ![s] = [calls[s] EXCEPT !.pc = "sent", !.again = TRUE, !.answer = <<>>]]
          \/ calls' = [calls EXCEPT ![s] = [calls[s] EXCEPT !.pc = "failed"]]
      <4>1. \/ calls' = [calls EXCEPT ![s].pc = "sent", ![s].again = TRUE, ![s].answer = <<>>]
            \/ calls' = [calls EXCEPT ![s].pc = "failed"]
          BY <2>3 DEF LoseAnswer
      <4> QED BY <4>1 DEF RowsInv, ListsOK
    <3> QED BY <1>1, <3>1, <3>2, <3>3
  <2>4. CASE GiveUp(s)
    <3>1. \A x \in CallRec : LET y == [x EXCEPT !.pc = "orphan"]
                             IN y \in CallRec /\ y.pc = "orphan" /\ y.op = x.op /\ y.id = x.id
        BY DEF CallRec
    <3>2. calls' = [calls EXCEPT ![s] = [calls[s] EXCEPT !.pc = "orphan"]]
        BY <2>4 DEF GiveUp
    <3> QED BY <1>1, <3>1, <3>2
  <2> QED BY <2>2, <2>3, <2>4
<1>3. /\ ListsOK' /\ GoneRowsStayGone' /\ born <= born'
      /\ \A id \in 1 .. born : ~There(id) => ~There(id)'
    BY <1>1, <1>2 DEF RowsInv, ListsOK, There, GoneRowsStayGone
<1> QED BY <1>1, <1>2, <1>3, RequestFades

LEMMA RowsStep == RowsInv /\ [ListsNext]_lists => RowsInv'
<1> SUFFICES ASSUME RowsInv, [ListsNext]_lists PROVE RowsInv'
    OBVIOUS
<1>1. CASE UNCHANGED lists
    BY <1>1 DEF lists, RowsInv, ListsOK, CallOK, Busy, Live, Ready, About, There, Fetching, InFlight, GoneRowsStayGone
<1>2. CASE ListsNext
    BY <1>2, RowsUser, RowsElsewhere, RowsServe, RowsAnswered, RowsFade DEF ListsNext
<1> QED BY <1>1, <1>2

(* A row that the page has removed never comes back to its list.            *)
THEOREM GoneRowsDoStayGone == ListsSpec => []GoneRowsStayGone
<1>1. RowsInv => GoneRowsStayGone
    BY DEF RowsInv
<1> QED BY <1>1, RowsStart, RowsStep, PTL DEF ListsSpec

LEMMA OthersStay ==
    ASSUME ListsOK, NEW s \in Slots, NEW c, calls' = [calls EXCEPT ![s] = c]
    PROVE  /\ calls'[s] = c /\ \A q \in Slots \ {s} : calls'[q] = calls[q]
           /\ \A q \in Slots \ {s} : \A op : /\ Busy(q, op)' <=> Busy(q, op)
                                             /\ Live(q, op)' <=> Live(q, op)
                                             /\ Ready(q, op)' <=> Ready(q, op)
           /\ \A op : Busy(s, op)' <=> c.pc # "idle" /\ c.op = op
           /\ \A op : Ready(s, op)' <=> c.pc = "served" /\ c.op = op
<1>1. calls'[s] = c /\ \A q \in Slots \ {s} : calls'[q] = calls[q]
    BY DEF ListsOK
<1> QED BY <1>1 DEF Busy, Live, Ready

LEMMA TruthStart == ListsInit => TruthInv
<1> SUFFICES ASSUME ListsInit PROVE TruthInv
    OBVIOUS
<1>1. PICK first : first = CHOOSE s \in Slots : TRUE
    OBVIOUS
<1>2. first \in Slots
    BY <1>1, RowsAssumption
<1>3. \A s \in Slots : /\ s = first => calls[s].pc = "sent" /\ calls[s].op = "fetch"
                       /\ s # first => calls[s].pc = "idle"
  <2>1. /\ [NoRequest EXCEPT !.pc = "sent"].pc = "sent" /\ [NoRequest EXCEPT !.pc = "sent"].op = "fetch"
        /\ NoRequest.pc = "idle"
      BY DEF NoRequest
  <2>2. calls = [s \in Slots |-> IF s = first THEN [NoRequest EXCEPT !.pc = "sent"] ELSE NoRequest]
      BY <1>1 DEF ListsInit
  <2> QED BY <2>1, <2>2
<1>4. ~NoFetch
    BY <1>2, <1>3 DEF NoFetch, Busy
<1>5. \A s \in Slots : Alone(s)
    BY <1>3 DEF Alone, Busy, Ready
<1> QED BY <1>4, <1>5 DEF TruthInv

LEMMA TruthSend ==
    ASSUME RowsInv, TruthInv, NEW op, NEW id, Send(op, id)
    PROVE  TruthInv'
<1> SUFFICES ASSUME ~excuse' PROVE (\A s \in Slots : Alone(s)') /\ (NoFetch' => ListFollows')
    BY DEF TruthInv
<1>1. /\ ~excuse /\ ~Crosses(op, id) /\ UNCHANGED <<kind, rows, born, list, removed>>
      /\ (\A s \in Slots : Alone(s)) /\ (NoFetch => ListFollows)
    BY DEF Send, TruthInv
<1>2. PICK s \in Slots : /\ calls[s].pc = "idle"
                         /\ calls' = [calls EXCEPT ![s] = [NoRequest EXCEPT !.pc = "sent", !.op = op, !.id = id]]
    BY DEF Send
<1>3. PICK c : c = [NoRequest EXCEPT !.pc = "sent", !.op = op, !.id = id]
    OBVIOUS
<1>4. c.pc = "sent" /\ c.op = op /\ c.id = id
    BY <1>3 DEF NoRequest
<1>5. /\ calls'[s] = c /\ \A q \in Slots \ {s} : calls'[q] = calls[q]
      /\ \A q \in Slots \ {s} : \A o : (Busy(q, o)' <=> Busy(q, o)) /\ (Ready(q, o)' <=> Ready(q, o))
      /\ \A o : (Busy(s, o)' <=> o = op) /\ ~Ready(s, o)' /\ ~Ready(s, o) /\ ~Busy(s, o)
    BY <1>2, <1>3, <1>4, OthersStay, ZenonT(30) DEF RowsInv, Busy, Ready
<1>6. \A q \in Slots : calls[q].pc # "idle" =>
          op # "fetch" /\ calls[q].op # "fetch" /\ ~(op = "act" /\ calls[q].op = "act" /\ calls[q].id = id)
    BY <1>1 DEF Crosses
<1>7. \A q \in Slots : \A o : Ready(q, o)' <=> Ready(q, o)
    BY <1>5
<1>8. ASSUME NEW q \in Slots PROVE Alone(q)'
  <2>1. calls'[q].pc # "orphan"
      BY <1>1, <1>4, <1>5 DEF Alone
  <2>2. Busy(q, "fetch")' => \A p \in Slots : calls'[p].pc # "idle" => p = q
      BY <1>4, <1>5, <1>6 DEF Busy
  <2>3. Busy(q, "act")' => \A p \in Slots : Busy(p, "act")' /\ calls'[p].id = calls'[q].id => p = q
      BY <1>1, <1>4, <1>5, <1>6 DEF Busy, Alone
  <2>4. \A o : Ready(q, o)' => calls'[q] = calls[q] /\ Ready(q, o)
      BY <1>5
  <2>5. Ready(q, "fetch")' => Lists(calls[q].answer)'
      BY <1>1, <1>5, <2>4 DEF Alone, Lists, There, Descending
  <2>6. Ready(q, "act")' /\ There(calls[q].id)' => calls'[q].answer[1].version = rows'[calls'[q].id]
      BY <1>1, <2>4 DEF Alone, There
  <2>7. Ready(q, "create")' => /\ rows'[calls'[q].answer[1].id] = 0
                               /\ \A n \in DOMAIN list' : list'[n].id < calls'[q].answer[1].id
      BY <1>1, <2>4 DEF Alone
  <2> QED BY <2>1, <2>2, <2>3, <2>5, <2>6, <2>7 DEF Alone
<1>9. ASSUME NoFetch' PROVE ListFollows'
  <2>1. NoFetch
      BY <1>5, <1>9 DEF NoFetch
  <2>2. \A q \in Slots : \A o : Ready(q, o) => calls'[q] = calls[q]
      BY <1>5
  <2>3. \A o, i : OnItsWay(o, i) => OnItsWay(o, i)'
      BY <1>7, <2>2 DEF OnItsWay
  <2>4. \A n \in DOMAIN list : RowFollows(n) => RowFollows(n)'
      BY <1>1, <2>3 DEF RowFollows, There
  <2>5. ASSUME NEW i \in Ids, There(i)'
        PROVE  Shown(i)' \/ \E q \in Slots : Ready(q, "create")' /\ calls'[q].answer[1].id = i
    <3>1. There(i)
        BY <1>1, <2>5 DEF There
    <3> QED BY <1>1, <1>7, <2>1, <2>2, <3>1 DEF ListFollows, Shown
  <2> QED BY <1>1, <2>1, <2>4, <2>5 DEF ListFollows, Descending
<1> QED BY <1>8, <1>9

(* While a request that is not a fetch is under way and nothing excuses the *)
(* page, no fetch is.                                                       *)
LEMMA NoOtherFetch ==
    ASSUME NEW s \in Slots, \A q \in Slots : Alone(q), calls[s].pc # "idle", calls[s].op # "fetch"
    PROVE  NoFetch
    BY DEF Alone, NoFetch, Busy

(* The server has served a request in another way than a fetch.             *)
LEMMA TruthServed ==
    ASSUME RowsInv, \A q \in Slots : Alone(q), ListFollows, NEW s \in Slots,
           calls[s].pc = "sent", calls[s].op # "fetch",
           NEW c, calls' = [calls EXCEPT ![s] = c], c.pc \in {"served", "failed"},
           c.op = calls[s].op, c.id = calls[s].id,
           UNCHANGED <<kind, list, removed>>,
           \A q \in Slots \ {s} : Ready(q, "act") =>
              rows'[calls[q].id] = rows[calls[q].id] \/ rows'[calls[q].id] = NoRow,
           \A q \in Slots \ {s} : Ready(q, "create") =>
              rows'[calls[q].answer[1].id] = rows[calls[q].answer[1].id],
           c.pc = "served" /\ c.op = "act" => c.answer[1].version = rows'[c.id],
           c.pc = "served" /\ c.op = "create" =>
              /\ rows'[c.answer[1].id] = 0
              /\ \A n \in DOMAIN list : list[n].id < c.answer[1].id,
           \A n \in DOMAIN list :
              \/ rows'[list[n].id] = rows[list[n].id]
              \/ /\ c.pc = "served" /\ c.op = "act" /\ c.id = list[n].id
                 /\ There(c.id) /\ rows'[c.id] # NoRow
              \/ c.pc = "served" /\ c.op = "remove" /\ c.id = list[n].id /\ rows'[c.id] = NoRow,
           \A i \in Ids : rows'[i] # NoRow => There(i) \/
              (c.pc = "served" /\ c.op = "create" /\ c.answer[1].id = i)
    PROVE  (\A q \in Slots : Alone(q)') /\ ListFollows'
<1>1. /\ calls'[s] = c /\ \A q \in Slots \ {s} : calls'[q] = calls[q]
      /\ \A q \in Slots \ {s} : \A o : (Busy(q, o)' <=> Busy(q, o)) /\ (Ready(q, o)' <=> Ready(q, o))
      /\ \A o : (Busy(s, o)' <=> Busy(s, o)) /\ ~Ready(s, o)
      /\ \A o : Ready(s, o)' <=> c.pc = "served" /\ c.op = o
  <2>1. /\ calls'[s] = c /\ \A q \in Slots \ {s} : calls'[q] = calls[q]
        /\ \A q \in Slots \ {s} : \A o : (Busy(q, o)' <=> Busy(q, o)) /\ (Ready(q, o)' <=> Ready(q, o))
      BY OthersStay DEF RowsInv
  <2> QED BY <2>1 DEF Busy, Ready
<1>2. NoFetch /\ \A q \in Slots : ~Busy(q, "fetch")
    BY NoOtherFetch DEF NoFetch
<1>3. ASSUME NEW q \in Slots PROVE Alone(q)'
  <2>1. calls'[q].pc # "orphan"
      BY <1>1 DEF Alone
  <2>2. ~Busy(q, "fetch")' /\ ~Ready(q, "fetch")'
      BY <1>1, <1>2 DEF Busy, Ready
  <2>3. Busy(q, "act")' => \A p \in Slots : Busy(p, "act")' /\ calls'[p].id = calls'[q].id => p = q
      BY <1>1 DEF Alone
  <2>4. Ready(q, "act")' /\ There(calls[q].id)' => calls'[q].answer[1].version = rows'[calls'[q].id]
    <3> SUFFICES ASSUME Ready(q, "act")', There(calls[q].id)'
                 PROVE  calls'[q].answer[1].version = rows'[calls'[q].id]
        OBVIOUS
    <3>1. CASE q = s
        BY <1>1, <3>1
    <3>2. CASE q # s
      <4>1. Ready(q, "act") /\ calls'[q] = calls[q] /\ rows'[calls[q].id] # NoRow
          BY <1>1, <3>2 DEF There
      <4>2. rows'[calls[q].id] = rows[calls[q].id] /\ There(calls[q].id)
          BY <3>2, <4>1 DEF There
      <4> QED BY <4>1, <4>2 DEF Alone
    <3> QED BY <3>1, <3>2
  <2>5. Ready(q, "create")' => /\ rows'[calls'[q].answer[1].id] = 0
                               /\ \A n \in DOMAIN list' : list'[n].id < calls'[q].answer[1].id
      BY <1>1 DEF Alone
  <2> QED BY <2>1, <2>2, <2>3, <2>4, <2>5 DEF Alone
<1>4. \A o, i : OnItsWay(o, i) => OnItsWay(o, i)'
    BY <1>1 DEF OnItsWay
<1>5. \A i : c.pc = "served" /\ c.id = i => OnItsWay(c.op, i)'
    BY <1>1 DEF OnItsWay
<1>6. ASSUME NEW n \in DOMAIN list PROVE RowFollows(n)'
  <2>1. PICK i : i = list[n].id /\ i = list'[n].id /\ list'[n] = list[n]
      OBVIOUS
  <2>2. /\ There(i) \/ OnItsWay("remove", i)
        /\ There(i) => list[n].version = rows[i] \/ OnItsWay("act", i)
      BY <2>1 DEF ListFollows, RowFollows
  <2>3. \/ rows'[i] = rows[i]
        \/ c.pc = "served" /\ c.op = "act" /\ c.id = i /\ There(i) /\ rows'[i] # NoRow
        \/ c.pc = "served" /\ c.op = "remove" /\ c.id = i /\ rows'[i] = NoRow
      BY <2>1
  <2>4. /\ There(i)' \/ OnItsWay("remove", i)'
        /\ There(i)' => list'[n].version = rows'[i] \/ OnItsWay("act", i)'
      BY <1>4, <1>5, <2>1, <2>2, <2>3 DEF There
  <2> QED BY <2>1, <2>4 DEF RowFollows
<1>7. ASSUME NEW i \in Ids, There(i)'
      PROVE  Shown(i)' \/ \E q \in Slots : Ready(q, "create")' /\ calls'[q].answer[1].id = i
  <2>1. There(i) \/ (c.pc = "served" /\ c.op = "create" /\ c.answer[1].id = i)
      BY <1>7 DEF There
  <2>2. CASE There(i)
    <3>1. Shown(i) \/ \E q \in Slots : Ready(q, "create") /\ calls[q].answer[1].id = i
        BY <2>2 DEF ListFollows
    <3> QED BY <1>1, <3>1 DEF Shown
  <2>3. CASE c.pc = "served" /\ c.op = "create" /\ c.answer[1].id = i
      BY <1>1, <2>3
  <2> QED BY <2>1, <2>2, <2>3
<1> QED BY <1>3, <1>6, <1>7 DEF ListFollows, Descending

LEMMA TruthServe ==
    ASSUME RowsInv, TruthInv, NEW s \in Slots, Serve(s)
    PROVE  TruthInv'
<1> SUFFICES ASSUME ~excuse' PROVE (\A q \in Slots : Alone(q)') /\ (NoFetch' => ListFollows')
    BY DEF TruthInv
<1> DEFINE id == calls[s].id
           op == calls[s].op
<1>1. /\ ~excuse /\ UNCHANGED <<kind, list, busy, spent, removed, excuse>>
      /\ (\A q \in Slots : Alone(q)) /\ (NoFetch => ListFollows) /\ calls[s].pc = "sent"
    BY DEF Serve, TruthInv, Alone
<1>2. /\ calls[s] \in CallRec /\ CallOK(s) /\ born \in Nat
      /\ rows \in [Ids -> Nat \cup {NoRow}] /\ NoRow \notin Nat /\ 1 .. born \subseteq Ids
      /\ \A n \in DOMAIN list : list[n].id \in Ids /\ list[n].id \in Nat /\ list[n].id <= born
  <2>1. \A n \in DOMAIN list : list[n] \in RowRec
      BY DEF RowsInv, ListsOK
  <2> QED BY <2>1, RowsAssumption DEF RowsInv, ListsOK, There, Ids, RowRec
<1>3. \A answer : Served(s, answer) =>
          \E c : /\ calls' = [calls EXCEPT ![s] = c]
                 /\ c.pc = "served" /\ c.op = op /\ c.id = id /\ c.answer = answer
  <2> SUFFICES ASSUME NEW answer, Served(s, answer)
               PROVE  \E c : /\ calls' = [calls EXCEPT ![s] = c]
                             /\ c.pc = "served" /\ c.op = op /\ c.id = id /\ c.answer = answer
      OBVIOUS
  <2>1. PICK c : c = [calls[s] EXCEPT !.pc = "served", !.answer = answer]
      OBVIOUS
  <2>2. c.pc = "served" /\ c.op = op /\ c.id = id /\ c.answer = answer
      BY <1>2, <2>1 DEF CallRec
  <2>3. calls' = [calls EXCEPT ![s] = c]
      BY <1>1, <2>1 DEF Served
  <2> QED BY <2>2, <2>3
<1>4. \A q \in Slots \ {s} : Ready(q, "act") => calls[q].id \in 1 .. born
    BY DEF RowsInv, CallOK, Ready, Busy
<1>5. \A q \in Slots \ {s} : Ready(q, "create") =>
          /\ calls[q].answer[1].id \in 1 .. born
          /\ op \in {"act", "remove"} => calls[q].answer[1].id # id
          /\ op # "create"
  <2> SUFFICES ASSUME NEW q \in Slots \ {s}, Ready(q, "create")
               PROVE  /\ calls[q].answer[1].id \in 1 .. born
                      /\ op \in {"act", "remove"} => calls[q].answer[1].id # id
                      /\ op # "create"
      OBVIOUS
  <2>1. PICK new \in 1 .. born : calls[q].answer = <<[id |-> new, version |-> 0]>> /\ ~About(s, new)
      BY DEF RowsInv, CallOK
  <2>2. calls[q].answer[1].id = new
      BY <2>1
  <2>3. op # "create"
      BY <1>1 DEF RowsInv, CallOK, Ready, Live
  <2> QED BY <1>1, <2>1, <2>2, <2>3 DEF About, Busy
<1>6. CASE op = "fetch"
  <2>1. \A q \in Slots \ {s} : calls[q].pc = "idle"
      BY <1>1, <1>6 DEF Alone, Busy
  <2>2. PICK c : /\ calls' = [calls EXCEPT ![s] = c] /\ c.op = "fetch" /\ UNCHANGED <<rows, born>>
                 /\ \/ c.pc = "served" /\ c.answer = ServerList
                    \/ c.pc = "failed"
    <3>1. CASE Served(s, ServerList) /\ UNCHANGED <<rows, born>>
        BY <1>3, <1>6, <3>1
    <3>2. CASE Refused(s) /\ UNCHANGED <<rows, born>>
      <4>1. PICK c : c = [calls[s] EXCEPT !.pc = "failed"]
          OBVIOUS
      <4>2. c.pc = "failed" /\ c.op = op
          BY <1>2, <4>1 DEF CallRec
      <4> QED BY <1>1, <1>6, <3>2, <4>1, <4>2 DEF Refused
    <3> QED BY <1>6, <3>1, <3>2 DEF Serve
  <2>3. /\ calls'[s] = c /\ \A q \in Slots \ {s} : calls'[q].pc = "idle"
        /\ Busy(s, "fetch")' /\ ~Busy(s, "act")' /\ ~Ready(s, "act")' /\ ~Ready(s, "create")'
        /\ \A q \in Slots \ {s} : \A o : ~Busy(q, o)' /\ ~Ready(q, o)'
        /\ Ready(s, "fetch")' => c.answer = ServerList
    <3>1. calls'[s] = c /\ \A q \in Slots \ {s} : calls'[q] = calls[q]
        BY <2>2, OthersStay DEF RowsInv
    <3> QED BY <2>1, <2>2, <3>1 DEF Busy, Ready
  <2>4. Ready(s, "fetch")' => Lists(calls[s].answer)'
    <3>1. Lists(ServerList)
        BY ServerLists DEF RowsInv
    <3>2. Ready(s, "fetch")' => Lists(c.answer)
        BY <2>3, <3>1
    <3> QED BY <2>2, <2>3, <3>2 DEF Lists, There, Descending
  <2>5. calls'[s].pc # "orphan"
      BY <2>2, <2>3
  <2>6. \A q \in Slots : Alone(q)'
      BY <2>3, <2>4, <2>5 DEF Alone
  <2>7. ~NoFetch'
      BY <2>3 DEF NoFetch
  <2> QED BY <2>6, <2>7
<1>7. ASSUME op # "fetch" PROVE (\A q \in Slots : Alone(q)') /\ ListFollows'
  <2>1. ListFollows
      BY <1>1, <1>7, NoOtherFetch
  <2>2. CASE op = "act" /\ There(id) /\ UNCHANGED born /\ rows' = [rows EXCEPT ![id] = @ + 1]
             /\ Served(s, <<[id |-> id, version |-> rows[id] + 1]>>)
    <3>1. PICK c : /\ calls' = [calls EXCEPT ![s] = c]
                   /\ c.pc = "served" /\ c.op = "act" /\ c.id = id
                   /\ c.answer = <<[id |-> id, version |-> rows[id] + 1]>>
        BY <1>3, <2>2
    <3>2. id \in Ids /\ rows[id] \in Nat
        BY <1>1, <1>2, <2>2 DEF CallOK, Busy, There
    <3>3. /\ rows'[id] = rows[id] + 1 /\ \A i \in Ids : i # id => rows'[i] = rows[i]
          /\ \A i \in Ids : rows'[i] # NoRow <=> There(i)
        BY <1>2, <2>2, <3>2 DEF There
    <3>4. \A q \in Slots \ {s} : Ready(q, "act") => calls[q].id # id /\ calls[q].id \in Ids
        BY <1>1, <1>2, <1>4, <2>2 DEF Alone, Busy, Ready
    <3>5. \A q \in Slots \ {s} : Ready(q, "create") =>
              calls[q].answer[1].id # id /\ calls[q].answer[1].id \in Ids
        BY <1>2, <1>5, <2>2
    <3>6. c.answer[1].version = rows'[c.id]
        BY <3>1, <3>3
    <3>7. \A n \in DOMAIN list :
              \/ rows'[list[n].id] = rows[list[n].id]
              \/ /\ c.pc = "served" /\ c.op = "act" /\ c.id = list[n].id
                 /\ There(c.id) /\ rows'[c.id] # NoRow
        BY <1>2, <2>2, <3>1, <3>3
    <3>8. \A q \in Slots \ {s} : Ready(q, "act") => rows'[calls[q].id] = rows[calls[q].id]
        BY <3>3, <3>4
    <3>9. \A q \in Slots \ {s} : Ready(q, "create") =>
              rows'[calls[q].answer[1].id] = rows[calls[q].answer[1].id]
        BY <3>3, <3>5
    <3>10. \A i \in Ids : rows'[i] # NoRow => There(i)
        BY <3>3
    <3>11. c.op = calls[s].op /\ c.id = calls[s].id /\ calls[s].op # "fetch" /\ UNCHANGED <<kind, list, removed>>
        BY <1>1, <2>2, <3>1
    <3> HIDE DEF id, op
    <3> QED BY <1>1, <2>1, <3>1, <3>6, <3>7, <3>8, <3>9, <3>10, <3>11, TruthServed
  <2>3. CASE op = "remove" /\ There(id) /\ UNCHANGED born /\ rows' = [rows EXCEPT ![id] = NoRow]
             /\ Served(s, <<>>)
    <3>1. PICK c : /\ calls' = [calls EXCEPT ![s] = c]
                   /\ c.pc = "served" /\ c.op = "remove" /\ c.id = id
        BY <1>3, <2>3
    <3>2. id \in Ids
        BY <1>1, <1>2, <2>3 DEF CallOK, Busy
    <3>3. /\ rows'[id] = NoRow /\ \A i \in Ids : i # id => rows'[i] = rows[i]
          /\ \A i \in Ids : rows'[i] # NoRow => There(i)
        BY <1>2, <2>3, <3>2 DEF There
    <3>4. \A q \in Slots \ {s} : Ready(q, "act") =>
              rows'[calls[q].id] = rows[calls[q].id] \/ rows'[calls[q].id] = NoRow
        BY <1>2, <1>4, <3>3
    <3>5. \A q \in Slots \ {s} : Ready(q, "create") =>
              calls[q].answer[1].id # id /\ calls[q].answer[1].id \in Ids
        BY <1>2, <1>5, <2>3
    <3>6. \A n \in DOMAIN list :
              \/ rows'[list[n].id] = rows[list[n].id]
              \/ c.pc = "served" /\ c.op = "remove" /\ c.id = list[n].id /\ rows'[c.id] = NoRow
        BY <1>2, <2>3, <3>1, <3>3
    <3>7. \A q \in Slots \ {s} : Ready(q, "create") =>
              rows'[calls[q].answer[1].id] = rows[calls[q].answer[1].id]
        BY <3>3, <3>5
    <3>8. \A i \in Ids : rows'[i] # NoRow => There(i)
        BY <3>3
    <3>9. c.op = calls[s].op /\ c.id = calls[s].id /\ calls[s].op # "fetch" /\ UNCHANGED <<kind, list, removed>>
        BY <1>1, <2>3, <3>1
    <3> HIDE DEF id, op
    <3> QED BY <1>1, <2>1, <3>1, <3>4, <3>6, <3>7, <3>8, <3>9, TruthServed
  <2>4. ASSUME op = "create", NEW new \in Ids, new = born + 1, born' = new, rows' = [rows EXCEPT ![new] = 0],
               Served(s, <<[id |-> new, version |-> 0]>>)
        PROVE  (\A q \in Slots : Alone(q)') /\ ListFollows'
    <3>1. PICK c : /\ calls' = [calls EXCEPT ![s] = c]
                   /\ c.pc = "served" /\ c.op = "create" /\ c.id = id
                   /\ c.answer = <<[id |-> new, version |-> 0]>>
        BY <1>3, <2>4
    <3>2. c.answer[1].id = new
        BY <3>1
    <3>3. /\ rows'[new] = 0 /\ \A i \in Ids : i # new => rows'[i] = rows[i]
          /\ \A i \in 1 .. born : i \in Ids /\ i # new
        BY <1>2, <2>4
    <3>4. \A q \in Slots \ {s} : Ready(q, "act") => rows'[calls[q].id] = rows[calls[q].id]
        BY <1>4, <3>3
    <3>5. \A q \in Slots \ {s} : ~Ready(q, "create")
        BY <1>5, <2>4
    <3>6. \A n \in DOMAIN list : list[n].id < new /\ rows'[list[n].id] = rows[list[n].id]
        BY <1>2, <2>4, <3>3
    <3>7. \A i \in Ids : rows'[i] # NoRow => There(i) \/ c.answer[1].id = i
        BY <3>2, <3>3 DEF There
    <3>8. rows'[c.answer[1].id] = 0 /\ \A n \in DOMAIN list : list[n].id < c.answer[1].id
        BY <3>2, <3>3, <3>6
    <3>9. c.op = calls[s].op /\ c.id = calls[s].id /\ calls[s].op # "fetch" /\ UNCHANGED <<kind, list, removed>>
        BY <1>1, <2>4, <3>1
    <3> HIDE DEF id, op
    <3> QED BY <1>1, <2>1, <3>1, <3>4, <3>5, <3>6, <3>7, <3>8, <3>9, TruthServed
  <2>5. CASE Refused(s) /\ UNCHANGED <<rows, born>>
    <3>1. PICK c : c = [calls[s] EXCEPT !.pc = "failed"]
        OBVIOUS
    <3>2. c.pc = "failed" /\ c.op = op /\ c.id = id
        BY <1>2, <3>1 DEF CallRec
    <3>3. calls' = [calls EXCEPT ![s] = c]
        BY <1>1, <2>5, <3>1 DEF Refused
    <3>4. \A i : rows'[i] = rows[i] /\ (rows'[i] # NoRow => There(i))
        BY <2>5 DEF There
    <3> QED BY <1>1, <1>7, <2>1, <3>2, <3>3, <3>4, TruthServed
  <2> QED BY <1>7, <2>2, <2>3, <2>4, <2>5 DEF Serve
<1> QED BY <1>6, <1>7

LEMMA TruthAnswered ==
    ASSUME RowsInv, TruthInv, NEW s \in Slots, Answered(s)
    PROVE  TruthInv'
<1> SUFFICES ASSUME ~excuse' PROVE (\A q \in Slots : Alone(q)') /\ (NoFetch' => ListFollows')
    BY DEF TruthInv
<1>1. /\ ~excuse /\ UNCHANGED <<kind, rows, born>> /\ calls[s].pc = "served"
      /\ calls' = [calls EXCEPT ![s] = NoRequest]
      /\ list' = Patched(calls[s].op, calls[s].id, calls[s].answer)
      /\ (\A q \in Slots : Alone(q)) /\ (NoFetch => ListFollows)
    BY DEF Answered, Ends, TruthInv
<1>2. /\ CallOK(s) /\ calls[s] \in CallRec /\ born \in Nat
      /\ list \in Seq(RowRec) /\ \A n \in DOMAIN list : list[n].id \in Nat
      /\ rows \in [Ids -> Nat \cup {NoRow}] /\ NoRow \notin Nat /\ 1 .. born \subseteq Ids
  <2>1. list \in Seq(RowRec) /\ \A n \in DOMAIN list : list[n] \in RowRec
      BY DEF RowsInv, ListsOK
  <2> QED BY <2>1, RowsAssumption DEF RowsInv, ListsOK, Ids, RowRec
<1>3. /\ calls'[s].pc = "idle" /\ \A q \in Slots \ {s} : calls'[q] = calls[q]
      /\ \A q \in Slots \ {s} : \A o : (Busy(q, o)' <=> Busy(q, o)) /\ (Ready(q, o)' <=> Ready(q, o))
      /\ \A o : ~Busy(s, o)' /\ ~Ready(s, o)'
      /\ \A o : Busy(s, o) <=> o = calls[s].op
      /\ \A o : Ready(s, o) <=> o = calls[s].op
  <2>1. /\ calls'[s] = NoRequest /\ \A q \in Slots \ {s} : calls'[q] = calls[q]
        /\ \A q \in Slots \ {s} : \A o : (Busy(q, o)' <=> Busy(q, o)) /\ (Ready(q, o)' <=> Ready(q, o))
      BY <1>1, OthersStay DEF RowsInv
  <2>2. NoRequest.pc = "idle"
      BY DEF NoRequest
  <2> QED BY <1>1, <2>1, <2>2 DEF Busy, Ready
<1>4. \A i : There(i)' <=> There(i)
    BY <1>1 DEF There
<1>5. ASSUME \A q \in Slots \ {s} : Ready(q, "create") =>
                \A n \in DOMAIN list' : \E m \in DOMAIN list : list'[n].id = list[m].id
      PROVE  \A q \in Slots : Alone(q)'
  <2> SUFFICES ASSUME NEW q \in Slots PROVE Alone(q)'
      OBVIOUS
  <2>1. CASE q = s
      BY <1>3, <2>1 DEF Alone
  <2>2. CASE q # s
    <3>1. calls'[q].pc # "orphan"
        BY <1>1, <1>3, <2>2 DEF Alone
    <3>2. Busy(q, "fetch")' => \A p \in Slots : calls'[p].pc # "idle" => p = q
        BY <1>1, <1>3, <2>2 DEF Alone
    <3>3. Busy(q, "act")' => \A p \in Slots : Busy(p, "act")' /\ calls'[p].id = calls'[q].id => p = q
        BY <1>1, <1>3, <2>2 DEF Alone
    <3>4. ~Ready(q, "fetch")'
        BY <1>1, <1>3, <2>2 DEF Alone, Ready, Busy
    <3>5. Ready(q, "act")' /\ There(calls[q].id)' => calls'[q].answer[1].version = rows'[calls'[q].id]
        BY <1>1, <1>3, <2>2 DEF Alone, There
    <3>6. Ready(q, "create")' => /\ rows'[calls'[q].answer[1].id] = 0
                                 /\ \A n \in DOMAIN list' : list'[n].id < calls'[q].answer[1].id
        BY <1>1, <1>3, <1>5, <2>2 DEF Alone
    <3> QED BY <3>1, <3>2, <3>3, <3>4, <3>5, <3>6 DEF Alone
  <2> QED BY <2>1, <2>2
<1>6. \A o, i : OnItsWay(o, i) /\ (o # calls[s].op \/ i # calls[s].id) => OnItsWay(o, i)'
    BY <1>3 DEF OnItsWay
<1>7. CASE calls[s].op = "fetch"
  <2>1. \A q \in Slots \ {s} : calls[q].pc = "idle"
      BY <1>1, <1>3, <1>7 DEF Alone
  <2>2. list' = calls[s].answer /\ Lists(calls[s].answer)
      BY <1>1, <1>3, <1>7 DEF Patched, Alone
  <2>3. \A q \in Slots : Alone(q)'
      BY <1>5, <2>1 DEF Ready
  <2>4. \A n \in DOMAIN list' : RowFollows(n)'
      BY <1>1, <2>2 DEF Lists, RowFollows, There
  <2>5. ListFollows'
      BY <1>1, <2>2, <2>4 DEF Lists, ListFollows, Descending, There, Shown
  <2> QED BY <2>3, <2>5
<1>8. ASSUME calls[s].op # "fetch" PROVE ListFollows
    BY <1>1, <1>8, NoOtherFetch
<1>9. CASE calls[s].op = "create"
  <2>1. ListFollows
      BY <1>8, <1>9
  <2>2. PICK new \in 1 .. born : calls[s].answer = <<[id |-> new, version |-> 0]>>
      BY <1>2, <1>3, <1>9 DEF CallOK
  <2>3. calls[s].answer[1].id = new
      BY <2>2
  <2>4. PICK r \in RowRec : r = [id |-> new, version |-> 0] /\ r.id = new /\ r.version = 0
    <3>1. new \in Ids
        BY <1>2
    <3>2. PICK r \in RowRec : r = [id |-> new, version |-> 0]
        BY <3>1 DEF RowRec
    <3>3. r.id = new /\ r.version = 0
        BY <3>2
    <3> QED BY <3>2, <3>3
  <2>5. list' = <<r>> \o list
      BY <1>1, <1>9, <2>2, <2>4 DEF Patched
  <2>6. /\ DOMAIN list' = 1 .. Len(list) + 1 /\ Len(list) \in Nat /\ DOMAIN list = 1 .. Len(list)
        /\ list'[1] = r /\ \A n \in DOMAIN list' : n # 1 => n - 1 \in DOMAIN list /\ list'[n] = list[n - 1]
        /\ \A n \in DOMAIN list : n + 1 \in DOMAIN list' /\ list'[n + 1] = list[n]
    <3>1. \A x \in RowRec, l \in Seq(RowRec) :
            /\ DOMAIN (<<x>> \o l) = 1 .. Len(l) + 1 /\ Len(l) \in Nat /\ DOMAIN l = 1 .. Len(l)
            /\ (<<x>> \o l)[1] = x
            /\ \A n \in DOMAIN (<<x>> \o l) : n # 1 => n - 1 \in DOMAIN l /\ (<<x>> \o l)[n] = l[n - 1]
            /\ \A n \in DOMAIN l : n + 1 \in DOMAIN (<<x>> \o l) /\ (<<x>> \o l)[n + 1] = l[n]
        OBVIOUS
    <3> QED BY <1>2, <2>5, <3>1
  <2>7. rows[new] = 0 /\ \A n \in DOMAIN list : list[n].id < new
      BY <1>1, <1>3, <1>9, <2>3 DEF Alone
  <2>8. \A q \in Slots \ {s} : ~Ready(q, "create")
      BY <1>2, <1>3, <1>9 DEF CallOK, Ready, Live
  <2>9. \A q \in Slots : Alone(q)'
      BY <1>5, <2>8
  <2>10. Descending(list')
    <3> SUFFICES ASSUME NEW a \in DOMAIN list', NEW b \in DOMAIN list', a < b PROVE list'[a].id > list'[b].id
        BY DEF Descending
    <3>1. b - 1 \in DOMAIN list /\ list'[b] = list[b - 1]
        BY <2>6
    <3>2. CASE a = 1
        BY <1>2, <2>4, <2>6, <2>7, <3>1, <3>2
    <3>3. CASE a # 1
      <4>1. a - 1 \in DOMAIN list /\ list'[a] = list[a - 1] /\ a - 1 < b - 1
          BY <2>6, <3>3
      <4> QED BY <2>1, <3>1, <4>1 DEF ListFollows, Descending
    <3> QED BY <3>2, <3>3
  <2>11. ASSUME NEW n \in DOMAIN list' PROVE RowFollows(n)'
    <3>1. CASE n = 1
      <4>1. list'[n].id = new /\ list'[n].version = 0 /\ rows'[new] = 0 /\ rows'[new] # NoRow
          BY <1>1, <1>2, <2>4, <2>6, <2>7, <3>1
      <4> QED BY <4>1 DEF RowFollows, There
    <3>2. CASE n # 1
      <4>1. n - 1 \in DOMAIN list /\ list'[n] = list[n - 1]
          BY <2>6, <3>2
      <4>2. RowFollows(n - 1)
          BY <2>1, <4>1 DEF ListFollows
      <4>3. \A i : /\ OnItsWay("remove", i) => OnItsWay("remove", i)'
                   /\ OnItsWay("act", i) => OnItsWay("act", i)'
          BY <1>6, <1>9
      <4> QED BY <1>1, <1>4, <4>1, <4>2, <4>3 DEF RowFollows, There
    <3> QED BY <3>1, <3>2
  <2>12. ASSUME NEW i \in Ids, There(i)'
         PROVE  Shown(i)' \/ \E q \in Slots : Ready(q, "create")' /\ calls'[q].answer[1].id = i
    <3>1. Shown(i) \/ i = new
      <4>1. Shown(i) \/ \E q \in Slots : Ready(q, "create") /\ calls[q].answer[1].id = i
          BY <1>4, <2>1, <2>12 DEF ListFollows
      <4> QED BY <2>3, <2>8, <4>1
    <3>2. 1 \in DOMAIN list' /\ list'[1].id = new
        BY <2>4, <2>6
    <3> QED BY <2>6, <3>1, <3>2 DEF Shown
  <2> QED BY <2>9, <2>10, <2>11, <2>12 DEF ListFollows, Descending
<1>10. CASE calls[s].op = "act"
  <2>1. ListFollows
      BY <1>8, <1>10
  <2>2. PICK r : r = calls[s].answer[1]
      OBVIOUS
  <2>3. list' = [n \in DOMAIN list |-> IF list[n].id = calls[s].id THEN r ELSE list[n]]
      BY <1>1, <1>10, <2>2 DEF Patched
  <2>4. r.id = calls[s].id /\ (There(calls[s].id) => r.version = rows[calls[s].id])
      BY <1>1, <1>2, <1>3, <1>10, <2>2 DEF CallOK, Alone
  <2>5. /\ DOMAIN list' = DOMAIN list
        /\ \A n \in DOMAIN list : /\ list'[n].id = list[n].id
                                  /\ list[n].id = calls[s].id => list'[n] = r
                                  /\ list[n].id # calls[s].id => list'[n] = list[n]
      BY <2>3, <2>4
  <2>6. \A q \in Slots : Alone(q)'
      BY <1>5, <2>5
  <2>7. Descending(list')
      BY <2>1, <2>5 DEF ListFollows, Descending
  <2>8. ASSUME NEW n \in DOMAIN list PROVE RowFollows(n)'
    <3>1. PICK i : i = list[n].id /\ i = list'[n].id
        BY <2>5
    <3>2. /\ There(i) \/ OnItsWay("remove", i)
          /\ There(i) => list[n].version = rows[i] \/ OnItsWay("act", i)
        BY <2>1, <3>1 DEF ListFollows, RowFollows
    <3>3. There(i)' \/ OnItsWay("remove", i)'
        BY <1>4, <1>6, <1>10, <3>2
    <3>4. There(i)' => list'[n].version = rows'[i] \/ OnItsWay("act", i)'
      <4>1. CASE i = calls[s].id
          BY <1>1, <1>4, <2>4, <2>5, <3>1, <4>1
      <4>2. CASE i # calls[s].id
          BY <1>1, <1>4, <1>6, <2>5, <3>1, <3>2, <4>2
      <4> QED BY <4>1, <4>2
    <3> QED BY <3>1, <3>3, <3>4 DEF RowFollows
  <2>9. ASSUME NEW i \in Ids, There(i)'
        PROVE  Shown(i)' \/ \E q \in Slots : Ready(q, "create")' /\ calls'[q].answer[1].id = i
    <3>1. Shown(i) \/ \E q \in Slots : Ready(q, "create") /\ calls[q].answer[1].id = i
        BY <1>4, <2>1, <2>9 DEF ListFollows
    <3> QED BY <1>3, <1>10, <2>5, <3>1 DEF Shown
  <2> QED BY <2>5, <2>6, <2>7, <2>8, <2>9 DEF ListFollows, Descending
<1>11. CASE calls[s].op = "remove"
  <2>1. ListFollows /\ Descending(list)
      BY <1>8, <1>11 DEF ListFollows
  <2>2. ~There(calls[s].id)
      BY <1>2, <1>3, <1>11 DEF CallOK
  <2>3. list' = Without(calls[s].id)
      BY <1>1, <1>11 DEF Patched
  <2>4. /\ \A n \in DOMAIN list' : \E m \in DOMAIN list : list[m] = list'[n] /\ list[m].id # calls[s].id
        /\ \A m \in DOMAIN list : list[m].id # calls[s].id => \E n \in DOMAIN list' : list'[n] = list[m]
        /\ Descending(list')
      BY <1>2, <2>1, <2>3, WithoutIs
  <2>5. \A q \in Slots : Alone(q)'
      BY <1>5, <2>4
  <2>6. ASSUME NEW n \in DOMAIN list' PROVE RowFollows(n)'
    <3>1. PICK m \in DOMAIN list : list[m] = list'[n] /\ list[m].id # calls[s].id
        BY <2>4
    <3>2. PICK i : i = list[m].id /\ i = list'[n].id
        BY <3>1
    <3>3. /\ There(i) \/ OnItsWay("remove", i)
          /\ There(i) => list[m].version = rows[i] \/ OnItsWay("act", i)
        BY <2>1, <3>2 DEF ListFollows, RowFollows
    <3>4. There(i)' \/ OnItsWay("remove", i)'
        BY <1>4, <1>6, <3>1, <3>2, <3>3
    <3>5. There(i)' => list'[n].version = rows'[i] \/ OnItsWay("act", i)'
        BY <1>1, <1>4, <1>6, <3>1, <3>2, <3>3
    <3> QED BY <3>2, <3>4, <3>5 DEF RowFollows
  <2>7. ASSUME NEW i \in Ids, There(i)'
        PROVE  Shown(i)' \/ \E q \in Slots : Ready(q, "create")' /\ calls'[q].answer[1].id = i
    <3>1. There(i) /\ i # calls[s].id
        BY <1>4, <2>2, <2>7
    <3>2. Shown(i) \/ \E q \in Slots : Ready(q, "create") /\ calls[q].answer[1].id = i
        BY <2>1, <3>1 DEF ListFollows
    <3> QED BY <1>3, <1>11, <2>4, <3>1, <3>2 DEF Shown
  <2> QED BY <2>4, <2>5, <2>6, <2>7 DEF ListFollows, Descending
<1>12. calls[s].op \in {"fetch", "act", "remove", "create"}
    BY <1>2 DEF CallRec
<1> QED BY <1>7, <1>9, <1>10, <1>11, <1>12

(* A request that fails tells the page nothing; that of a fetch excuses it. *)
LEMMA TruthFails ==
    ASSUME RowsInv, TruthInv, NEW s \in Slots, Fails(s)
    PROVE  TruthInv'
<1> SUFFICES ASSUME ~excuse' PROVE (\A q \in Slots : Alone(q)') /\ (NoFetch' => ListFollows')
    BY DEF TruthInv
<1>1. /\ ~excuse /\ UNCHANGED <<kind, rows, born, list>> /\ calls[s].pc = "failed" /\ calls[s].op # "fetch"
      /\ calls' = [calls EXCEPT ![s] = NoRequest]
      /\ \A q \in Slots : Alone(q)
    BY DEF Fails, Ends, TruthInv
<1>2. NoFetch
    BY <1>1, NoOtherFetch
<1>3. ListFollows
    BY <1>1, <1>2 DEF TruthInv
<1>4. /\ calls'[s].pc = "idle" /\ \A q \in Slots \ {s} : calls'[q] = calls[q]
      /\ \A q \in Slots : \A o : /\ Busy(q, o)' => Busy(q, o) /\ q # s /\ calls'[q] = calls[q]
                                 /\ Ready(q, o)' => q # s
                                 /\ Ready(q, o)' <=> Ready(q, o)
  <2>1. /\ calls'[s] = NoRequest /\ \A q \in Slots \ {s} : calls'[q] = calls[q]
      BY <1>1, OthersStay DEF RowsInv
  <2>2. NoRequest.pc = "idle"
      BY DEF NoRequest
  <2> QED BY <1>1, <2>1, <2>2 DEF Busy, Ready
<1>5. ASSUME NEW q \in Slots PROVE Alone(q)'
  <2>1. calls'[q].pc # "orphan" /\ ~Busy(q, "fetch")'
      BY <1>1, <1>2, <1>4 DEF Alone, NoFetch
  <2>2. Busy(q, "act")' => \A p \in Slots : Busy(p, "act")' /\ calls'[p].id = calls'[q].id => p = q
      BY <1>1, <1>4 DEF Alone
  <2>3. \A o : Ready(q, o)' => calls'[q] = calls[q] /\ Ready(q, o)
      BY <1>4
  <2>4. ~Ready(q, "fetch")'
      BY <1>2, <2>3 DEF NoFetch, Ready, Busy
  <2>5. Ready(q, "act")' /\ There(calls[q].id)' => calls'[q].answer[1].version = rows'[calls'[q].id]
      BY <1>1, <2>3 DEF Alone, There
  <2>6. Ready(q, "create")' => /\ rows'[calls'[q].answer[1].id] = 0
                               /\ \A n \in DOMAIN list' : list'[n].id < calls'[q].answer[1].id
      BY <1>1, <2>3 DEF Alone
  <2> QED BY <2>1, <2>2, <2>4, <2>5, <2>6 DEF Alone
<1>6. \A o, i : OnItsWay(o, i) => OnItsWay(o, i)'
    BY <1>4 DEF OnItsWay
<1>7. \A n \in DOMAIN list : RowFollows(n)'
    BY <1>1, <1>3, <1>6 DEF ListFollows, RowFollows, There
<1>8. ASSUME NEW i \in Ids, There(i)'
      PROVE  Shown(i)' \/ \E q \in Slots : Ready(q, "create")' /\ calls'[q].answer[1].id = i
  <2>1. There(i)
      BY <1>1, <1>8 DEF There
  <2> QED BY <1>1, <1>3, <1>4, <2>1 DEF ListFollows, Shown
<1> QED BY <1>1, <1>3, <1>5, <1>7, <1>8 DEF ListFollows, Descending

LEMMA TruthStep == RowsInv /\ TruthInv /\ [ListsNext]_lists => TruthInv'
<1> SUFFICES ASSUME RowsInv, TruthInv, [ListsNext]_lists PROVE TruthInv'
    OBVIOUS
<1>1. CASE UNCHANGED lists
    BY <1>1 DEF lists, TruthInv, Alone, Busy, Ready, NoFetch, ListFollows, RowFollows, OnItsWay, Lists,
                Descending, There, Shown
<1>2. CASE Reload \/ Create
    BY <1>2, TruthSend DEF Reload, Create
<1>3. ASSUME NEW id \in Ids, Act(id) \/ Delete(id) PROVE TruthInv'
    BY <1>3, TruthSend DEF Act, Delete
<1>4. ASSUME NEW id \in Ids, Elsewhere(id) PROVE TruthInv'
    BY <1>4 DEF Elsewhere, TruthInv
<1>5. ASSUME NEW s \in Slots, LoseAnswer(s) \/ GiveUp(s) PROVE TruthInv'
    BY <1>5 DEF LoseAnswer, GiveUp, TruthInv
<1>6. CASE ListsNext
    BY <1>2, <1>3, <1>4, <1>5, <1>6, TruthServe, TruthAnswered, TruthFails DEF ListsNext
<1> QED BY <1>1, <1>6

(* Of a page that waits for nothing and has no excuse, the list is the      *)
(* server's.                                                                *)
LEMMA TruthOfQuietPages == RowsInv /\ TruthInv => QuietPagesAreTrue
<1> SUFFICES ASSUME RowsInv, TruthInv, Quiet, ~excuse PROVE list = ServerList
    BY DEF QuietPagesAreTrue
<1>1. \A s \in Slots : \A op : ~Busy(s, op) /\ ~Ready(s, op)
    BY DEF Quiet, Busy, Ready
<1>2. ListFollows
    BY <1>1 DEF TruthInv, NoFetch
<1>3. Lists(list)
    BY <1>1, <1>2 DEF ListFollows, RowFollows, OnItsWay, Lists, Shown
<1> QED BY <1>3, ServerLists, ListIsOne DEF RowsInv, ListsOK

THEOREM QuietPagesShowTheTruth == ListsSpec => []QuietPagesAreTrue
<1> QED BY RowsStart, RowsStep, TruthStart, TruthStep, TruthOfQuietPages, PTL DEF ListsSpec

-----------------------------------------------------------------------------
(* The bot form: what it points to and sends is made of conditions that are *)
(* in order, and none of them is the catalogue's.                           *)

(* What is said of f stays, and of the rest what g says.                    *)
LEMMA Joined ==
    ASSUME NEW f, NEW g
    PROVE  /\ DOMAIN Spread(f, g) = DOMAIN f \cup DOMAIN g
           /\ \A x \in DOMAIN f : Spread(f, g)[x] = f[x]
           /\ \A x \in DOMAIN g \ DOMAIN f : Spread(f, g)[x] = g[x]
BY DEF Spread

(* Every indicator has an output.                                           *)
HasOutput(entry) == 1 \in DOMAIN entry.outputs

LEMMA CatalogOffers == \A name \in DOMAIN Catalog : HasOutput(Catalog[name])
<1>1. \A p : /\ HasOutput(Entry(<<"value">>, p))
             /\ HasOutput(Entry(<<"macd", "signal", "histogram">>, p))
             /\ HasOutput(Entry(<<"middle">>, p))
             /\ HasOutput(Entry(<<"k", "d">>, p))
             /\ HasOutput(Entry(<<"adx", "plusDI", "minusDI">>, p))
             /\ HasOutput(Entry(<<"upper", "middle", "lower">>, p))
             /\ HasOutput(Entry(<<"conversion", "base", "spanA", "spanB">>, p))
             /\ HasOutput(Entry(<<"value", "average">>, p))
    BY DEF HasOutput, Entry
<1> QED BY <1>1, SMT DEF Catalog

LEMMA RsiIs == "RSI" \in DOMAIN Catalog /\ DOMAIN Catalog["RSI"].params = {"period"}
<1>1. "RSI" \in DOMAIN Catalog /\ Catalog["RSI"] = Entry(<<"value">>, [period |-> <<14, 2, 200>>])
    BY SMT DEF Catalog
<1> QED BY <1>1 DEF Entry

(* The settings of a strategy are numbers and switches, with defaults that  *)
(* are, and the two groups of customRules.                                  *)
PlainSpec(spec) == spec.type \in {"number", "boolean"} /\ spec.default[1] = spec.type

LEMMA NumberIsPlain ==
    /\ \A default, least, most : PlainSpec(NumberSpec(default, least, most))
    /\ \A default, least, most : PlainSpec(IntegerSpec(default, least, most))
    /\ PlainSpec(FlagSpec(TRUE)) /\ PlainSpec(FlagSpec(FALSE))
BY DEF PlainSpec, NumberSpec, IntegerSpec, FlagSpec, Number, Flag

LEMMA RiskIsPlain == \A name \in DOMAIN RiskParams : PlainSpec(RiskParams[name])
<1> DEFINE risk == [takeProfitPercent |-> NumberSpec(Whole(2), Ratio(1, 10), Hundred),
                    stopLossPercent |-> NumberSpec(One, Ratio(1, 10), Hundred),
                    orderSizeUsd |-> IntegerSpec(50, 5, 1000000)]
<1>1. \A name \in DOMAIN PriceBandParams : PlainSpec(PriceBandParams[name])
    BY NumberIsPlain DEF PriceBandParams
<1>2. \A name \in DOMAIN risk : PlainSpec(risk[name])
    BY NumberIsPlain
<1> HIDE DEF risk
<1>3. RiskParams = Spread(risk, PriceBandParams)
    BY SMT DEF RiskParams, risk
<1>4. /\ DOMAIN Spread(risk, PriceBandParams) = DOMAIN risk \cup DOMAIN PriceBandParams
      /\ \A x \in DOMAIN risk : Spread(risk, PriceBandParams)[x] = risk[x]
      /\ \A x \in DOMAIN PriceBandParams \ DOMAIN risk :
            Spread(risk, PriceBandParams)[x] = PriceBandParams[x]
    BY Joined
<1> QED BY <1>1, <1>2, <1>3, <1>4

AllPlain(specs) == \A name \in DOMAIN specs : PlainSpec(specs[name])

LEMMA LibraryIsPlain ==
    \A key \in DOMAIN Library \ {"customRules"} : AllPlain(Library[key])
<1>1. AllPlain(RsiSettings)
    BY NumberIsPlain DEF AllPlain, RsiSettings, FlagSpec, PlainSpec, Flag
<1>2. AllPlain(MacdSettings)
    BY NumberIsPlain DEF AllPlain, MacdSettings, FlagSpec, PlainSpec, Flag
<1>3. AllPlain(EmaSettings)
    BY NumberIsPlain DEF AllPlain, EmaSettings, FlagSpec, PlainSpec, Flag
<1>4. AllPlain(BollingerSettings)
    BY NumberIsPlain DEF AllPlain, BollingerSettings, FlagSpec, PlainSpec, Flag
<1>5. AllPlain(StochasticSettings)
    BY NumberIsPlain DEF AllPlain, StochasticSettings
<1>6. AllPlain(DonchianSettings)
    BY NumberIsPlain DEF AllPlain, DonchianSettings, FlagSpec, PlainSpec, Flag
<1>7. AllPlain(SupertrendSettings)
    BY NumberIsPlain DEF AllPlain, SupertrendSettings
<1>8. AllPlain(GridSettings)
    BY NumberIsPlain DEF AllPlain, GridSettings
<1> QED BY <1>1, <1>2, <1>3, <1>4, <1>5, <1>6, <1>7, <1>8 DEF Library

LEMMA CustomIs ==
    /\ DOMAIN CustomSettings = {"entryRules", "exitRules"}
    /\ \A name \in {"entryRules", "exitRules"} :
          /\ CustomSettings[name].type = "rules"
          /\ CustomSettings[name].default = Group(DefaultGroup(name).logic,
                                                  <<DefaultGroup(name).conditions[1]>>)
          /\ DefaultGroup(name).conditions = <<DefaultGroup(name).conditions[1]>>
          /\ \E operator, level : /\ ~NeedsSecondBound(operator)
                /\ DefaultGroup(name).conditions[1] =
                       Condition(Indicator("RSI", [period |-> 14]), operator, Constant(Whole(level)))
<1> DEFINE rsi(operator, level) == Condition(Indicator("RSI", [period |-> 14]), operator,
                                             Constant(Whole(level)))
<1>1. /\ DOMAIN CustomSettings = {"entryRules", "exitRules"}
      /\ CustomSettings["entryRules"] = RulesSpec(Group("AND", <<rsi("lt", 30)>>))
      /\ CustomSettings["exitRules"] = RulesSpec(Group("OR", <<rsi("gt", 70)>>))
    BY DEF CustomSettings
<1> HIDE DEF rsi
<1>2. /\ DefaultGroup("entryRules").conditions = <<rsi("lt", 30)>>
      /\ DefaultGroup("exitRules").conditions = <<rsi("gt", 70)>>
      /\ DefaultGroup("entryRules").logic = "AND" /\ DefaultGroup("exitRules").logic = "OR"
      /\ CustomSettings["entryRules"].type = "rules" /\ CustomSettings["exitRules"].type = "rules"
      /\ CustomSettings["entryRules"].default = Group("AND", <<rsi("lt", 30)>>)
      /\ CustomSettings["exitRules"].default = Group("OR", <<rsi("gt", 70)>>)
    BY <1>1 DEF DefaultGroup, RulesSpec, Group
<1>3. /\ DefaultGroup("entryRules").conditions[1] = rsi("lt", 30)
      /\ DefaultGroup("exitRules").conditions[1] = rsi("gt", 70)
    BY <1>2
<1>4. ~NeedsSecondBound("lt") /\ ~NeedsSecondBound("gt")
    BY DEF NeedsSecondBound
<1>5. /\ \E operator, level : ~NeedsSecondBound(operator) /\ rsi("lt", 30) = rsi(operator, level)
      /\ \E operator, level : ~NeedsSecondBound(operator) /\ rsi("gt", 70) = rsi(operator, level)
    BY <1>4, Zenon
<1>6. /\ CustomSettings["entryRules"].default = Group(DefaultGroup("entryRules").logic,
                                                      <<DefaultGroup("entryRules").conditions[1]>>)
      /\ CustomSettings["exitRules"].default = Group(DefaultGroup("exitRules").logic,
                                                     <<DefaultGroup("exitRules").conditions[1]>>)
    BY <1>2, <1>3, Zenon
<1>7. /\ DefaultGroup("entryRules").conditions = <<DefaultGroup("entryRules").conditions[1]>>
      /\ DefaultGroup("exitRules").conditions = <<DefaultGroup("exitRules").conditions[1]>>
    BY <1>2, <1>3, Zenon
<1> QED
  <2> SUFFICES ASSUME NEW name \in {"entryRules", "exitRules"}
               PROVE  \E operator, level : ~NeedsSecondBound(operator)
                         /\ DefaultGroup(name).conditions[1] = rsi(operator, level)
      BY <1>1, <1>2, <1>6, <1>7, Zenon DEF rsi
  <2> QED BY <1>3, <1>5, ZenonT(30)

(* What every strategy of the catalogue offers.                             *)
LEMMA SpecsAre ==
    ASSUME NEW key \in DOMAIN Library
    PROVE  /\ RuleNames(key) \subseteq {"entryRules", "exitRules"}
           /\ RuleNames(key) \subseteq DOMAIN Specs(key)
           /\ \A name \in RuleNames(key) : Specs(key)[name] = CustomSettings[name]
           /\ \A name \in DOMAIN Specs(key) \ RuleNames(key) : PlainSpec(Specs(key)[name])
<1>1. /\ DOMAIN Specs(key) = DOMAIN Library[key] \cup DOMAIN RiskParams
      /\ \A name \in DOMAIN Library[key] : Specs(key)[name] = Library[key][name]
      /\ \A name \in DOMAIN RiskParams \ DOMAIN Library[key] : Specs(key)[name] = RiskParams[name]
    BY Joined DEF Specs
<1>2. \A spec : PlainSpec(spec) => spec.type # "rules"
    BY DEF PlainSpec
<1>3. CASE key # "customRules"
    BY <1>1, <1>2, <1>3, LibraryIsPlain, RiskIsPlain DEF RuleNames, AllPlain
<1>4. CASE key = "customRules"
  <2>1. Library[key] = CustomSettings
      BY <1>4 DEF Library
  <2> QED BY <1>1, <1>2, <2>1, CustomIs, RiskIsPlain DEF RuleNames
<1> QED BY <1>3, <1>4

(* A sequence, over whatever its elements are.                              *)
Listed(s) == s \in Seq({s[i] : i \in DOMAIN s})

LEMMA ListedIs ==
    ASSUME NEW T, NEW s \in Seq(T)
    PROVE  Listed(s)
<1>1. s \in [1 .. Len(s) -> {s[i] : i \in DOMAIN s}] /\ Len(s) \in Nat
    OBVIOUS
<1> QED BY <1>1 DEF Listed

LEMMA AppendListed ==
    ASSUME NEW s, Listed(s), NEW x
    PROVE  /\ Listed(Append(s, x)) /\ Len(s) \in Nat /\ Len(Append(s, x)) = Len(s) + 1
           /\ DOMAIN s = 1 .. Len(s) /\ DOMAIN Append(s, x) = 1 .. Len(s) + 1
           /\ \A i \in DOMAIN s : Append(s, x)[i] = s[i]
           /\ Append(s, x)[Len(s) + 1] = x
<1> DEFINE S == {s[i] : i \in DOMAIN s}
           T == S \cup {x}
<1>1. s \in Seq(S) /\ s \in Seq(T) /\ x \in T
  <2>1. s \in Seq(S)
      BY DEF Listed
  <2>2. S \subseteq T /\ x \in T
      OBVIOUS
  <2> HIDE DEF S, T
  <2> QED BY <2>1, <2>2
<1> HIDE DEF T, S
<1>2. /\ Append(s, x) \in Seq(T) /\ Len(s) \in Nat /\ Len(Append(s, x)) = Len(s) + 1
      /\ DOMAIN s = 1 .. Len(s) /\ DOMAIN Append(s, x) = 1 .. Len(s) + 1
      /\ \A i \in DOMAIN s : Append(s, x)[i] = s[i]
      /\ Append(s, x)[Len(s) + 1] = x
    BY <1>1
<1> QED BY <1>2, ListedIs

LEMMA ExceptListed ==
    ASSUME NEW s, Listed(s), NEW n \in DOMAIN s, NEW x
    PROVE  /\ Listed([s EXCEPT ![n] = x]) /\ Len([s EXCEPT ![n] = x]) = Len(s)
           /\ DOMAIN [s EXCEPT ![n] = x] = DOMAIN s
           /\ \A i \in DOMAIN s : [s EXCEPT ![n] = x][i] = IF i = n THEN x ELSE s[i]
<1> DEFINE S == {s[i] : i \in DOMAIN s}
           T == S \cup {x}
<1>1. s \in Seq(S) /\ s \in Seq(T) /\ x \in T
  <2>1. s \in Seq(S)
      BY DEF Listed
  <2>2. S \subseteq T /\ x \in T
      OBVIOUS
  <2> HIDE DEF S, T
  <2> QED BY <2>1, <2>2
<1> HIDE DEF T, S
<1>2. /\ [s EXCEPT ![n] = x] \in Seq(T) /\ Len([s EXCEPT ![n] = x]) = Len(s)
      /\ DOMAIN [s EXCEPT ![n] = x] = DOMAIN s
      /\ \A i \in DOMAIN s : [s EXCEPT ![n] = x][i] = IF i = n THEN x ELSE s[i]
    BY <1>1
<1> QED BY <1>2, ListedIs

(* The elements of two lists that are joined, and of one put ahead.         *)
LEMMA JoinListed ==
    ASSUME NEW S, NEW s \in Seq(S), NEW t \in Seq(S)
    PROVE  /\ s \o t \in Seq(S) /\ Len(s \o t) = Len(s) + Len(t)
           /\ \A i \in 1 .. Len(s) : (s \o t)[i] = s[i]
           /\ \A i \in 1 .. Len(t) : (s \o t)[Len(s) + i] = t[i]
OBVIOUS

LEMMA Ahead ==
    ASSUME NEW S, NEW x \in S, NEW s \in Seq(S)
    PROVE  /\ <<x>> \o s \in Seq(S) /\ Len(<<x>> \o s) = Len(s) + 1
           /\ (<<x>> \o s)[1] = x
           /\ \A i \in 1 .. Len(s) : (<<x>> \o s)[i + 1] = s[i]
<1>1. <<x>> \in Seq(S) /\ Len(<<x>>) = 1
    OBVIOUS
<1>2. <<x>> \o s \in Seq(S) /\ Len(<<x>> \o s) = Len(s) + 1
    BY <1>1
<1>3. (<<x>> \o s)[1] = <<x>>[1]
    BY <1>1
<1>4. \A i \in 1 .. Len(s) : (<<x>> \o s)[i + 1] = s[i]
    BY <1>1
<1> QED BY <1>2, <1>3, <1>4

(* The operands of a condition are its left one and those on its right.     *)
LEMMA OperandsAre ==
    ASSUME NEW c, Listed(c.right)
    PROVE  /\ \E i \in DOMAIN OperandsOf(c) : OperandsOf(c)[i] = c.left
           /\ \A j \in DOMAIN c.right : \E i \in DOMAIN OperandsOf(c) : OperandsOf(c)[i] = c.right[j]
<1> DEFINE S == {c.right[i] : i \in DOMAIN c.right}
           T == S \cup {c.left}
<1>1. c.right \in Seq(T) /\ c.left \in T
  <2>1. c.right \in Seq(S)
      BY DEF Listed
  <2>2. S \subseteq T /\ c.left \in T
      OBVIOUS
  <2> HIDE DEF S, T
  <2> QED BY <2>1, <2>2
<1> HIDE DEF S, T
<1>2. /\ OperandsOf(c) \in Seq(T) /\ Len(OperandsOf(c)) = Len(c.right) + 1
      /\ OperandsOf(c)[1] = c.left
      /\ \A i \in 1 .. Len(c.right) : OperandsOf(c)[i + 1] = c.right[i]
    BY <1>1, Ahead DEF OperandsOf
<1>3. /\ DOMAIN OperandsOf(c) = 1 .. Len(c.right) + 1 /\ DOMAIN c.right = 1 .. Len(c.right)
      /\ Len(c.right) \in Nat
    BY <1>1, <1>2
<1> QED BY <1>2, <1>3

(* A sequence of one, before a sequence of one.                             *)
LEMMA PairIs ==
    ASSUME NEW x, NEW y
    PROVE  /\ <<x>> \o <<y>> \in Seq({x, y}) /\ Len(<<x>> \o <<y>>) = 2
           /\ (<<x>> \o <<y>>)[1] = x /\ (<<x>> \o <<y>>)[2] = y
<1> DEFINE S == {x, y}
           s == <<y>>
<1>1. x \in S /\ s \in Seq(S)
    OBVIOUS
<1>2. Len(s) = 1 /\ s[1] = y
    OBVIOUS
<1> HIDE DEF S, s
<1>3. <<x>> \o s \in Seq(S) /\ Len(<<x>> \o s) = Len(s) + 1
    BY <1>1, Ahead
<1>4. (<<x>> \o s)[1] = x
    BY <1>1, Ahead
<1>5. \A i \in 1 .. Len(s) : (<<x>> \o s)[i + 1] = s[i]
    BY <1>1, Ahead
<1>6. (<<x>> \o s)[2] = y
  <2> DEFINE both == <<x>> \o s
  <2>1. 1 \in 1 .. Len(s) /\ 1 + 1 = 2
      BY <1>2
  <2>2. \A i \in 1 .. Len(s) : both[i + 1] = s[i]
      BY <1>5
  <2> HIDE DEF both
  <2>3. both[2] = s[1]
      BY <2>1, <2>2
  <2> QED BY <2>3, <1>2 DEF both
<1>7. Len(<<x>> \o s) = 2
    BY <1>2, <1>3
<1> QED BY <1>3, <1>4, <1>6, <1>7 DEF S, s

(* The catalogue's own conditions.                                          *)
LEMMA CatalogueIs ==
    /\ Listed(CatalogueHeap) /\ Len(CatalogueHeap) = 2
    /\ CatalogueHeap[1] = DefaultGroup("entryRules").conditions[1]
    /\ CatalogueHeap[2] = DefaultGroup("exitRules").conditions[1]
<1> DEFINE c == DefaultGroup("entryRules").conditions[1]
           d == DefaultGroup("exitRules").conditions[1]
           S == {c, d}
<1>1. CatalogueHeap = <<c>> \o <<d>>
    BY CustomIs DEF CatalogueHeap
<1>2. CatalogueHeap \in Seq(S) /\ Len(CatalogueHeap) = 2
      /\ CatalogueHeap[1] = c /\ CatalogueHeap[2] = d
    <2> HIDE DEF c, d
    <2> QED BY <1>1, PairIs
<1>3. Listed(CatalogueHeap)
    BY <1>2, ListedIs, Zenon
<1> QED BY <1>2, <1>3, Zenon DEF c, d

(* An operand that can be evaluated, but for the values of its parameters;  *)
(* and a condition of such operands, with a second bound if it is a range.  *)
OperandOK(o) ==
    /\ o.type \in {"constant", "price", "indicator"}
    /\ o.type = "indicator" =>
          /\ DOMAIN o = {"type", "name", "params", "output"}
          /\ o.name \in DOMAIN Catalog
          /\ DOMAIN o.params = DOMAIN Catalog[o.name].params
          /\ \E i \in DOMAIN Catalog[o.name].outputs : OutputOf(o) = Catalog[o.name].outputs[i]

ConditionOK(c) ==
    /\ DOMAIN c = {"left", "operator", "right"}
    /\ OperandOK(c.left)
    /\ Listed(c.right) /\ Len(c.right) \in {1, 2}
    /\ \A j \in DOMAIN c.right : OperandOK(c.right[j])
    /\ NeedsSecondBound(c.operator) => Len(c.right) = 2

(* Constants, prices and fresh indicators are.                              *)
LEMMA FreshOK ==
    ASSUME NEW name \in DOMAIN Catalog
    PROVE  OperandOK(Fresh(name))
<1> DEFINE o == Fresh(name)
<1>1. /\ DOMAIN o = {"type", "name", "params", "output"} /\ o.type = "indicator" /\ o.name = name
      /\ DOMAIN o.params = DOMAIN Catalog[name].params /\ o.output = Catalog[name].outputs[1]
    BY DEF Fresh, Output
<1>2. 1 \in DOMAIN Catalog[name].outputs
    BY CatalogOffers DEF HasOutput
<1> HIDE DEF o
<1>3. OutputOf(o) = Catalog[name].outputs[1]
    BY <1>1 DEF OutputOf
<1>4. OperandOK(o)
    BY <1>1, <1>2, <1>3 DEF OperandOK
<1> QED BY <1>4 DEF o

LEMMA PlainOperandsOK ==
    /\ \A value : OperandOK(Constant(value))
    /\ \A source : OperandOK(Price(source))
BY DEF OperandOK, Constant, Price

LEMMA DefaultOperandOK ==
    ASSUME NEW type \in {"constant", "price", "indicator"}
    PROVE  OperandOK(defaultOperand(type))
BY FreshOK, PlainOperandsOK, FormAssumption DEF defaultOperand

(* Whatever an operand is changed to is one of those again.                 *)
LEMMA OutputEditOK ==
    ASSUME NEW o, OperandOK(o), o.type = "indicator", NEW i \in DOMAIN Catalog[o.name].outputs
    PROVE  OperandOK([o EXCEPT !.output = Catalog[o.name].outputs[i]])
<1> DEFINE x == [o EXCEPT !.output = Catalog[o.name].outputs[i]]
<1>1. /\ DOMAIN x = {"type", "name", "params", "output"} /\ x.type = "indicator"
      /\ x.name = o.name /\ x.params = o.params /\ x.output = Catalog[o.name].outputs[i]
      /\ o.name \in DOMAIN Catalog /\ DOMAIN o.params = DOMAIN Catalog[o.name].params
    BY DEF OperandOK
<1> HIDE DEF x
<1>2. 1 \in DOMAIN Catalog[o.name].outputs
    BY <1>1, CatalogOffers DEF HasOutput
<1>3. \E n \in DOMAIN Catalog[x.name].outputs : OutputOf(x) = Catalog[x.name].outputs[n]
    BY <1>1, <1>2 DEF OutputOf
<1>4. OperandOK(x)
    BY <1>1, <1>3 DEF OperandOK
<1> QED BY <1>4 DEF x

LEMMA ParamEditOK ==
    ASSUME NEW o, OperandOK(o), o.type = "indicator", NEW key \in DOMAIN Catalog[o.name].params,
           NEW value
    PROVE  OperandOK(setParam(o, key, value))
<1> DEFINE x == setParam(o, key, value)
           set == [changed \in {key} |-> value]
<1>1. /\ DOMAIN o = {"type", "name", "params", "output"}
      /\ o.name \in DOMAIN Catalog /\ DOMAIN o.params = DOMAIN Catalog[o.name].params
      /\ \E i \in DOMAIN Catalog[o.name].outputs : OutputOf(o) = Catalog[o.name].outputs[i]
    BY DEF OperandOK
<1>2. /\ DOMAIN x = {"type", "name", "params", "output"} /\ x.type = "indicator"
      /\ x.name = o.name /\ x.output = o.output
      /\ x.params = Spread(set, o.params)
    BY <1>1 DEF setParam
<1>3. DOMAIN x.params = DOMAIN o.params
  <2>1. DOMAIN Spread(set, o.params) = DOMAIN set \cup DOMAIN o.params
      BY Joined
  <2> QED BY <1>1, <1>2, <2>1
<1> HIDE DEF x, set
<1>4. OutputOf(x) = OutputOf(o)
    BY <1>2 DEF OutputOf
<1>5. OperandOK(x)
    BY <1>1, <1>2, <1>3, <1>4 DEF OperandOK
<1> QED BY <1>5 DEF x

LEMMA OperandEditsOK ==
    ASSUME NEW o, OperandOK(o), NEW x \in OperandEdits(o)
    PROVE  OperandOK(x)
<1>1. o.type \in {"constant", "price", "indicator"}
    BY DEF OperandOK
<1>2. CASE x \in {defaultOperand(type) : type \in {"constant", "price", "indicator"}}
    BY <1>2, DefaultOperandOK
<1>3. CASE o.type = "constant" /\ x = Constant(Whole(50))
    BY <1>3, PlainOperandsOK
<1>4. CASE o.type = "price" /\ x = Price("open")
    BY <1>4, PlainOperandsOK
<1>5. CASE o.type = "indicator" /\ x \in {setIndicator(o, name) : name \in Tried}
  <2>1. PICK name \in Tried : x = Fresh(name)
      BY <1>5 DEF setIndicator
  <2> QED BY <2>1, FreshOK, FormAssumption
<1>6. ASSUME o.type = "indicator", NEW i \in DOMAIN Catalog[o.name].outputs,
             x = [o EXCEPT !.output = Catalog[o.name].outputs[i]]
      PROVE  OperandOK(x)
    BY <1>6, OutputEditOK
<1>7. ASSUME o.type = "indicator", NEW key \in DOMAIN Catalog[o.name].params, NEW value,
             x = setParam(o, key, value)
      PROVE  OperandOK(x)
    BY <1>7, ParamEditOK
<1> QED
  <2> HIDE DEF setIndicator, setParam, defaultOperand
  <2>1. CASE o.type = "constant"
      BY <1>2, <1>3, <2>1 DEF OperandEdits
  <2>2. CASE o.type = "price"
      BY <1>2, <1>4, <2>2 DEF OperandEdits
  <2>3. CASE o.type = "indicator"
    <3> DEFINE outputs == Catalog[o.name].outputs
               params == Catalog[o.name].params
    <3>1. x \in {defaultOperand(type) : type \in {"constant", "price", "indicator"}}
             \cup ({setIndicator(o, name) : name \in Tried}
                   \cup {[o EXCEPT !.output = outputs[i]] : i \in {i \in DOMAIN outputs : Len(outputs) > 1}}
                   \cup UNION {{setParam(o, key, value) : value \in {0, params[key][2]}} :
                                 key \in DOMAIN params})
        BY <2>3 DEF OperandEdits
    <3>2. CASE x \in {[o EXCEPT !.output = outputs[i]] :
                         i \in {i \in DOMAIN outputs : Len(outputs) > 1}}
        BY <1>6, <2>3, <3>2
    <3>3. CASE x \in UNION {{setParam(o, key, value) : value \in {0, params[key][2]}} :
                              key \in DOMAIN params}
      <4>1. PICK key \in DOMAIN params :
                x \in {setParam(o, key, value) : value \in {0, params[key][2]}}
          BY <3>3
      <4>2. PICK value : x = setParam(o, key, value)
          BY <4>1
      <4> QED BY <1>7, <2>3, <4>2
    <3> QED BY <1>2, <1>5, <2>3, <3>1, <3>2, <3>3
  <2> QED BY <1>1, <2>1, <2>2, <2>3

(* So is a condition, wherever it is changed.                               *)
LEMMA LeftEditOK ==
    ASSUME NEW c, ConditionOK(c), NEW o, OperandOK(o)
    PROVE  ConditionOK([c EXCEPT !.left = o])
<1> DEFINE d == [c EXCEPT !.left = o]
<1>1. /\ DOMAIN d = {"left", "operator", "right"}
      /\ d.left = o /\ d.right = c.right /\ d.operator = c.operator
    BY DEF ConditionOK
<1> HIDE DEF d
<1>2. ConditionOK(d)
    BY <1>1 DEF ConditionOK
<1> QED BY <1>2 DEF d

LEMMA RightEditOK ==
    ASSUME NEW c, ConditionOK(c), NEW n \in DOMAIN c.right, NEW o, OperandOK(o)
    PROVE  ConditionOK([c EXCEPT !.right[n] = o])
<1> DEFINE d == [c EXCEPT !.right[n] = o]
           s == [c.right EXCEPT ![n] = o]
<1>1. /\ DOMAIN d = {"left", "operator", "right"}
      /\ d.left = c.left /\ d.right = s /\ d.operator = c.operator
    BY DEF ConditionOK
<1>2. /\ Listed(s) /\ Len(s) = Len(c.right) /\ DOMAIN s = DOMAIN c.right
      /\ \A i \in DOMAIN c.right : s[i] = IF i = n THEN o ELSE c.right[i]
    BY ExceptListed DEF ConditionOK
<1> HIDE DEF d, s
<1>3. ConditionOK(d)
    BY <1>1, <1>2 DEF ConditionOK
<1> QED BY <1>3 DEF d

LEMMA OperatorEditOK ==
    ASSUME NEW c, ConditionOK(c), NEW operator
    PROVE  ConditionOK(setOperator(c, operator))
<1> DEFINE d == setOperator(c, operator)
           zero == Constant(Zero)
           s == Append(c.right, zero)
<1>1. /\ DOMAIN d = {"left", "operator", "right"}
      /\ d.left = c.left /\ d.operator = operator
      /\ d.right = IF NeedsSecondBound(operator) /\ Len(c.right) = 1 THEN s ELSE c.right
    BY DEF ConditionOK, setOperator
<1>2. OperandOK(zero)
    BY PlainOperandsOK
<1> HIDE DEF d, zero
<1>3. CASE NeedsSecondBound(operator) /\ Len(c.right) = 1
  <2>1. /\ Listed(s) /\ Len(s) = 2 /\ DOMAIN c.right = 1 .. 1 /\ DOMAIN s = 1 .. 2
        /\ s[1] = c.right[1] /\ s[2] = zero
    <3>1. /\ Listed(s) /\ Len(s) = Len(c.right) + 1
          /\ DOMAIN c.right = 1 .. Len(c.right) /\ DOMAIN s = 1 .. Len(c.right) + 1
          /\ \A i \in DOMAIN c.right : s[i] = c.right[i]
          /\ s[Len(c.right) + 1] = zero
        BY AppendListed DEF ConditionOK
    <3> HIDE DEF s
    <3> QED BY <1>3, <3>1
  <2> HIDE DEF s
  <2>2. \A j \in DOMAIN s : OperandOK(s[j])
      BY <2>1, <1>2 DEF ConditionOK
  <2>3. d.right = s
      BY <1>1, <1>3
  <2>4. ConditionOK(d)
      BY <1>1, <2>1, <2>2, <2>3 DEF ConditionOK
  <2> QED BY <2>4 DEF d
<1>4. CASE ~(NeedsSecondBound(operator) /\ Len(c.right) = 1)
  <2>1. d.right = c.right
      BY <1>1, <1>4
  <2>2. ConditionOK(d)
      BY <1>1, <1>4, <2>1 DEF ConditionOK
  <2> QED BY <2>2 DEF d
<1> QED BY <1>3, <1>4

LEMMA ConditionEditsOK ==
    ASSUME NEW c, ConditionOK(c), NEW d \in ConditionEdits(c)
    PROVE  ConditionOK(d)
<1>0. /\ OperandOK(c.left) /\ \A j \in DOMAIN c.right : OperandOK(c.right[j])
      /\ 1 \in DOMAIN c.right
      /\ NeedsSecondBound(c.operator) => 2 \in DOMAIN c.right
  <2>1. DOMAIN c.right = 1 .. Len(c.right)
      BY AppendListed DEF ConditionOK
  <2> QED BY <2>1 DEF ConditionOK
<1>1. ASSUME NEW o \in OperandEdits(c.left), d = [c EXCEPT !.left = o]
      PROVE  ConditionOK(d)
    BY <1>0, <1>1, OperandEditsOK, LeftEditOK
<1>2. ASSUME NEW o \in OperandEdits(c.right[1]), d = [c EXCEPT !.right[1] = o]
      PROVE  ConditionOK(d)
  <2>1. OperandOK(o)
      BY <1>0, OperandEditsOK
  <2> QED BY <1>0, <1>2, <2>1, RightEditOK
<1>3. ASSUME NEW operator, d = setOperator(c, operator)
      PROVE  ConditionOK(d)
    BY <1>3, OperatorEditOK
<1>4. ASSUME NeedsSecondBound(c.operator), d = [c EXCEPT !.right[2] = Constant(Whole(50))]
      PROVE  ConditionOK(d)
  <2>1. OperandOK(Constant(Whole(50)))
      BY PlainOperandsOK
  <2> QED BY <1>0, <1>4, <2>1, RightEditOK
<1>5. \/ d \in {[c EXCEPT !.left = o] : o \in OperandEdits(c.left)}
      \/ d \in {[c EXCEPT !.right[1] = o] : o \in OperandEdits(c.right[1])}
      \/ d \in {setOperator(c, operator) : operator \in {"gt", "crossesAbove", "between", "outside"}}
      \/ NeedsSecondBound(c.operator) /\ d = [c EXCEPT !.right[2] = Constant(Whole(50))]
  <2> HIDE DEF setOperator, NeedsSecondBound, OperandEdits
  <2> QED BY DEF ConditionEdits
<1>6. CASE d \in {[c EXCEPT !.left = o] : o \in OperandEdits(c.left)}
    BY <1>1, <1>6
<1>7. CASE d \in {[c EXCEPT !.right[1] = o] : o \in OperandEdits(c.right[1])}
    BY <1>2, <1>7
<1>8. CASE d \in {setOperator(c, operator) : operator \in {"gt", "crossesAbove", "between", "outside"}}
    BY <1>3, <1>8
<1> QED BY <1>4, <1>5, <1>6, <1>7, <1>8

(* The catalogue's conditions are of this kind.                             *)
LEMMA CatalogueOK ==
    \A n \in DOMAIN CatalogueHeap : ConditionOK(CatalogueHeap[n])
<1>1. ASSUME NEW operator, NEW level, ~NeedsSecondBound(operator)
      PROVE  ConditionOK(Condition(Indicator("RSI", [period |-> 14]), operator, Constant(Whole(level))))
  <2> DEFINE o == Indicator("RSI", [period |-> 14])
             x == Constant(Whole(level))
             c == Condition(o, operator, x)
  <2>1. OperandOK(x)
      BY PlainOperandsOK
  <2>2. OperandOK(o)
    <3>1. /\ DOMAIN o = {"type", "name", "params", "output"} /\ o.name = "RSI"
          /\ o.type = "indicator" /\ DOMAIN o.params = {"period"} /\ o.output = ""
        BY DEF Indicator
    <3> HIDE DEF o
    <3>2. OutputOf(o) = Catalog[o.name].outputs[1] /\ 1 \in DOMAIN Catalog[o.name].outputs
        BY <3>1, RsiIs, CatalogOffers DEF OutputOf, HasOutput
    <3> QED BY <3>1, <3>2, RsiIs DEF OperandOK
  <2> HIDE DEF o, x
  <2>3. /\ DOMAIN c = {"left", "operator", "right"} /\ c.left = o /\ c.operator = operator
        /\ c.right = <<x>>
      BY DEF Condition
  <2>4. <<x>> \in Seq({x}) /\ Len(<<x>>) = 1 /\ <<x>>[1] = x /\ DOMAIN <<x>> = {1}
      OBVIOUS
  <2> HIDE DEF c
  <2>5. Listed(<<x>>)
      BY <2>4, ListedIs
  <2>6. ConditionOK(c)
      BY <1>1, <2>1, <2>2, <2>3, <2>4, <2>5 DEF ConditionOK
  <2> QED BY <2>6 DEF c, o, x
<1>2. \A name \in {"entryRules", "exitRules"} : ConditionOK(DefaultGroup(name).conditions[1])
    BY <1>1, CustomIs
<1>3. DOMAIN CatalogueHeap = {1, 2}
  <2>1. DOMAIN CatalogueHeap = 1 .. 2
      BY CatalogueIs, AppendListed
  <2> QED BY <2>1
<1> QED BY <1>2, <1>3, CatalogueIs

(* Settings as the form may send them: what is plain is blank or of its     *)
(* type, and the rules are made of conditions that are in order.            *)
SettingOK(key, name, value) == value = Blank \/ value[1] = Specs(key)[name].type

ConfigOK(key, config) ==
    /\ key \in Templates
    /\ DOMAIN config = DOMAIN Specs(key)
    /\ \A name \in DOMAIN Specs(key) \ RuleNames(key) : SettingOK(key, name, config[name])
    /\ \A name \in RuleNames(key) :
          /\ config[name][1] = "rules"
          /\ \A i \in DOMAIN config[name][2].conditions : ConditionOK(config[name][2].conditions[i])

HeapOK ==
    /\ Listed(heap) /\ Len(heap) >= 2
    /\ heap[1] = CatalogueHeap[1] /\ heap[2] = CatalogueHeap[2]
    /\ \A n \in DOMAIN heap : ConditionOK(heap[n])

FormOK ==
    /\ DOMAIN form = {"key", "plain", "groups"}
    /\ form.key \in Templates
    /\ DOMAIN form.plain = DOMAIN Specs(form.key) \ RuleNames(form.key)
    /\ \A name \in DOMAIN form.plain : SettingOK(form.key, name, form.plain[name])
    /\ DOMAIN form.groups = RuleNames(form.key)
    /\ \A name \in DOMAIN form.groups :
          /\ DOMAIN form.groups[name] = {"logic", "places"}
          /\ form.groups[name].places \in Seq(3 .. Len(heap))

SentOK ==
    /\ DOMAIN saving = {"pc", "key", "config"}
    /\ saving.pc = "sent" => ConfigOK(saving.key, saving.config)

JudgedOK ==
    judged # NoBot =>
        /\ ConfigOK(judged.key, judged.config)
        /\ Accepts(Specs(judged.key), judged.config) => judged.pc = "accepted"

(* The form only points to objects of its own.                              *)
FormInv == HeapOK /\ (form = NoForm \/ FormOK) /\ SentOK /\ JudgedOK

(* Nothing but a number can be wrong with such settings.                    *)
LEMMA ConfigsRun ==
    ASSUME NEW key, NEW config, ConfigOK(key, config), ~OutOfRange(key, config)
    PROVE  Accepts(Specs(key), config) /\ Runs(key, config)
<1>0. /\ key \in DOMAIN Library /\ RuleNames(key) \subseteq DOMAIN Specs(key)
      /\ \A name \in RuleNames(key) : Specs(key)[name].type = "rules"
    BY FormAssumption, SpecsAre, CustomIs DEF ConfigOK
<1>1. ASSUME NEW name \in Given(config) PROVE Suits(Specs(key)[name], config[name])
  <2>1. name \in DOMAIN Specs(key) /\ config[name] # Blank
      BY <1>1 DEF Given, ConfigOK
  <2>2. CASE name \in RuleNames(key)
      BY <1>0, <2>2 DEF ConfigOK, Suits
  <2>3. CASE name \notin RuleNames(key)
    <3>1. config[name][1] = Specs(key)[name].type
        BY <2>1, <2>3 DEF ConfigOK, SettingOK
    <3>2. config[name][1] = "number" => Suits(Specs(key)[name], config[name])
        BY <2>1, <2>3 DEF OutOfRange, ConfigOK
    <3> QED BY <3>1, <3>2 DEF Suits
  <2> QED BY <2>2, <2>3
<1>2. Accepts(Specs(key), config)
    BY <1>1 DEF Accepts, ConfigOK
<1>3. ASSUME NEW name \in RuleNames(key), NEW i \in DOMAIN config[name][2].conditions,
             NEW o, OperandOK(o),
             \E n \in DOMAIN OperandsOf(config[name][2].conditions[i]) :
                 OperandsOf(config[name][2].conditions[i])[n] = o
      PROVE  Known(o)
  <2>1. o \in Operands(config[name][2])
      BY <1>3 DEF Operands
  <2>2. o.type = "indicator" =>
            \A p \in DOMAIN o.params \cap DOMAIN Catalog[o.name].params :
                o.params[p] \in Catalog[o.name].params[p][2] .. Catalog[o.name].params[p][3]
      BY <1>0, <1>3, <2>1 DEF OutOfRange, ConfigOK
  <2> QED BY <1>3, <2>2 DEF OperandOK, Known, Param
<1>4. ASSUME NEW name \in RuleNames(key), NEW i \in DOMAIN config[name][2].conditions
      PROVE  LET c == config[name][2].conditions[i]
             IN /\ \A j \in DOMAIN c.right : Known(c.right[j])
                /\ Known(c.left)
                /\ NeedsSecondBound(c.operator) => Len(c.right) = 2
  <2> DEFINE c == config[name][2].conditions[i]
  <2>1. ConditionOK(c)
      BY DEF ConfigOK
  <2>2. /\ \E n \in DOMAIN OperandsOf(c) : OperandsOf(c)[n] = c.left
        /\ \A j \in DOMAIN c.right : \E n \in DOMAIN OperandsOf(c) : OperandsOf(c)[n] = c.right[j]
      BY <2>1, OperandsAre DEF ConditionOK
  <2>3. Known(c.left)
      BY <1>3, <2>1, <2>2 DEF ConditionOK
  <2>4. \A j \in DOMAIN c.right : Known(c.right[j])
      BY <1>3, <2>1, <2>2 DEF ConditionOK
  <2> QED BY <2>1, <2>3, <2>4 DEF ConditionOK
<1> QED BY <1>2, <1>4 DEF Runs

(* What the form sends is of that kind.                                     *)
LEMMA WrittenOutOK ==
    ASSUME HeapOK, FormOK
    PROVE  ConfigOK(form.key, WrittenOut(form, heap))
<1> DEFINE rules == [name \in DOMAIN form.groups |->
                        Group(form.groups[name].logic,
                              [i \in DOMAIN form.groups[name].places |->
                                  heap[form.groups[name].places[i]]])]
           config == Spread(form.plain, rules)
<1>1. WrittenOut(form, heap) = config
    BY DEF WrittenOut
<1>2. /\ DOMAIN config = DOMAIN form.plain \cup DOMAIN rules
      /\ \A x \in DOMAIN form.plain : config[x] = form.plain[x]
      /\ \A x \in DOMAIN rules \ DOMAIN form.plain : config[x] = rules[x]
  <2> HIDE DEF rules
  <2> QED BY Joined
<1>3. form.key \in DOMAIN Library /\ RuleNames(form.key) \subseteq DOMAIN Specs(form.key)
    BY FormAssumption, SpecsAre DEF FormOK
<1>4. ASSUME NEW name \in RuleNames(form.key)
      PROVE  /\ rules[name][1] = "rules"
             /\ \A i \in DOMAIN rules[name][2].conditions : ConditionOK(rules[name][2].conditions[i])
  <2> DEFINE places == form.groups[name].places
             conditions == [i \in DOMAIN places |-> heap[places[i]]]
  <2>1. rules[name][1] = "rules" /\ rules[name][2].conditions = conditions
      BY DEF FormOK, Group
  <2>2. places \in Seq(3 .. Len(heap)) /\ DOMAIN heap = 1 .. Len(heap) /\ Len(heap) \in Nat
      BY AppendListed DEF FormOK, HeapOK
  <2> HIDE DEF places
  <2>3. ASSUME NEW i \in DOMAIN places PROVE places[i] \in DOMAIN heap
      BY <2>2
  <2>4. \A i \in DOMAIN conditions : ConditionOK(conditions[i])
      BY <2>3 DEF HeapOK
  <2> HIDE DEF conditions
  <2> QED BY <2>1, <2>4
<1> HIDE DEF config
<1>5. DOMAIN rules = RuleNames(form.key)
    BY DEF FormOK
<1> HIDE DEF rules
<1>6. ConfigOK(form.key, config)
    BY <1>2, <1>3, <1>4, <1>5 DEF ConfigOK, FormOK
<1> QED BY <1>1, <1>6

LEMMA ListOf ==
    ASSUME NEW T, NEW n \in Nat, NEW s \in [1 .. n -> T]
    PROVE  s \in Seq(T) /\ Len(s) = n
OBVIOUS

(* The catalogue as it is fetched, and a form that gets a copy.             *)
LEMMA CopiesAre ==
    ASSUME HeapOK
    PROVE  /\ Catalogued \in Seq({CatalogueHeap[1], CatalogueHeap[2]}) /\ Len(Catalogued) = 2
           /\ Catalogued[1] = CatalogueHeap[1] /\ Catalogued[2] = CatalogueHeap[2]
<1> DEFINE S == {heap[i] : i \in DOMAIN heap}
           s == SubSeq(heap, 1, 2)
           T == {CatalogueHeap[1], CatalogueHeap[2]}
<1>1. heap \in Seq(S)
    BY DEF HeapOK, Listed
<1>2. Catalogued = s
    BY CatalogueIs DEF Catalogued
<1> HIDE DEF S, T
<1>3. s \in Seq(S) /\ Len(s) = 2 /\ s[1] = heap[1] /\ s[2] = heap[2]
    BY <1>1 DEF HeapOK
<1> HIDE DEF s
<1>4. s \in [1 .. 2 -> T]
  <2>1. s = [i \in 1 .. 2 |-> s[i]]
      BY <1>3
  <2>2. \A i \in 1 .. 2 : s[i] \in T
      BY <1>3 DEF HeapOK, T
  <2> QED BY <2>1, <2>2
<1>5. s \in Seq(T)
    BY <1>4, ListOf
<1> QED BY <1>2, <1>3, <1>5 DEF T, HeapOK

LEMMA CopyOK ==
    ASSUME HeapOK, NEW key \in Templates, defaultsFor(key)
    PROVE  HeapOK' /\ FormOK'
<1> DEFINE T == {CatalogueHeap[1], CatalogueHeap[2]}
           s == Catalogued
<1>1. s \in Seq(T) /\ Len(s) = 2 /\ s[1] = CatalogueHeap[1] /\ s[2] = CatalogueHeap[2]
    BY CopiesAre
<1>2. heap' = s \o s
    BY DEF defaultsFor
<1> HIDE DEF T, s
<1>3. /\ heap' \in Seq(T) /\ Len(heap') = 4
      /\ heap'[1] = CatalogueHeap[1] /\ heap'[2] = CatalogueHeap[2]
  <2>1. /\ s \o s \in Seq(T) /\ Len(s \o s) = Len(s) + Len(s)
        /\ \A i \in 1 .. Len(s) : (s \o s)[i] = s[i]
      BY <1>1, JoinListed
  <2> QED BY <1>1, <1>2, <2>1
<1>4. HeapOK'
  <2>1. \A c \in T : ConditionOK(c)
    <3>1. DOMAIN CatalogueHeap = 1 .. 2
        BY CatalogueIs, AppendListed
    <3> QED BY <3>1, CatalogueOK DEF T
  <2>2. Listed(heap') /\ \A n \in DOMAIN heap' : heap'[n] \in T
    <3>1. \A t \in Seq(T) : \A n \in DOMAIN t : t[n] \in T
        OBVIOUS
    <3>2. Listed(heap')
        BY <1>3, ListedIs, Zenon
    <3> QED BY <1>3, <3>1, <3>2
  <2> QED BY <1>3, <2>1, <2>2 DEF HeapOK
<1>5. key \in DOMAIN Library
    BY FormAssumption
<1>6. /\ form' = [key |-> key, plain |-> PlainDefaults(key), groups |-> CatalogueGroups(key, 2)]
    BY CatalogueIs DEF defaultsFor
<1>7. ASSUME NEW name \in RuleNames(key)
      PROVE  CatalogueGroups(key, 2)[name].places \in Seq(3 .. 4)
  <2>1. name \in {"entryRules", "exitRules"}
      BY <1>5, SpecsAre
  <2>2. /\ DOMAIN DefaultGroup(name).conditions = 1 .. 1
        /\ Len(DefaultGroup("entryRules").conditions) = 1
      BY <2>1, CustomIs
  <2>3. CatalogueGroups(key, 2)[name].places =
            [i \in 1 .. 1 |-> (IF name = "entryRules" THEN 2 ELSE 2 + 1) + i]
      BY <2>2 DEF CatalogueGroups, Places
  <2>4. CatalogueGroups(key, 2)[name].places \in [1 .. 1 -> 3 .. 4]
      BY <2>3
  <2> QED BY <2>4, ListOf
<1>8. ASSUME NEW name \in DOMAIN Specs(key) \ RuleNames(key)
      PROVE  SettingOK(key, name, PlainDefaults(key)[name])
    BY <1>5, SpecsAre DEF SettingOK, PlainDefaults, PlainSpec
<1>9. FormOK'
  <2>1. /\ DOMAIN PlainDefaults(key) = DOMAIN Specs(key) \ RuleNames(key)
        /\ DOMAIN CatalogueGroups(key, 2) = RuleNames(key)
        /\ \A name \in RuleNames(key) : DOMAIN CatalogueGroups(key, 2)[name] = {"logic", "places"}
      BY DEF PlainDefaults, CatalogueGroups
  <2> QED BY <1>3, <1>6, <1>7, <1>8, <2>1 DEF FormOK
<1> QED BY <1>4, <1>9

(* No step but an edit of the form's own conditions writes to the heap, and *)
(* none makes the form point to the catalogue's.                            *)
LEMMA FormStart == FormInit => FormInv
<1> SUFFICES ASSUME FormInit PROVE FormInv
    OBVIOUS
<1>1. HeapOK
    BY CatalogueIs, CatalogueOK DEF FormInit, HeapOK
<1>2. SentOK /\ JudgedOK
    BY DEF FormInit, Opening, NoBot, SentOK, JudgedOK
<1> QED BY <1>1, <1>2 DEF FormInit, FormInv

LEMMA EditKeeps ==
    ASSUME FormInv, UNCHANGED <<saving, judged>>, HeapOK', FormOK'
    PROVE  FormInv'
BY DEF FormInv, SentOK, JudgedOK

LEMMA TypedIs ==
    ASSUME NEW spec, PlainSpec(spec), NEW value \in Typed(spec)
    PROVE  value = Blank \/ value[1] = spec.type
<1>1. CASE spec.type = "boolean"
    BY <1>1 DEF Typed, Flag
<1>2. CASE spec.type = "number"
    BY <1>2 DEF Typed, Number
<1> QED BY <1>1, <1>2 DEF PlainSpec

LEMMA TypeSettingKeeps ==
    ASSUME FormInv, NEW name \in DOMAIN form.plain, TypeSetting(name)
    PROVE  FormInv'
<1>1. FormOK /\ HeapOK
    BY DEF TypeSetting, Edited, Clicked, FormInv
<1>2. form.key \in DOMAIN Library /\ name \in DOMAIN Specs(form.key) \ RuleNames(form.key)
    BY <1>1, FormAssumption DEF FormOK
<1>3. PICK value \in Typed(Specs(form.key)[name]) : form' = [form EXCEPT !.plain[name] = value]
    BY DEF TypeSetting
<1>4. SettingOK(form.key, name, value)
    BY <1>2, SpecsAre, TypedIs DEF SettingOK
<1>5. /\ DOMAIN form' = DOMAIN form /\ form'.key = form.key /\ form'.groups = form.groups
      /\ DOMAIN form'.plain = DOMAIN form.plain
      /\ \A n \in DOMAIN form.plain : form'.plain[n] = IF n = name THEN value ELSE form.plain[n]
    BY <1>1, <1>3 DEF FormOK
<1>6. HeapOK' /\ FormOK'
    BY <1>1, <1>4, <1>5 DEF HeapOK, FormOK, TypeSetting
<1> QED BY <1>6, EditKeeps DEF TypeSetting, Edited, Clicked

(* A group of rules is replaced by one of other places.                     *)
LEMMA GroupKeeps ==
    ASSUME FormOK, NEW name \in DOMAIN form.groups, NEW group,
           DOMAIN group = {"logic", "places"}, group.places \in Seq(3 .. Len(heap')),
           form' = [form EXCEPT !.groups[name] = group],
           Len(heap') \in Nat, Len(heap) \in Nat, Len(heap') >= Len(heap)
    PROVE  FormOK'
<1>1. /\ DOMAIN form' = DOMAIN form /\ form'.key = form.key /\ form'.plain = form.plain
      /\ DOMAIN form'.groups = DOMAIN form.groups
      /\ \A n \in DOMAIN form.groups : form'.groups[n] = IF n = name THEN group ELSE form.groups[n]
    BY DEF FormOK
<1>2. \A places \in Seq(3 .. Len(heap)) : places \in Seq(3 .. Len(heap'))
    OBVIOUS
<1> QED BY <1>1, <1>2 DEF FormOK

LEMMA SetLogicKeeps ==
    ASSUME FormInv, NEW name \in DOMAIN form.groups, setLogic(name)
    PROVE  FormInv'
<1>1. FormOK /\ HeapOK /\ UNCHANGED heap
    BY DEF setLogic, Edited, Clicked, FormInv
<1>2. PICK logic : form' = [form EXCEPT !.groups[name].logic = logic]
    BY DEF setLogic
<1> DEFINE group == [form.groups[name] EXCEPT !.logic = logic]
<1>3. DOMAIN group = {"logic", "places"} /\ group.places \in Seq(3 .. Len(heap'))
    BY <1>1 DEF FormOK
<1>4. form' = [form EXCEPT !.groups[name] = group]
    BY <1>2
<1>5. Len(heap) \in Nat
    BY <1>1, AppendListed DEF HeapOK
<1> HIDE DEF group
<1>6. FormOK' /\ HeapOK'
    BY <1>1, <1>3, <1>4, <1>5, GroupKeeps DEF HeapOK
<1> QED BY <1>6, EditKeeps DEF setLogic, Edited, Clicked

LEMMA AddConditionKeeps ==
    ASSUME FormInv, NEW name \in DOMAIN form.groups, addCondition(name)
    PROVE  FormInv'
<1> DEFINE c == Condition(defaultOperand("indicator"), "lt", Constant(Whole(30)))
           places == form.groups[name].places
           group == [form.groups[name] EXCEPT !.places = Append(@, Len(heap'))]
<1>1. FormOK /\ HeapOK
    BY DEF addCondition, Edited, Clicked, FormInv
<1>2. ConditionOK(c)
  <2> DEFINE x == Constant(Whole(30))
             o == defaultOperand("indicator")
  <2>1. OperandOK(x) /\ OperandOK(o)
      BY PlainOperandsOK, DefaultOperandOK
  <2> HIDE DEF o, x
  <2>2. /\ DOMAIN c = {"left", "operator", "right"} /\ c.left = o /\ c.operator = "lt"
        /\ c.right = <<x>>
      BY DEF Condition, o, x
  <2>3. <<x>> \in Seq({x}) /\ Len(<<x>>) = 1 /\ <<x>>[1] = x /\ DOMAIN <<x>> = {1}
      OBVIOUS
  <2> HIDE DEF c
  <2>4. Listed(<<x>>)
      BY <2>3, ListedIs
  <2> QED BY <2>1, <2>2, <2>3, <2>4 DEF ConditionOK, NeedsSecondBound
<1>3. heap' = Append(heap, c) /\ form' = [form EXCEPT !.groups[name].places = Append(@, Len(heap'))]
    BY DEF addCondition
<1> HIDE DEF c
<1>4. /\ Listed(heap') /\ Len(heap) \in Nat /\ Len(heap') = Len(heap) + 1
      /\ DOMAIN heap = 1 .. Len(heap) /\ DOMAIN heap' = 1 .. Len(heap) + 1
      /\ \A i \in DOMAIN heap : heap'[i] = heap[i]
      /\ heap'[Len(heap) + 1] = c
    BY <1>1, <1>3, AppendListed DEF HeapOK
<1>5. HeapOK'
  <2>1. \A i \in DOMAIN heap' : ConditionOK(heap'[i])
    <3>1. \A i \in DOMAIN heap' : i \in DOMAIN heap \/ i = Len(heap) + 1
        BY <1>4
    <3> QED BY <1>1, <1>2, <1>4, <3>1 DEF HeapOK
  <2> QED BY <1>1, <1>4, <2>1 DEF HeapOK
<1>6. /\ DOMAIN group = {"logic", "places"} /\ group.places = Append(places, Len(heap'))
      /\ places \in Seq(3 .. Len(heap))
    BY <1>1 DEF FormOK
<1>7. form' = [form EXCEPT !.groups[name] = group]
    BY <1>3
<1> HIDE DEF group, places
<1>8. group.places \in Seq(3 .. Len(heap'))
  <2>1. places \in Seq(3 .. Len(heap')) /\ Len(heap') \in 3 .. Len(heap')
      BY <1>1, <1>4, <1>6 DEF HeapOK
  <2> QED BY <1>6, <2>1
<1>9. FormOK'
  <2>1. Len(heap') \in Nat /\ Len(heap) \in Nat /\ Len(heap') >= Len(heap)
      BY <1>4
  <2> QED BY <1>1, <1>6, <1>7, <1>8, <2>1, GroupKeeps
<1> QED BY <1>5, <1>9, EditKeeps DEF addCondition, Edited, Clicked

LEMMA RemoveConditionKeeps ==
    ASSUME FormInv, NEW name \in DOMAIN form.groups, NEW i \in DOMAIN form.groups[name].places,
           removeCondition(name, i)
    PROVE  FormInv'
<1> DEFINE places == form.groups[name].places
           fewer == SubSeq(places, 1, i - 1) \o SubSeq(places, i + 1, Len(places))
           group == [form.groups[name] EXCEPT !.places = fewer]
<1>1. FormOK /\ HeapOK /\ UNCHANGED heap
    BY DEF removeCondition, Edited, Clicked, FormInv
<1>2. form' = [form EXCEPT !.groups[name].places = fewer]
    BY DEF removeCondition
<1>3. places \in Seq(3 .. Len(heap)) /\ i \in 1 .. Len(places) /\ Len(places) \in Nat
    BY <1>1 DEF FormOK
<1>4. /\ DOMAIN group = {"logic", "places"} /\ group.places = fewer
      /\ form' = [form EXCEPT !.groups[name] = group]
    BY <1>1, <1>2 DEF FormOK
<1>5. fewer \in Seq(3 .. Len(heap))
  <2> HIDE DEF places
  <2>1. SubSeq(places, 1, i - 1) \in Seq(3 .. Len(heap))
      BY <1>3
  <2>2. SubSeq(places, i + 1, Len(places)) \in Seq(3 .. Len(heap))
      BY <1>3
  <2> QED BY <2>1, <2>2
<1> HIDE DEF group, fewer
<1>6. Len(heap) \in Nat
    BY <1>1, AppendListed DEF HeapOK
<1>7. group.places \in Seq(3 .. Len(heap')) /\ Len(heap') = Len(heap)
    BY <1>1, <1>4, <1>5
<1>8. FormOK'
    BY <1>1, <1>4, <1>6, <1>7, GroupKeeps
<1>9. HeapOK'
    BY <1>1 DEF HeapOK
<1> QED BY <1>8, <1>9, EditKeeps DEF removeCondition, Edited, Clicked

LEMMA EditConditionKeeps ==
    ASSUME FormInv, NEW name \in DOMAIN form.groups, NEW i \in DOMAIN form.groups[name].places,
           EditCondition(form.groups[name].places[i])
    PROVE  FormInv'
<1> DEFINE place == form.groups[name].places[i]
<1>1. FormOK /\ HeapOK /\ UNCHANGED form
    BY DEF EditCondition, Edited, Clicked, FormInv
<1>2. PICK c \in ConditionEdits(heap[place]) : heap' = [heap EXCEPT ![place] = c]
    BY DEF EditCondition
<1>3. place \in 3 .. Len(heap) /\ Len(heap) \in Nat /\ DOMAIN heap = 1 .. Len(heap)
  <2>1. form.groups[name].places \in Seq(3 .. Len(heap))
      BY <1>1 DEF FormOK
  <2>2. Len(heap) \in Nat /\ DOMAIN heap = 1 .. Len(heap)
      BY <1>1, AppendListed DEF HeapOK
  <2> QED BY <2>1, <2>2
<1> HIDE DEF place
<1>4. ConditionOK(c)
    BY <1>1, <1>2, <1>3, ConditionEditsOK DEF HeapOK
<1>5. /\ Listed(heap') /\ Len(heap') = Len(heap) /\ DOMAIN heap' = DOMAIN heap
      /\ \A n \in DOMAIN heap : heap'[n] = IF n = place THEN c ELSE heap[n]
  <2>1. Listed(heap) /\ place \in DOMAIN heap
      BY <1>1, <1>3 DEF HeapOK
  <2> QED BY <1>2, <2>1, ExceptListed
<1>6. HeapOK'
    BY <1>1, <1>3, <1>4, <1>5 DEF HeapOK
<1>7. FormOK'
    BY <1>1, <1>5 DEF FormOK
<1> QED BY <1>6, <1>7, EditKeeps DEF EditCondition, Edited, Clicked

LEMMA SubmitKeeps == ASSUME FormInv, Submit PROVE FormInv'
<1>1. FormOK /\ HeapOK /\ UNCHANGED <<heap, form, judged>>
    BY DEF Submit, FormInv
<1>2. SentOK'
    BY <1>1, WrittenOutOK DEF Submit, SentOK
<1> QED BY <1>1, <1>2 DEF FormInv, HeapOK, FormOK, JudgedOK

LEMMA CreateBotKeeps == ASSUME FormInv, CreateBot PROVE FormInv'
<1> DEFINE accepted == Accepts(Specs(saving.key), saving.config)
<1>1. /\ DOMAIN saving = {"pc", "key", "config"} /\ ConfigOK(saving.key, saving.config)
      /\ UNCHANGED <<heap, form>>
    BY DEF CreateBot, FormInv, SentOK
<1> HIDE DEF accepted
<1>2. judged' = [saving EXCEPT !.pc = IF accepted THEN "accepted" ELSE "refused"]
    BY DEF CreateBot, accepted
<1>3. /\ judged'.key = saving.key /\ judged'.config = saving.config
      /\ judged'.pc = IF accepted THEN "accepted" ELSE "refused"
    BY <1>1, <1>2
<1>4. JudgedOK'
    BY <1>1, <1>3 DEF JudgedOK, accepted
<1>5. SentOK'
    BY DEF CreateBot, NoBot, SentOK
<1> QED BY <1>1, <1>4, <1>5 DEF FormInv, HeapOK, FormOK

LEMMA NotCreatedKeeps == ASSUME FormInv, NotCreated PROVE FormInv'
<1>1. SentOK'
    BY DEF NotCreated, NoBot, SentOK
<1> QED BY <1>1 DEF NotCreated, FormInv, HeapOK, FormOK, JudgedOK

LEMMA FormStep == FormInv /\ [FormNext]_botForm => FormInv'
<1> SUFFICES ASSUME FormInv, [FormNext]_botForm PROVE FormInv'
    OBVIOUS
<1>1. CASE UNCHANGED botForm
    BY <1>1 DEF botForm, FormInv, HeapOK, FormOK, SentOK, JudgedOK
<1>2. ASSUME NEW key \in Templates, defaultsFor(key) PROVE HeapOK' /\ FormOK'
    BY <1>2, CopyOK DEF FormInv
<1>3. CASE Mounted
  <2>1. HeapOK' /\ FormOK'
      BY <1>2, <1>3, FormAssumption DEF Mounted
  <2>2. SentOK' /\ JudgedOK'
      BY <1>3 DEF Mounted, NoBot, FormInv, SentOK, JudgedOK
  <2> QED BY <2>1, <2>2 DEF FormInv
<1>4. ASSUME NEW key \in Templates, selectStrategy(key) PROVE FormInv'
    BY <1>2, <1>4, EditKeeps DEF selectStrategy, Clicked
<1> QED
    BY <1>1, <1>3, <1>4, TypeSettingKeeps, SetLogicKeeps, AddConditionKeeps,
       RemoveConditionKeeps, EditConditionKeeps, SubmitKeeps, CreateBotKeeps, NotCreatedKeeps
    DEF FormNext

LEMMA FormInvariance == FormSpec => []FormInv
BY FormStart, FormStep, PTL DEF FormSpec

(* The catalogue's defaults are the server's, whatever was edited           *)
(* (defaultsFor of bots/new.vue, RuleBuilder.vue).                          *)
THEOREM DefaultsDoStay == FormSpec => []DefaultsStay
<1>1. HeapOK => DefaultsStay
  <2> SUFFICES ASSUME HeapOK, NEW key \in Templates
               PROVE  WrittenOut([plain |-> PlainDefaults(key), groups |-> CatalogueGroups(key, 0)],
                                 heap) = Resolved(Specs(key), <<>>)
      BY DEF DefaultsStay
  <2> DEFINE groups == CatalogueGroups(key, 0)
             plain == PlainDefaults(key)
             f == [plain |-> plain, groups |-> groups]
             rules == [name \in DOMAIN groups |->
                          Group(groups[name].logic,
                                [i \in DOMAIN groups[name].places |-> heap[groups[name].places[i]]])]
  <2>1. key \in DOMAIN Library
      BY FormAssumption
  <2>2. WrittenOut(f, heap) = Spread(plain, rules)
    <3>1. f.plain = plain /\ f.groups = groups
        OBVIOUS
    <3> HIDE DEF f, plain, groups
    <3> QED BY <3>1 DEF WrittenOut
  <2>3. Resolved(Specs(key), <<>>) = [name \in DOMAIN Specs(key) |-> Specs(key)[name].default]
    <3>1. Given(<<>>) = {}
        BY DEF Given
    <3> QED BY <3>1 DEF Resolved
  <2>4. ASSUME NEW name \in RuleNames(key)
        PROVE  rules[name] = Specs(key)[name].default
    <3>1. name \in {"entryRules", "exitRules"} /\ Specs(key)[name] = CustomSettings[name]
        BY <2>1, SpecsAre
    <3> DEFINE n == IF name = "entryRules" THEN 1 ELSE 2
    <3>2. /\ DOMAIN groups = RuleNames(key)
          /\ groups[name].logic = DefaultGroup(name).logic
          /\ groups[name].places = [i \in 1 .. 1 |-> (IF name = "entryRules" THEN 0 ELSE 0 + 1) + i]
      <4>1. /\ DOMAIN DefaultGroup(name).conditions = 1 .. 1
            /\ Len(DefaultGroup("entryRules").conditions) = 1
          BY <3>1, CustomIs
      <4> QED BY <4>1 DEF CatalogueGroups, Places
    <3>3. DOMAIN groups[name].places = {1} /\ groups[name].places[1] = n
        BY <3>2
    <3>4. heap[n] = DefaultGroup(name).conditions[1]
        BY <3>1, CatalogueIs DEF HeapOK
    <3> HIDE DEF groups, n
    <3>5. [i \in DOMAIN groups[name].places |-> heap[groups[name].places[i]]]
              = <<DefaultGroup(name).conditions[1]>>
        BY <3>3, <3>4
    <3>6. rules[name] = Group(DefaultGroup(name).logic, <<DefaultGroup(name).conditions[1]>>)
        BY <3>2, <3>5
    <3> QED BY <3>1, <3>6, CustomIs
  <2>5. /\ DOMAIN Spread(plain, rules) = DOMAIN plain \cup DOMAIN rules
        /\ \A x \in DOMAIN plain : Spread(plain, rules)[x] = plain[x]
        /\ \A x \in DOMAIN rules \ DOMAIN plain : Spread(plain, rules)[x] = rules[x]
        /\ Spread(plain, rules) = [x \in DOMAIN plain \cup DOMAIN rules |-> Spread(plain, rules)[x]]
    <3> HIDE DEF plain, rules
    <3> QED BY Joined DEF Spread
  <2>6. /\ DOMAIN plain = DOMAIN Specs(key) \ RuleNames(key) /\ DOMAIN rules = RuleNames(key)
        /\ \A name \in DOMAIN plain : plain[name] = Specs(key)[name].default
        /\ RuleNames(key) \subseteq DOMAIN Specs(key)
      BY <2>1, SpecsAre DEF PlainDefaults, CatalogueGroups
  <2> HIDE DEF plain, rules, groups, f
  <2>7. Spread(plain, rules) = [name \in DOMAIN Specs(key) |-> Specs(key)[name].default]
      BY <2>4, <2>5, <2>6
  <2> QED BY <2>2, <2>3, <2>7 DEF f, plain, groups
<1>2. FormInv => DefaultsStay
    BY <1>1 DEF FormInv
<1> QED BY <1>2, FormInvariance, PTL

(* What the form sends is accepted and can be evaluated, whatever was       *)
(* edited and in whatever order, unless a number was typed out of its range *)
(* (selectStrategy, setIndicator, setOperator).                             *)
THEOREM BuiltBotsDoRun == FormSpec => []BuiltBotsRun
<1>1. FormInv => BuiltBotsRun
    BY ConfigsRun DEF FormInv, JudgedOK, BuiltBotsRun
<1> QED BY <1>1, FormInvariance, PTL

-----------------------------------------------------------------------------
(* All of them, for the front end as a whole, whichever pages the user      *)
(* opens (pages/ of the front end).                                         *)
THEOREM PagesKeepTheirPromises ==
    PagesSpec => /\ []SubscribersAreProven /\ []RulesCanBeObeyed /\ LimitsStay
                 /\ []GoneRowsStayGone /\ []QuietPagesAreTrue
                 /\ []DefaultsStay /\ []BuiltBotsRun
BY EachPageIsItself, SubscribersProveFirst, RulesStayObeyable, LimitsAreKept,
   GoneRowsDoStayGone, QuietPagesShowTheTruth, DefaultsDoStay, BuiltBotsDoRun

=============================================================================
