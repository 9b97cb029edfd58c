---------------------------- MODULE BillingPage ----------------------------
(***************************************************************************)
(* The billing page of one user over WalletService: the user connects a    *)
(* wallet of the browser and proves it, then approves the token and        *)
(* subscribes with transactions of that wallet.  A tab has one request at  *)
(* a time (busy), which is its slot in Wallets; it keeps the address it    *)
(* connected, and what it last loaded of the user's wallets and plan.      *)
(*                                                                         *)
(* The browser's wallet holds every wallet of the user, offers any of them *)
(* when it is asked for accounts, and refuses what the user rejects.       *)
(***************************************************************************)
EXTENDS FiniteSets, Wallets

CONSTANTS
    User,        \* the user of the page
    MaxReloads,  \* bound: reloads of the page
    MaxSent      \* bound: transactions sent

ASSUME UserAssumption == User \in Users

VARIABLES
    tab,      \* the billing page in each tab
    plan,     \* isPro, as the server knows it
    sent,     \* transactions sent: what, and from which wallet
    proven,   \* history: wallets the user has proved
    reloads   \* reloads so far

billing == <<tab, plan, sent, proven, reloads>>
billingPage == <<wallet, billing>>

(* address and the computed verifiedWallet and isPro of the page.           *)
Mounting == [pc |-> "loading", address |-> NoWallet, nonce |-> 0, verified |-> FALSE, isPro |-> FALSE]

BillingPageInit ==
    /\ WalletInit
    /\ tab = [r \in Requests |-> Mounting]
    /\ plan = FALSE
    /\ sent = {}
    /\ proven = {}
    /\ reloads = 0

TabAt(r, pc) == tab[r].pc = pc
UserWallets == {w \in Wallets : HolderOf[w] = User}
Goes(r, pc) == tab' = [tab EXCEPT ![r].pc = pc]

(* Steps of the page alone, and of the page with the service.               *)
PageOnly == UNCHANGED <<wallet, plan, sent, proven, reloads>>
ServiceOnly == UNCHANGED <<plan, sent, proven, reloads>>

-----------------------------------------------------------------------------
(* load: what the page shows until it loads again.                          *)
Shows(r) ==
    /\ TabAt(r, "loading")
    /\ tab' = [tab EXCEPT ![r].pc = "ready", ![r].isPro = plan,
                          ![r].verified = \E w \in Wallets : OwnerOf(w) = User]
    /\ PageOnly

(* The page is reloaded, and everything it knew is gone.                    *)
Remount(r) ==
    /\ reloads < MaxReloads /\ reloads' = reloads + 1
    /\ tab' = [tab EXCEPT ![r] = Mounting]
    /\ UNCHANGED <<wallet, plan, sent, proven>>

(* A prompt is rejected, a request is refused or not answered: run shows it *)
(* and the page is as it was; the service goes on with what it began.  A    *)
(* page that never loaded shows nothing.                                    *)
Aborts(r) ==
    /\ tab[r].pc \in {"loading", "switching", "challenging", "signing", "verifying"}
    /\ Goes(r, IF TabAt(r, "loading") /\ tab[r].address = NoWallet THEN "blank" ELSE "ready")
    /\ PageOnly

-----------------------------------------------------------------------------
(* What the page offers: one step of three, or to end the plan.             *)
Offers(r) ==
    {what \in {"connect", "approve", "subscribe", "unsubscribe"} :
        /\ TabAt(r, "ready")
        /\ tab[r].isPro <=> what = "unsubscribe"
        /\ ~tab[r].isPro => (tab[r].verified <=> what # "connect")}

(* onConnectAndVerify: the button is there while no wallet is verified.     *)
Connect(r, w) ==
    /\ "connect" \in Offers(r)
    /\ w \in UserWallets
    /\ tab' = [tab EXCEPT ![r].pc = "switching", ![r].address = w]
    /\ PageOnly

(* The chain is switched, and the service asked for a challenge.            *)
AskChallenge(r) ==
    /\ TabAt(r, "switching")
    /\ Challenge(r, User, tab[r].address)
    /\ Goes(r, "challenging")
    /\ ServiceOnly

GetChallenge(r) ==
    /\ IssueNonce(r)
    /\ tab' = IF TabAt(r, "challenging")
              THEN [tab EXCEPT ![r].pc = "signing", ![r].nonce = nonces']
              ELSE tab
    /\ ServiceOnly

(* The user signs the message of this tab's challenge.                      *)
AskVerify(r) ==
    /\ TabAt(r, "signing")
    /\ tab[r].nonce = link[tab[r].address].nonce
    /\ Verify(r, User, tab[r].address)
    /\ Goes(r, "verifying")
    /\ ServiceOnly

Proved(r) ==
    /\ \/ Confirm(r) /\ proven' = proven \cup {request[r].wallet}
       \/ ConfirmNothing(r) /\ UNCHANGED proven
    /\ UNCHANGED <<tab, plan, sent, reloads>>

(* The answer of the proof, after which the page loads again.               *)
GetProof(r) ==
    /\ Respond(r)
    /\ IF TabAt(r, "verifying") THEN Goes(r, "loading") ELSE UNCHANGED tab
    /\ ServiceOnly

-----------------------------------------------------------------------------
(* sendTransaction: a page without an address throws.                       *)
Transact(r, what, from) ==
    /\ Cardinality(sent) < MaxSent
    /\ from # NoWallet
    /\ sent' = sent \cup {[what |-> what, from |-> from]}
    /\ UNCHANGED <<wallet, plan, proven, reloads>>

(* Mutant: the page connects when it has no address, as for an unsubscribe. *)
Pay_Connects(r, what) ==
    /\ what \in Offers(r)
    /\ \E from \in IF tab[r].address = NoWallet THEN UserWallets ELSE {tab[r].address} :
          /\ tab' = [tab EXCEPT ![r].address = from]
          /\ Transact(r, what, from)

(* onApprove and onSubscribe: the buttons are off until a wallet is         *)
(* verified.                                                                *)
Pay(r, what) ==
    /\ what \in Offers(r)
    /\ Transact(r, what, tab[r].address)
    /\ UNCHANGED tab

(* onUnsubscribe connects if it has no address.                             *)
Unsubscribe(r) ==
    /\ "unsubscribe" \in Offers(r)
    /\ \E from \in IF tab[r].address = NoWallet THEN UserWallets ELSE {tab[r].address} :
          /\ tab' = [tab EXCEPT ![r].address = from]
          /\ Transact(r, "unsubscribe", from)

(* A charge is confirmed for a wallet that approved and subscribed, or the  *)
(* plan runs out.                                                           *)
PlanChanges ==
    /\ \/ ~plan /\ \E w \in Wallets : \A what \in {"approve", "subscribe"} :
                      [what |-> what, from |-> w] \in sent
       \/ plan
    /\ plan' = ~plan
    /\ UNCHANGED <<wallet, tab, sent, proven, reloads>>

(* What happens to the user's wallets outside the page.                     *)
LinksChange ==
    /\ \E w \in Wallets : Unlink(User, w) \/ Expire(w)
    /\ UNCHANGED billing

-----------------------------------------------------------------------------
BillingPageNext ==
    \/ \E r \in Requests :
          \/ Shows(r) \/ Remount(r) \/ Aborts(r)
          \/ \E w \in Wallets : Connect(r, w)
          \/ AskChallenge(r) \/ GetChallenge(r) \/ AskVerify(r) \/ Proved(r) \/ GetProof(r)
          \/ \E what \in {"approve", "subscribe"} : Pay(r, what)
          \/ Unsubscribe(r)
    \/ PlanChanges \/ LinksChange

BillingPageSpec == BillingPageInit /\ [][BillingPageNext]_billingPage

-----------------------------------------------------------------------------
(* Every transaction that approves or subscribes is of a wallet that the    *)
(* user has proved, whatever prompts were rejected, requests lost and tabs  *)
(* reloaded: a charge of another wallet would be credited to nobody (the    *)
(* buttons are off until a wallet is verified, and the address is the one   *)
(* that was connected for it).                                              *)
SubscribersAreProven ==
    \A t \in sent : t.what \in {"approve", "subscribe"} => t.from \in proven
=============================================================================
