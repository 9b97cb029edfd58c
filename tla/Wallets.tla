------------------------------ MODULE Wallets ------------------------------
(***************************************************************************)
(* WalletService: a user proves ownership of a wallet by signing a nonce.  *)
(*                                                                         *)
(* challenge and verify each read the link, then write it in a later step; *)
(* unlink is one conditional delete.  The holder of a wallet is the user   *)
(* who has its key: only the holder can sign the message of a challenge,   *)
(* and signs only messages the service gave to the holder.                 *)
(***************************************************************************)
EXTENDS Naturals

CONSTANTS
    Users, Wallets,
    Nobody,          \* no user
    NoWallet,        \* no wallet
    HolderOf,        \* the user who has the key of each wallet
    Requests,        \* slots for concurrent HTTP requests
    MaxChallenges,   \* bound: challenge calls
    MaxUnlinks       \* bound: unlink calls

ASSUME WalletsAssumption ==
    /\ Nobody \notin Users /\ NoWallet \notin Wallets
    /\ HolderOf \in [Wallets -> Users]
ASSUME WalletBoundsAssumption == MaxChallenges \in Nat /\ MaxUnlinks \in Nat

VARIABLES
    link,      \* the wallet_links row of each address
    message,   \* the nonce of the last challenge each user was given for each wallet
    request,   \* the continuation of each request
    nonces,    \* nonces drawn so far
    ops        \* challenge and unlink calls made so far

wallet == <<link, message, request, nonces, ops>>

(* rowOld: createdAt is more than NONCE_TTL_MS ago.  nonceOld: so is the    *)
(* challenge the nonce was drawn for, which the row does not record.        *)
Unlinked == [user |-> Nobody, nonce |-> 0, verified |-> FALSE,
             rowOld |-> FALSE, nonceOld |-> FALSE]

Resting == [pc |-> "idle", user |-> Nobody, wallet |-> NoWallet]

WalletTypeOK ==
    /\ link \in [Wallets -> [user : Users \cup {Nobody}, nonce : Nat, verified : BOOLEAN,
                             rowOld : BOOLEAN, nonceOld : BOOLEAN]]
    /\ message \in [Users -> [Wallets -> Nat]]
    /\ request \in [Requests -> [pc : {"idle", "issue", "confirm", "verified"},
                                 user : Users \cup {Nobody}, wallet : Wallets \cup {NoWallet}]]
    /\ nonces \in Nat
    /\ ops \in [{"challenge", "unlink"} -> Nat]
    /\ \A w \in Wallets : link[w].user = Nobody => link[w] = Unlinked
    /\ \A r \in Requests :
           request[r].pc # "idle" => request[r].user \in Users /\ request[r].wallet \in Wallets

WalletInit ==
    /\ link = [w \in Wallets |-> Unlinked]
    /\ message = [u \in Users |-> [w \in Wallets |-> 0]]
    /\ request = [r \in Requests |-> Resting]
    /\ nonces = 0
    /\ ops = [op \in {"challenge", "unlink"} |-> 0]

Linked(w) == link[w].user # Nobody

(* The verified owner of an address, or Nobody.                             *)
OwnerOf(w) == IF link[w].verified THEN link[w].user ELSE Nobody

-----------------------------------------------------------------------------
(* challenge: refused when another user's row is there, else a new nonce.   *)
Challenge(r, u, w) ==
    /\ request[r].pc = "idle"
    /\ ops["challenge"] < MaxChallenges
    /\ ops' = [ops EXCEPT !["challenge"] = @ + 1]
    /\ request' = IF link[w].user \in {u, Nobody}
                  THEN [request EXCEPT ![r] = [pc |-> "issue", user |-> u, wallet |-> w]]
                  ELSE request
    /\ UNCHANGED <<link, message, nonces>>

(* The upsert: a new row for the caller, or a new nonce in whoever's row is *)
(* there by now; either way the address is unverified until the next proof. *)
IssueNonce(r) ==
    LET u == request[r].user
        w == request[r].wallet
        fresh == nonces + 1
    IN
    /\ request[r].pc = "issue"
    /\ nonces' = fresh
    /\ link' = [link EXCEPT ![w] =
                   IF Linked(w)
                   THEN [@ EXCEPT !.nonce = fresh, !.verified = FALSE, !.nonceOld = FALSE]
                   ELSE [Unlinked EXCEPT !.user = u, !.nonce = fresh]]
    /\ message' = [message EXCEPT ![u][w] = fresh]
    /\ request' = [request EXCEPT ![r] = Resting]
    /\ UNCHANGED ops

(* verify reads the row; a missing or foreign row, an expired one, or a     *)
(* signature that is not the holder's over the nonce in it, is refused.     *)
Expired(w) == link[w].rowOld /\ ~link[w].verified

Verify(r, u, w) ==
    /\ request[r].pc = "idle"
    /\ link[w].user = u
    /\ ~Expired(w)
    /\ HolderOf[w] = u /\ message[u][w] = link[w].nonce
    /\ request' = [request EXCEPT ![r] = [pc |-> "confirm", user |-> u, wallet |-> w]]
    /\ UNCHANGED <<link, message, nonces, ops>>

(* The update of the row with this address, whoever owns it by now.         *)
Confirm(r) ==
    LET w == request[r].wallet IN
    /\ request[r].pc = "confirm"
    /\ Linked(w)
    /\ nonces' = nonces + 1
    /\ link' = [link EXCEPT ![w] = [@ EXCEPT !.verified = TRUE, !.nonce = nonces + 1]]
    /\ request' = [request EXCEPT ![r].pc = "verified"]
    /\ UNCHANGED <<message, ops>>

(* The row is gone: the update throws.                                      *)
ConfirmNothing(r) ==
    /\ request[r].pc = "confirm"
    /\ ~Linked(request[r].wallet)
    /\ request' = [request EXCEPT ![r] = Resting]
    /\ UNCHANGED <<link, message, nonces, ops>>

(* The controller goes on with the proven address and answers.              *)
Respond(r) ==
    /\ request[r].pc = "verified"
    /\ request' = [request EXCEPT ![r] = Resting]
    /\ UNCHANGED <<link, message, nonces, ops>>

Unlink(u, w) ==
    /\ link[w].user = u
    /\ ops["unlink"] < MaxUnlinks
    /\ ops' = [ops EXCEPT !["unlink"] = @ + 1]
    /\ link' = [link EXCEPT ![w] = Unlinked]
    /\ UNCHANGED <<message, request, nonces>>

(* NONCE_TTL_MS passes.                                                     *)
Expire(w) ==
    /\ Linked(w)
    /\ ~(link[w].rowOld /\ link[w].nonceOld)
    /\ link' = [link EXCEPT ![w].rowOld = TRUE, ![w].nonceOld = TRUE]
    /\ UNCHANGED <<message, request, nonces, ops>>

(* Everything but the answer, which the controller combines with a step of  *)
(* its own.                                                                 *)
WalletStep ==
    \/ \E r \in Requests, u \in Users, w \in Wallets : Challenge(r, u, w) \/ Verify(r, u, w)
    \/ \E r \in Requests : IssueNonce(r) \/ Confirm(r) \/ ConfirmNothing(r)
    \/ \E u \in Users, w \in Wallets : Unlink(u, w)
    \/ \E w \in Wallets : Expire(w)

WalletNext == WalletStep \/ \E r \in Requests : Respond(r)

WalletSpec == WalletInit /\ [][WalletNext]_wallet

-----------------------------------------------------------------------------
(* A verified address belongs to the user who signed for it, whatever other *)
(* requests ran between the check of the signature and the write (verify).  *)
VerifiedMeansProven ==
    \A w \in Wallets : link[w].verified => link[w].user = HolderOf[w]

(* What it takes: no row is removed while a verification that has checked   *)
(* its signature is still to be written. Nothing in the code makes an       *)
(* unlink wait; with one in that gap, and a challenge of another user after *)
(* it, an address is confirmed for a user who never signed.                 *)
UnlinksWait ==
    \A w \in Wallets : Linked(w) /\ ~Linked(w)' =>
        \A r \in Requests : request[r].pc = "confirm" => request[r].wallet # w

(* An address changes hands only through an unlink: no challenge of another *)
(* user, raced or not, takes a row from the one who has it (challenge).     *)
NoTakeover ==
    [][\A w \in Wallets : Linked(w) => link'[w].user \in {link[w].user, Nobody}]_link
=============================================================================
