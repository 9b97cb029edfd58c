-------------------------- MODULE ExchangeAccounts --------------------------
(* ExchangeAccountsService: a user's exchange keys. A handler reads the row *)
(* in one step and acts on its copy in a later one; opened credentials stay *)
(* in a cache of the process until they expire or the account is revoked.   *)
(* The exchange is external: whenever it is asked, it says what a key may   *)
(* do by then.                                                              *)
EXTENDS Naturals, FiniteSets

CONSTANTS Accounts,     \* ids of exchange_accounts rows
          Calls,        \* slots for concurrent HTTP requests
          NoAccount,
          MaxAccounts   \* MAX_ACCOUNTS_PER_USER

ASSUME AccountsAssumption ==
    NoAccount \notin Accounts /\ IsFiniteSet(Accounts) /\ MaxAccounts \in Nat \ {0}

VARIABLES row,      \* status of each account, and whether its ciphertext is there
          cached,   \* credentialCache: the accounts with an entry that has not expired
          call,     \* the continuation of each request
          said,     \* history: what the exchange last said of each key
          revoked,  \* history: the accounts a revocation was written for
          raced,    \* history: accounts whose handlers crossed, or lost an answer
          crowded   \* history: accounts were added by handlers that crossed

accounts == <<row, cached, call, said, revoked, raced, crowded>>

(* verifyCredentials: a key that trades, one that may withdraw as well, one *)
(* that may do neither, and an answer that is not ok.                       *)
Powers == {"trade", "withdraw", "idle", "dead"}

NoRow == [status |-> "none", sealed |-> FALSE]
Idle == [pc |-> "idle", account |-> NoAccount, copy |-> NoRow, said |-> "dead"]

Row == {NoRow} \cup [status : {"ACTIVE", "INVALID", "REVOKED"}, sealed : BOOLEAN]

Request == [pc : {"idle", "new", "insert", "open", "ask", "write", "use", "forget"},
            account : Accounts \cup {NoAccount}, copy : Row, said : Powers]

AccountsTypeOK ==
    /\ row \in [Accounts -> Row]
    /\ cached \in SUBSET Accounts
    /\ call \in [Calls -> Request]
    /\ said \in [Accounts -> Powers]
    /\ revoked \in SUBSET Accounts
    /\ raced \in SUBSET Accounts
    /\ crowded \in BOOLEAN

AccountsInit ==
    /\ row = [a \in Accounts |-> NoRow]
    /\ cached = {}
    /\ call = [c \in Calls |-> Idle]
    /\ said = [a \in Accounts |-> "dead"]
    /\ revoked = {}
    /\ raced = {}
    /\ crowded = FALSE

-----------------------------------------------------------------------------
(* create *)

Live == {a \in Accounts : row[a].status \in {"ACTIVE", "INVALID"}}
At(pcs, a) == {c \in Calls : call[c].pc \in pcs /\ call[c].account = a}

(* The accounts that are not revoked are counted. (A label in use ends the  *)
(* call here, or at the insert, by its unique index.)                       *)
CreateCheck(c) ==
    /\ call[c].pc = "idle"
    /\ Cardinality(Live) < MaxAccounts
    /\ call' = [call EXCEPT ![c] = [Idle EXCEPT !.pc = "new"]]
    /\ UNCHANGED <<row, cached, said, revoked, raced, crowded>>

(* Only a key that can trade and cannot withdraw is kept.                   *)
AskAboutNew(c, power) ==
    /\ call[c].pc = "new"
    /\ call' = [call EXCEPT ![c] = IF power = "trade"
                                   THEN [@ EXCEPT !.pc = "insert", !.said = power] ELSE Idle]
    /\ UNCHANGED <<row, cached, said, revoked, raced, crowded>>

(* The limit is not looked at again: calls past their count make a crowd.   *)
InsertAccount(c, a) ==
    /\ call[c].pc = "insert"
    /\ row[a] = NoRow
    /\ row' = [row EXCEPT ![a] = [status |-> "ACTIVE", sealed |-> TRUE]]
    /\ said' = [said EXCEPT ![a] = call[c].said]
    /\ crowded' = (crowded \/ \E d \in Calls \ {c} : call[d].pc \in {"new", "insert"})
    /\ call' = [call EXCEPT ![c] = Idle]
    /\ UNCHANGED <<cached, revoked, raced>>

-----------------------------------------------------------------------------
(* verify *)

(* mustOwn, whatever the status is. Between the two halves of a revocation  *)
(* the cache still has the credentials of a row that is wiped.              *)
VerifyRead(c, a) ==
    /\ call[c].pc = "idle"
    /\ row[a] # NoRow
    /\ call' = [call EXCEPT ![c] = [Idle EXCEPT !.pc = "open", !.account = a, !.copy = row[a]]]
    /\ raced' = IF At({"forget"}, a) # {} THEN raced \cup {a} ELSE raced
    /\ UNCHANGED <<row, cached, said, revoked, crowded>>

(* openCredentials: from the cache, or else from the copy of the row; a row *)
(* that was wiped cannot be opened, and the call ends.                      *)
Opens(c) == call[c].account \in cached \/ call[c].copy.sealed

OpenToVerify(c) ==
    /\ call[c].pc = "open"
    /\ call' = [call EXCEPT ![c] = IF Opens(c) THEN [@ EXCEPT !.pc = "ask"] ELSE Idle]
    /\ cached' = IF Opens(c) THEN cached \cup {call[c].account} ELSE cached
    /\ UNCHANGED <<row, said, revoked, raced, crowded>>

(* The exchange answers; another verification that still has to write its   *)
(* own answer crosses this one.                                             *)
Ask(c, power) ==
    LET a == call[c].account IN
    /\ call[c].pc = "ask"
    /\ call' = [call EXCEPT ![c].pc = "write", ![c].said = power]
    /\ said' = [said EXCEPT ![a] = power]
    /\ raced' = IF At({"write"}, a) # {} THEN raced \cup {a} ELSE raced
    /\ UNCHANGED <<row, cached, revoked, crowded>>

(* Mutant: a key that may withdraw is taken for a good one.                 *)
WriteVerdict_AnyOk(c) ==
    LET a == call[c].account IN
    /\ call[c].pc = "write"
    /\ row' = [row EXCEPT ![a].status = IF call[c].said # "dead" THEN "ACTIVE" ELSE "INVALID"]
    /\ crowded' = (crowded \/ row[a].status = "REVOKED")
    /\ call' = [call EXCEPT ![c] = Idle]
    /\ UNCHANGED <<cached, said, revoked, raced>>

(* The verdict is written by id, over whatever the status is by now; a key  *)
(* that can no longer trade stays ACTIVE.                                   *)
WriteVerdict(c) ==
    LET a == call[c].account IN
    /\ call[c].pc = "write"
    /\ row' = [row EXCEPT ![a].status =
                  IF call[c].said \in {"trade", "idle"} THEN "ACTIVE" ELSE "INVALID"]
    /\ crowded' = (crowded \/ row[a].status = "REVOKED")
    /\ call' = [call EXCEPT ![c] = Idle]
    /\ UNCHANGED <<cached, said, revoked, raced>>

-----------------------------------------------------------------------------
(* getCredentials, on the way to an order *)

UseRead(c, a) ==
    /\ call[c].pc = "idle"
    /\ row[a] # NoRow
    /\ call' = [call EXCEPT ![c] = [Idle EXCEPT !.pc = "use", !.account = a, !.copy = row[a]]]
    /\ UNCHANGED <<row, cached, said, revoked, raced, crowded>>

Given(c) == call[c].pc = "use" /\ call[c].copy.status = "ACTIVE" /\ Opens(c)

(* The status of the copy decides; the caller gets the credentials.         *)
OpenToUse(c) ==
    /\ call[c].pc = "use"
    /\ cached' = IF Given(c) THEN cached \cup {call[c].account} ELSE cached
    /\ call' = [call EXCEPT ![c] = Idle]
    /\ UNCHANGED <<row, said, revoked, raced, crowded>>

-----------------------------------------------------------------------------
(* revoke *)

(* Mutant: the ciphertext stays in the row.                                 *)
RevokeWrite_KeepsKey(c, a) ==
    /\ call[c].pc = "idle"
    /\ row[a] # NoRow
    /\ row' = [row EXCEPT ![a].status = "REVOKED"]
    /\ revoked' = revoked \cup {a}
    /\ raced' = IF At({"open", "ask", "write", "use"}, a) # {} THEN raced \cup {a} ELSE raced
    /\ call' = [call EXCEPT ![c] = [Idle EXCEPT !.pc = "forget", !.account = a]]
    /\ UNCHANGED <<cached, said, crowded>>

(* The row is revoked and wiped. A handler that has read it before, and is  *)
(* not done, crosses the revocation.                                        *)
RevokeWrite(c, a) ==
    /\ call[c].pc = "idle"
    /\ row[a] # NoRow
    /\ row' = [row EXCEPT ![a] = [status |-> "REVOKED", sealed |-> FALSE]]
    /\ revoked' = revoked \cup {a}
    /\ raced' = IF At({"open", "ask", "write", "use"}, a) # {} THEN raced \cup {a} ELSE raced
    /\ call' = [call EXCEPT ![c] = [Idle EXCEPT !.pc = "forget", !.account = a]]
    /\ UNCHANGED <<cached, said, crowded>>

Forget(c) ==
    /\ call[c].pc = "forget"
    /\ cached' = cached \ {call[c].account}
    /\ call' = [call EXCEPT ![c] = Idle]
    /\ UNCHANGED <<row, said, revoked, raced, crowded>>

-----------------------------------------------------------------------------
(* The surroundings *)

(* A call of the database throws and the request ends; what the exchange    *)
(* said is then not written down.                                           *)
Unwritten(calls) == {a \in Accounts : At({"write"}, a) \cap calls # {}}

CallFails(c) ==
    /\ call[c].pc \notin {"idle", "forget"}
    /\ call' = [call EXCEPT ![c] = Idle]
    /\ raced' = raced \cup Unwritten({c})
    /\ UNCHANGED <<row, cached, said, revoked, crowded>>

(* CREDENTIAL_CACHE_TTL_MS has passed.                                      *)
CacheExpires(a) ==
    /\ a \in cached
    /\ cached' = cached \ {a}
    /\ UNCHANGED <<row, call, said, revoked, raced, crowded>>

AccountsRestart ==
    /\ cached' = {}
    /\ call' = [c \in Calls |-> Idle]
    /\ raced' = raced \cup Unwritten(Calls)
    /\ UNCHANGED <<row, said, revoked, crowded>>

(* What a request does; what begins one needs a free slot.                  *)
AccountCall(c) ==
    \/ CreateCheck(c)
    \/ \E power \in Powers : AskAboutNew(c, power) \/ Ask(c, power)
    \/ \E a \in Accounts : InsertAccount(c, a) \/ VerifyRead(c, a) \/ UseRead(c, a)
                           \/ RevokeWrite(c, a)
    \/ OpenToVerify(c) \/ WriteVerdict(c) \/ OpenToUse(c) \/ Forget(c)
    \/ CallFails(c)

AccountsNext ==
    \/ \E c \in Calls : AccountCall(c)
    \/ \E a \in Accounts : CacheExpires(a)
    \/ AccountsRestart

AccountsSpec == AccountsInit /\ [][AccountsNext]_accounts

-----------------------------------------------------------------------------
(* What these rest on: the row of a call is there; a revoked account is     *)
(* wiped, no verification of it is past its guard, and none can be while    *)
(* the cache still has it; one verification at a time has an answer.        *)
RevokedIsInert ==
    \A a \in revoked \ raced :
        /\ row[a] = [status |-> "REVOKED", sealed |-> FALSE]
        /\ a \in cached => At({"forget"}, a) # {}
        /\ At({"ask", "write"}, a) = {}
        /\ \A c \in At({"open", "use"}, a) : call[c].copy = row[a]
        /\ At({"open"}, a) = {} \/ At({"forget"}, a) = {}

OneAnswerAtATime ==
    \A a \in Accounts \ raced :
        /\ \A c, d \in At({"write"}, a) : c = d
        /\ \A c \in At({"write"}, a) : call[c].said = said[a]

RowsOfCalls ==
    /\ \A c \in Calls :
           /\ call[c].pc \in {"open", "ask", "write", "use", "forget"} =>
                  call[c].account \in Accounts /\ row[call[c].account] # NoRow
           /\ call[c].pc = "insert" => call[c].said = "trade"
    /\ \A a \in revoked \cup raced : row[a] # NoRow

RoomForNew ==
    (~crowded /\ \E c \in Calls : call[c].pc \in {"new", "insert"})
        => Cardinality(Live) < MaxAccounts

(* A revocation is for good: unless a handler that had read the row crossed *)
(* it, no verification brings the account back, no order is given its       *)
(* credentials, and they are neither in the row nor, once revoke has        *)
(* answered, in memory (revoke: "unrecoverable even from a database backup  *)
(* taken later").                                                           *)
RevokedForGood ==
    \A a \in revoked \ raced :
        /\ row[a] = [status |-> "REVOKED", sealed |-> FALSE]
        /\ a \in cached => At({"forget"}, a) # {}
        /\ \A c \in Calls : call[c].account = a => ~Given(c)

(* An account is ACTIVE because of what the exchange said the last time it  *)
(* was asked, for as long as no two verifications cross and none is about   *)
(* to write (verify, between its answer and its write).          *)
StatusIsTheLastAnswer ==
    \A a \in Live \ raced :
        At({"write"}, a) = {} => (row[a].status = "ACTIVE" <=> said[a] \in {"trade", "idle"})

(* A user has at most MAX_ACCOUNTS_PER_USER accounts, unless requests that  *)
(* had counted before one another add to them (create).                     *)
WithinTheLimit == crowded \/ Cardinality(Live) <= MaxAccounts

(* The inductive invariant.                                                 *)
AccountsInv ==
    /\ AccountsTypeOK /\ RowsOfCalls
    /\ RevokedIsInert /\ OneAnswerAtATime /\ StatusIsTheLastAnswer
    /\ RoomForNew /\ WithinTheLimit
=============================================================================
