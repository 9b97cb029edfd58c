--------------------- MODULE AccountsAndContractProofs ---------------------
(* Proofs about what the platform holds of others. Of ExchangeAccounts, for *)
(* any accounts, requests and limit; of AutoInvest, whose portfolios trade  *)
(* with one of those accounts; and of SubscriptionContract, for any         *)
(* accounts, ceiling, period and depth of calls.                            *)
EXTENDS ExchangeAccounts, AutoInvest, SubscriptionContract, FiniteSetTheorems,
        SequenceTheorems, TLAPS

(* Every account is a row, so only finitely many are alive.                 *)
LEMMA LiveIsFinite ==
    ASSUME AccountsTypeOK
    PROVE  /\ IsFiniteSet(Live)
           /\ Cardinality(Live) \in Nat
<1>1. IsFiniteSet(Live)
    BY AccountsAssumption, FS_Subset DEF Live
<1> QED
    BY <1>1, FS_CardinalityType

(* An account that is neither added nor brought back leaves the count.      *)
LEMMA LiveShrinks ==
    ASSUME AccountsTypeOK, Live' \subseteq Live
    PROVE  /\ Cardinality(Live') \in Nat
           /\ Cardinality(Live') <= Cardinality(Live)
<1>1. IsFiniteSet(Live)
    BY LiveIsFinite
<1>2. /\ IsFiniteSet(Live')
      /\ Cardinality(Live') <= Cardinality(Live)
    BY <1>1, FS_Subset
<1> QED
    BY <1>2, FS_CardinalityType

(* What an action must show of itself.                                      *)
LEMMA InitEstablishes == AccountsInit => AccountsInv
<1> SUFFICES ASSUME AccountsInit PROVE AccountsInv
    OBVIOUS
<1> USE AccountsAssumption DEF AccountsInit
<1>1. AccountsTypeOK
    BY DEF AccountsTypeOK, Request, Row, Idle, NoRow, Powers
<1>2. RowsOfCalls /\ RevokedIsInert /\ OneAnswerAtATime
    BY DEF RowsOfCalls, RevokedIsInert, OneAnswerAtATime, At, Idle
<1>3. Live = {}
    BY DEF Live, NoRow
<1>4. Cardinality(Live) = 0
    BY <1>3, FS_EmptySet
<1>5. RoomForNew /\ WithinTheLimit
    BY <1>4 DEF RoomForNew, WithinTheLimit, Idle
<1>6. StatusIsTheLastAnswer
    BY <1>3 DEF StatusIsTheLastAnswer
<1> QED
    BY <1>1, <1>2, <1>5, <1>6 DEF AccountsInv

LEMMA CreateCheckKeeps ==
    ASSUME AccountsInv, NEW c \in Calls, CreateCheck(c)
    PROVE  AccountsInv'
<1> USE AccountsAssumption DEF AccountsInv, CreateCheck, Idle
<1>1. AccountsTypeOK'
    BY DEF AccountsTypeOK, Request, Powers, Row
<1>2. RowsOfCalls'
    BY DEF RowsOfCalls, AccountsTypeOK, Request
<1>3. RevokedIsInert'
    BY DEF RevokedIsInert, At, AccountsTypeOK, Request, RowsOfCalls, NoRow
<1>4. OneAnswerAtATime' /\ StatusIsTheLastAnswer'
    BY DEF OneAnswerAtATime, StatusIsTheLastAnswer, At, AccountsTypeOK, Request, Live
<1>5. Live' = Live
    BY DEF Live
<1>6. RoomForNew' /\ WithinTheLimit'
    BY <1>5 DEF RoomForNew, WithinTheLimit
<1> QED
    BY <1>1, <1>2, <1>3, <1>4, <1>6

LEMMA AskAboutNewKeeps ==
    ASSUME AccountsInv, NEW c \in Calls, NEW power \in Powers, AskAboutNew(c, power)
    PROVE  AccountsInv'
<1> USE AccountsAssumption DEF AccountsInv, AskAboutNew, Idle
<1>1. AccountsTypeOK'
    <2>1. CASE power = "trade"
        BY <2>1 DEF AccountsTypeOK, Request
    <2>2. CASE power # "trade"
        BY <2>2 DEF AccountsTypeOK, Request, Row, Powers
    <2> QED
        BY <2>1, <2>2
<1>2. RowsOfCalls'
    BY DEF RowsOfCalls, AccountsTypeOK, Request
<1>3. RevokedIsInert'
    BY DEF RevokedIsInert, At, AccountsTypeOK, Request
<1>4. OneAnswerAtATime' /\ StatusIsTheLastAnswer'
    BY DEF OneAnswerAtATime, StatusIsTheLastAnswer, At, AccountsTypeOK, Request, Live
<1>5. Live' = Live
    BY DEF Live
<1>6. RoomForNew' /\ WithinTheLimit'
    BY <1>5 DEF RoomForNew, WithinTheLimit, AccountsTypeOK, Request
<1> QED
    BY <1>1, <1>2, <1>3, <1>4, <1>6

LEMMA InsertAccountKeeps ==
    ASSUME AccountsInv, NEW c \in Calls, NEW a \in Accounts, InsertAccount(c, a)
    PROVE  AccountsInv'
<1> USE AccountsAssumption DEF AccountsInv, InsertAccount, Idle
<1>1. AccountsTypeOK'
    BY DEF AccountsTypeOK, Request, Powers, Row, NoRow
<1>2. RowsOfCalls'
    BY DEF RowsOfCalls, AccountsTypeOK, Request, NoRow
<1>3. RevokedIsInert'
    BY DEF RevokedIsInert, At, AccountsTypeOK, Request, RowsOfCalls, Row, NoRow
<1>4. OneAnswerAtATime'
    BY DEF OneAnswerAtATime, At, AccountsTypeOK, Request, RowsOfCalls, RevokedIsInert
<1>5. StatusIsTheLastAnswer'
    BY DEF StatusIsTheLastAnswer, OneAnswerAtATime, At, AccountsTypeOK, Request, Live, RowsOfCalls, NoRow, Row
<1>6. /\ a \notin Live
      /\ Live' = Live \cup {a}
    BY DEF Live, NoRow, AccountsTypeOK, Request
<1>7. /\ Cardinality(Live) \in Nat
      /\ Cardinality(Live') = Cardinality(Live) + 1
    BY <1>6, LiveIsFinite, FS_AddElement
<1>8. RoomForNew'
    BY <1>7 DEF RoomForNew, AccountsTypeOK, Request
<1>9. WithinTheLimit'
    BY <1>7 DEF RoomForNew, WithinTheLimit, AccountsTypeOK, Request
<1> QED
    BY <1>1, <1>2, <1>3, <1>4, <1>5, <1>8, <1>9

LEMMA VerifyReadKeeps ==
    ASSUME AccountsInv, NEW c \in Calls, NEW a \in Accounts, VerifyRead(c, a)
    PROVE  AccountsInv'
<1> USE AccountsAssumption DEF AccountsInv, VerifyRead, Idle
<1>1. AccountsTypeOK'
    BY DEF AccountsTypeOK, Request, Powers, Row, NoRow
<1>2. RowsOfCalls'
    BY DEF RowsOfCalls, AccountsTypeOK, Request, NoRow
<1>3. RevokedIsInert'
    BY DEF RevokedIsInert, At, AccountsTypeOK, Request, RowsOfCalls, Row, NoRow
<1>4. OneAnswerAtATime'
    BY DEF OneAnswerAtATime, At, AccountsTypeOK, Request, RowsOfCalls, RevokedIsInert
<1>5. StatusIsTheLastAnswer'
    BY DEF StatusIsTheLastAnswer, OneAnswerAtATime, At, AccountsTypeOK, Request, Live, RowsOfCalls, NoRow, Row
<1>6. Live' = Live
    BY DEF Live
<1>7. RoomForNew' /\ WithinTheLimit'
    BY <1>6 DEF RoomForNew, WithinTheLimit, AccountsTypeOK, Request
<1> QED
    BY <1>1, <1>2, <1>3, <1>4, <1>5, <1>7

LEMMA OpenToVerifyKeeps ==
    ASSUME AccountsInv, NEW c \in Calls, OpenToVerify(c)
    PROVE  AccountsInv'
<1> USE AccountsAssumption DEF AccountsInv, OpenToVerify, Idle
<1>1. AccountsTypeOK'
    <2>1. CASE Opens(c)
        BY <2>1 DEF AccountsTypeOK, Request, RowsOfCalls
    <2>2. CASE ~Opens(c)
        BY <2>2 DEF AccountsTypeOK, Request, Row, NoRow, Powers
    <2> QED
        BY <2>1, <2>2
<1>2. RowsOfCalls'
    BY DEF RowsOfCalls, AccountsTypeOK, Request, NoRow
<1>3. RevokedIsInert'
    BY DEF RevokedIsInert, At, AccountsTypeOK, Request, RowsOfCalls, Row, NoRow, Opens
<1>4. OneAnswerAtATime'
    BY DEF OneAnswerAtATime, At, AccountsTypeOK, Request, RowsOfCalls, RevokedIsInert, Opens
<1>5. StatusIsTheLastAnswer'
    BY DEF StatusIsTheLastAnswer, OneAnswerAtATime, At, AccountsTypeOK, Request, Live, RowsOfCalls, NoRow, Row, Opens
<1>6. Live' = Live
    BY DEF Live
<1>7. RoomForNew' /\ WithinTheLimit'
    BY <1>6 DEF RoomForNew, WithinTheLimit, AccountsTypeOK, Request
<1> QED
    BY <1>1, <1>2, <1>3, <1>4, <1>5, <1>7

LEMMA AskKeeps ==
    ASSUME AccountsInv, NEW c \in Calls, NEW power \in Powers, Ask(c, power)
    PROVE  AccountsInv'
<1> USE AccountsAssumption DEF AccountsInv, Ask, Idle
<1>1. AccountsTypeOK'
    <2>1. call[c].account \in Accounts
        BY DEF RowsOfCalls
    <2>2. call' \in [Calls -> Request]
        BY DEF AccountsTypeOK, Request
    <2> QED
        BY <2>1, <2>2 DEF AccountsTypeOK, Request
<1>2. RowsOfCalls'
    BY DEF RowsOfCalls, AccountsTypeOK, Request, NoRow
<1>3. RevokedIsInert'
    <2> SUFFICES ASSUME NEW a \in Accounts, a \in revoked \ raced'
                 PROVE  /\ row[a] = [status |-> "REVOKED", sealed |-> FALSE]
                        /\ a \in cached => At({"forget"}, a)' # {}
                        /\ At({"ask", "write"}, a)' = {}
                        /\ \A d \in At({"open", "use"}, a)' : call'[d].copy = row[a]
                        /\ At({"open"}, a)' = {} \/ At({"forget"}, a)' = {}
        BY DEF RevokedIsInert, AccountsTypeOK, Request, At
    <2>1. a \in revoked \ raced /\ a # call[c].account
        BY DEF RevokedIsInert, At, AccountsTypeOK, Request
    <2>2. \A pcs : At(pcs, a)' = At(pcs, a)
        BY <2>1 DEF At, AccountsTypeOK, Request
    <2>3. \A d \in At({"open", "use"}, a) : call'[d].copy = call[d].copy
        BY DEF At, AccountsTypeOK, Request
    <2>4. /\ row[a] = [status |-> "REVOKED", sealed |-> FALSE]
          /\ a \in cached => At({"forget"}, a) # {}
          /\ At({"ask", "write"}, a) = {}
          /\ \A d \in At({"open", "use"}, a) : call[d].copy = row[a]
          /\ At({"open"}, a) = {} \/ At({"forget"}, a) = {}
        BY <2>1 DEF RevokedIsInert
    <2>5. \A d \in At({"open", "use"}, a)' : call'[d].copy = row[a]
        BY <2>2, <2>3, <2>4
    <2> QED
        BY <2>2, <2>4, <2>5
<1>4. OneAnswerAtATime'
    BY DEF OneAnswerAtATime, At, AccountsTypeOK, Request, RowsOfCalls, RevokedIsInert
<1>5. StatusIsTheLastAnswer'
    BY DEF StatusIsTheLastAnswer, OneAnswerAtATime, At, AccountsTypeOK, Request, Live, RowsOfCalls, NoRow, Row
<1>6. Live' = Live
    BY DEF Live
<1>7. RoomForNew' /\ WithinTheLimit'
    BY <1>6 DEF RoomForNew, WithinTheLimit, AccountsTypeOK, Request
<1> QED
    BY <1>1, <1>2, <1>3, <1>4, <1>5, <1>7

LEMMA WriteVerdictKeeps ==
    ASSUME AccountsInv, NEW c \in Calls, WriteVerdict(c)
    PROVE  AccountsInv'
<1> USE AccountsAssumption DEF AccountsInv, WriteVerdict, Idle
<1>1. AccountsTypeOK'
    <2>1. /\ call[c].account \in Accounts
          /\ row[call[c].account] # NoRow
        BY DEF RowsOfCalls
    <2>2. row' \in [Accounts -> Row]
        BY <2>1 DEF AccountsTypeOK, Request, Row
    <2>3. call' \in [Calls -> Request]
        BY DEF AccountsTypeOK, Request, Row, NoRow, Powers
    <2> QED
        BY <2>2, <2>3 DEF AccountsTypeOK, Request
<1>2. RowsOfCalls'
    BY DEF RowsOfCalls, AccountsTypeOK, Request, NoRow
<1>3. RevokedIsInert'
    BY DEF RevokedIsInert, At, AccountsTypeOK, Request, RowsOfCalls, Row, NoRow
<1>4. OneAnswerAtATime'
    BY DEF OneAnswerAtATime, At, AccountsTypeOK, Request, RowsOfCalls, RevokedIsInert
<1>5. StatusIsTheLastAnswer'
    BY DEF StatusIsTheLastAnswer, OneAnswerAtATime, At, AccountsTypeOK, Request, Live, RowsOfCalls, NoRow, Row
<1>6. ~crowded' => Live' = Live
    BY DEF Live, AccountsTypeOK, Request, RowsOfCalls, Row, NoRow
<1>7. RoomForNew' /\ WithinTheLimit'
    BY <1>6 DEF RoomForNew, WithinTheLimit, AccountsTypeOK, Request
<1> QED
    BY <1>1, <1>2, <1>3, <1>4, <1>5, <1>7

LEMMA UseReadKeeps ==
    ASSUME AccountsInv, NEW c \in Calls, NEW a \in Accounts, UseRead(c, a)
    PROVE  AccountsInv'
<1> USE AccountsAssumption DEF AccountsInv, UseRead, Idle
<1>1. AccountsTypeOK'
    BY DEF AccountsTypeOK, Request, Powers, Row, NoRow
<1>2. RowsOfCalls'
    BY DEF RowsOfCalls, AccountsTypeOK, Request, NoRow
<1>3. RevokedIsInert'
    BY DEF RevokedIsInert, At, AccountsTypeOK, Request, RowsOfCalls, Row, NoRow
<1>4. OneAnswerAtATime'
    BY DEF OneAnswerAtATime, At, AccountsTypeOK, Request, RowsOfCalls, RevokedIsInert
<1>5. StatusIsTheLastAnswer'
    BY DEF StatusIsTheLastAnswer, OneAnswerAtATime, At, AccountsTypeOK, Request, Live, RowsOfCalls, NoRow, Row
<1>6. Live' = Live
    BY DEF Live
<1>7. RoomForNew' /\ WithinTheLimit'
    BY <1>6 DEF RoomForNew, WithinTheLimit, AccountsTypeOK, Request
<1> QED
    BY <1>1, <1>2, <1>3, <1>4, <1>5, <1>7

LEMMA OpenToUseKeeps ==
    ASSUME AccountsInv, NEW c \in Calls, OpenToUse(c)
    PROVE  AccountsInv'
<1> USE AccountsAssumption DEF AccountsInv, OpenToUse, Idle
<1>1. AccountsTypeOK'
    <2>1. cached' \in SUBSET Accounts
        BY DEF AccountsTypeOK, Request, RowsOfCalls
    <2>2. call' \in [Calls -> Request]
        BY DEF AccountsTypeOK, Request, Row, NoRow, Powers
    <2> QED
        BY <2>1, <2>2 DEF AccountsTypeOK, Request
<1>2. RowsOfCalls'
    BY DEF RowsOfCalls, AccountsTypeOK, Request, NoRow
<1>3. RevokedIsInert'
    BY DEF RevokedIsInert, At, AccountsTypeOK, Request, RowsOfCalls, Row, NoRow, Given, Opens
<1>4. OneAnswerAtATime'
    BY DEF OneAnswerAtATime, At, AccountsTypeOK, Request, RowsOfCalls, RevokedIsInert, Given, Opens
<1>5. StatusIsTheLastAnswer'
    BY DEF StatusIsTheLastAnswer, OneAnswerAtATime, At, AccountsTypeOK, Request, Live, RowsOfCalls, NoRow, Row, Given, Opens
<1>6. Live' = Live
    BY DEF Live
<1>7. RoomForNew' /\ WithinTheLimit'
    BY <1>6 DEF RoomForNew, WithinTheLimit, AccountsTypeOK, Request
<1> QED
    BY <1>1, <1>2, <1>3, <1>4, <1>5, <1>7

LEMMA RevokeWriteKeeps ==
    ASSUME AccountsInv, NEW c \in Calls, NEW a \in Accounts, RevokeWrite(c, a)
    PROVE  AccountsInv'
<1> USE AccountsAssumption DEF AccountsInv, RevokeWrite, Idle
<1>1. AccountsTypeOK'
    <2>1. row' \in [Accounts -> Row]
        BY DEF AccountsTypeOK, Request, Row
    <2>2. call' \in [Calls -> Request]
        BY DEF AccountsTypeOK, Request, Row, NoRow, Powers
    <2> QED
        BY <2>1, <2>2 DEF AccountsTypeOK, Request
<1>2. RowsOfCalls'
    BY DEF RowsOfCalls, AccountsTypeOK, Request, NoRow
<1>3. RevokedIsInert'
    BY DEF RevokedIsInert, At, AccountsTypeOK, Request, RowsOfCalls, Row, NoRow
<1>4. OneAnswerAtATime'
    BY DEF OneAnswerAtATime, At, AccountsTypeOK, Request, RowsOfCalls, RevokedIsInert
<1>5. StatusIsTheLastAnswer'
    BY DEF StatusIsTheLastAnswer, OneAnswerAtATime, At, AccountsTypeOK, Request, Live, RowsOfCalls, NoRow, Row
<1>6. Live' \subseteq Live
    BY DEF Live, AccountsTypeOK, Request
<1>7. Cardinality(Live) \in Nat /\ Cardinality(Live') \in Nat
      /\ Cardinality(Live') <= Cardinality(Live)
    BY <1>6, LiveShrinks, LiveIsFinite
<1>8. RoomForNew' /\ WithinTheLimit'
    BY <1>7 DEF RoomForNew, WithinTheLimit, AccountsTypeOK, Request
<1> QED
    BY <1>1, <1>2, <1>3, <1>4, <1>5, <1>8

LEMMA ForgetKeeps ==
    ASSUME AccountsInv, NEW c \in Calls, Forget(c)
    PROVE  AccountsInv'
<1> USE AccountsAssumption DEF AccountsInv, Forget, Idle
<1>1. AccountsTypeOK'
    BY DEF AccountsTypeOK, Request, Powers, Row, NoRow
<1>2. RowsOfCalls'
    BY DEF RowsOfCalls, AccountsTypeOK, Request, NoRow
<1>3. RevokedIsInert'
    BY DEF RevokedIsInert, At, AccountsTypeOK, Request, RowsOfCalls, Row, NoRow
<1>4. OneAnswerAtATime'
    BY DEF OneAnswerAtATime, At, AccountsTypeOK, Request, RowsOfCalls, RevokedIsInert
<1>5. StatusIsTheLastAnswer'
    BY DEF StatusIsTheLastAnswer, OneAnswerAtATime, At, AccountsTypeOK, Request, Live, RowsOfCalls, NoRow, Row
<1>6. Live' = Live
    BY DEF Live
<1>7. RoomForNew' /\ WithinTheLimit'
    BY <1>6 DEF RoomForNew, WithinTheLimit, AccountsTypeOK, Request
<1> QED
    BY <1>1, <1>2, <1>3, <1>4, <1>5, <1>7

LEMMA CallFailsKeeps ==
    ASSUME AccountsInv, NEW c \in Calls, CallFails(c)
    PROVE  AccountsInv'
<1> USE AccountsAssumption DEF AccountsInv, CallFails, Idle
<1>1. AccountsTypeOK'
    BY DEF AccountsTypeOK, Request, Powers, Row, NoRow, Unwritten
<1>2. RowsOfCalls'
    BY DEF RowsOfCalls, AccountsTypeOK, Request, NoRow, Unwritten, At
<1>3. RevokedIsInert'
    BY DEF RevokedIsInert, At, AccountsTypeOK, Request, RowsOfCalls, Row, NoRow, Unwritten
<1>4. OneAnswerAtATime'
    BY DEF OneAnswerAtATime, At, AccountsTypeOK, Request, RowsOfCalls, RevokedIsInert, Unwritten
<1>5. StatusIsTheLastAnswer'
    BY DEF StatusIsTheLastAnswer, OneAnswerAtATime, At, AccountsTypeOK, Request, Live, RowsOfCalls, NoRow, Row, Unwritten
<1>6. Live' = Live
    BY DEF Live
<1>7. RoomForNew' /\ WithinTheLimit'
    BY <1>6 DEF RoomForNew, WithinTheLimit, AccountsTypeOK, Request
<1> QED
    BY <1>1, <1>2, <1>3, <1>4, <1>5, <1>7

LEMMA CacheExpiresKeeps ==
    ASSUME AccountsInv, NEW a \in Accounts, CacheExpires(a)
    PROVE  AccountsInv'
<1> USE DEF AccountsInv, CacheExpires
<1>1. AccountsTypeOK' /\ RowsOfCalls'
    BY DEF AccountsTypeOK, Request, RowsOfCalls
<1>2. RevokedIsInert' /\ OneAnswerAtATime' /\ StatusIsTheLastAnswer'
    BY DEF RevokedIsInert, OneAnswerAtATime, StatusIsTheLastAnswer, At, Live
<1>3. Live' = Live
    BY DEF Live
<1>4. RoomForNew' /\ WithinTheLimit'
    BY <1>3 DEF RoomForNew, WithinTheLimit
<1> QED
    BY <1>1, <1>2, <1>4

LEMMA RestartKeeps ==
    ASSUME AccountsInv, AccountsRestart
    PROVE  AccountsInv'
<1> USE AccountsAssumption DEF AccountsInv, AccountsRestart, Idle
<1>1. AccountsTypeOK'
    BY DEF AccountsTypeOK, Request, Unwritten, Row, NoRow, Powers
<1>2. RowsOfCalls'
    BY DEF RowsOfCalls, Unwritten, At, AccountsTypeOK, Request
<1>3. RevokedIsInert' /\ OneAnswerAtATime'
    BY DEF RevokedIsInert, OneAnswerAtATime, At, AccountsTypeOK, Request
<1>4. StatusIsTheLastAnswer'
    BY DEF StatusIsTheLastAnswer, At, Live, Unwritten, AccountsTypeOK, Request
<1>5. Live' = Live
    BY DEF Live
<1>6. RoomForNew' /\ WithinTheLimit'
    BY <1>5 DEF RoomForNew, WithinTheLimit
<1> QED
    BY <1>1, <1>2, <1>3, <1>4, <1>6

LEMMA NextKeeps == AccountsInv /\ [AccountsNext]_accounts => AccountsInv'
<1> SUFFICES ASSUME AccountsInv, [AccountsNext]_accounts PROVE AccountsInv'
    OBVIOUS
<1>1. CASE UNCHANGED accounts
    BY <1>1 DEF accounts, AccountsInv, AccountsTypeOK, Request, RowsOfCalls, RevokedIsInert, At,
                OneAnswerAtATime, StatusIsTheLastAnswer, RoomForNew, WithinTheLimit, Live
<1>2. ASSUME NEW c \in Calls, AccountCall(c) PROVE AccountsInv'
    BY <1>2, CreateCheckKeeps, AskAboutNewKeeps, InsertAccountKeeps, VerifyReadKeeps,
       OpenToVerifyKeeps, AskKeeps, WriteVerdictKeeps, UseReadKeeps, OpenToUseKeeps,
       RevokeWriteKeeps, ForgetKeeps, CallFailsKeeps DEF AccountCall
<1> QED
    BY <1>1, <1>2, CacheExpiresKeeps, RestartKeeps DEF AccountsNext

-----------------------------------------------------------------------------
(* The inductive invariant holds in every state.                            *)
THEOREM Invariance == AccountsSpec => []AccountsInv
<1> QED
    BY InitEstablishes, NextKeeps, PTL DEF AccountsSpec

(* A revocation is for good, however many handlers are at work, unless one  *)
(* of them had read the row before it.                                      *)
THEOREM RevocationIsFinal == AccountsSpec => []RevokedForGood
<1>1. AccountsInv => RevokedForGood
    BY DEF AccountsInv, RevokedForGood, RevokedIsInert, Given, At
<1> QED
    BY <1>1, Invariance, PTL

(* An account is ACTIVE because of the last answer of the exchange.         *)
THEOREM StatusFollowsTheExchange == AccountsSpec => []StatusIsTheLastAnswer
<1>1. AccountsInv => StatusIsTheLastAnswer
    BY DEF AccountsInv
<1> QED
    BY <1>1, Invariance, PTL

(* The limit on the accounts of a user holds for any limit.                 *)
THEOREM TheLimitHolds == AccountsSpec => []WithinTheLimit
<1>1. AccountsInv => WithinTheLimit
    BY DEF AccountsInv
<1> QED
    BY <1>1, Invariance, PTL

-----------------------------------------------------------------------------
(* Auto-invest: any requests, bots, offers and limits.                      *)

(* No request, no row, and the lengths of the presets.                      *)
LEMMA AtRest ==
    /\ NoJob \in Job /\ NoJob.pc = "idle" /\ NoJob.portfolio = 0 /\ NoJob.leg = 0
    /\ NoJob.bot = NoBot /\ NoJob.managed = {} /\ NoJob.alone = FALSE /\ NoJob.budget = 0
    /\ NoRowBot \in BotRow /\ NoRowBot.status = "none" /\ NoRowBot.tag = 0 /\ NoRowBot.from = 0
    /\ NoRowBot.leg = 0 /\ NoRowBot.open = FALSE
BY DEF NoJob, Job, Pcs, NoRowBot, BotRow

LEMMA PresetsHaveLegs ==
    ASSUME NEW p \in {"CONSERVATIVE", "BALANCED", "GROWTH"}
    PROVE  Len(Weights[p]) \in Nat \ {0}
BY DEF Weights

(* What is written to the row of one request, or of one bot.                *)
LEMMA OneJob ==
    ASSUME AutoTypeOK, NEW c \in Requests, NEW new \in Job, job' = [job EXCEPT ![c] = new]
    PROVE  /\ job' \in [Requests -> Job]
           /\ \A d \in Requests : job'[d] = IF d = c THEN new ELSE job[d]
BY DEF AutoTypeOK

LEMMA OneBot ==
    ASSUME AutoTypeOK, NEW b \in Bots, NEW new \in BotRow, bot' = [bot EXCEPT ![b] = new]
    PROVE  /\ bot' \in [Bots -> BotRow]
           /\ \A d \in Bots : bot'[d] = IF d = b THEN new ELSE bot[d]
BY DEF AutoTypeOK

(* The legs of a portfolio that was asked for.                              *)
LEMMA LegsOf ==
    ASSUME AutoTypeOK, NEW n \in 1 .. Len(asked)
    PROVE  Len(Legs(n)) \in Nat \ {0}
<1>1. asked[n] \in {"CONSERVATIVE", "BALANCED", "GROWTH"}
    BY DEF AutoTypeOK
<1> QED BY <1>1, PresetsHaveLegs DEF Legs

LEMMA AutoStart == AutoInit => AutoInv
<1> SUFFICES ASSUME AutoInit PROVE AutoInv
    OBVIOUS
<1>1. AutoTypeOK
  <2>1. <<>> \in Seq({"CONSERVATIVE", "BALANCED", "GROWTH"})
    OBVIOUS
  <2> QED BY <2>1, AtRest DEF AutoInit, AutoTypeOK
<1>2. /\ \A c \in Requests : job[c] = NoJob
      /\ \A b \in Bots : bot[b] = NoRowBot
      /\ Len(asked) = 0 /\ off = FALSE
    BY DEF AutoInit
<1>3. Enabling = {} /\ Managed = {}
    BY <1>2, AtRest DEF Enabling, Managed
<1>4. EnablesHaveTheirOwn /\ BotsAreOfTheirPortfolio /\ InsertedIsTheirs /\ OldOnesGo
    BY <1>2, <1>3, AtRest
    DEF EnablesHaveTheirOwn, BotsAreOfTheirPortfolio, InsertedIsTheirs, OldOnesGo
<1>5. OnePortfolio /\ OffMeansOff /\ AloneIsAlone /\ UnbrokenAreWhole
    BY <1>2, <1>3, AtRest
    DEF OnePortfolio, OffMeansOff, AloneIsAlone, UnbrokenAreWhole
<1> QED BY <1>1, <1>4, <1>5 DEF AutoInv

(* A step that creates nothing: requests end, fail or start what is not an  *)
(* enable, and bots stop, run, lose their tag or go.                        *)
FewerBots ==
    /\ asked' = asked /\ mixed' = mixed /\ broken \subseteq broken'
    /\ \A b \in Bots :
           \/ bot'[b] = NoRowBot /\ bot[b].from \in broken'
           \/ /\ bot'[b].from = bot[b].from /\ bot'[b].leg = bot[b].leg
              /\ Exists(b)' <=> Exists(b)
              /\ bot'[b].tag = bot[b].tag \/ (bot'[b].tag = 0 /\ bot[b].from \in broken')

Fewer ==
    /\ FewerBots
    /\ \A c \in Requests :
           \/ job'[c] = job[c]
           \/ /\ c \notin Enabling'
              /\ c \in Enabling => job[c].portfolio \in broken'

LEMMA FewerFacts ==
    ASSUME AutoInv, AutoTypeOK', Fewer
    PROVE  /\ Managed' \subseteq Managed /\ \A b \in Managed' : bot'[b].tag = bot[b].tag
           /\ Enabling' \subseteq Enabling /\ \A c \in Enabling' : job'[c] = job[c]
           /\ \A c \in Enabling : c \in Enabling' \/ job[c].portfolio \in broken'
<1>1. Managed' \subseteq Managed /\ \A b \in Managed' : bot'[b].tag = bot[b].tag
    BY AtRest DEF Managed, Fewer, FewerBots
<1>2. \A c \in Requests : c \in Enabling' => job'[c] = job[c]
    BY DEF Fewer, FewerBots
<1>3. Enabling' \subseteq Enabling /\ \A c \in Enabling' : job'[c] = job[c]
    BY <1>2 DEF Enabling
<1>4. \A c \in Enabling : c \in Enabling' \/ job[c].portfolio \in broken'
    BY DEF Fewer, FewerBots, Enabling
<1> QED BY <1>1, <1>3, <1>4

LEMMA FewerAreTheirs ==
    ASSUME AutoInv, AutoTypeOK', FewerBots
    PROVE  BotsAreOfTheirPortfolio'
<1> SUFFICES ASSUME NEW b \in Bots
             PROVE  /\ bot'[b].from \in 0 .. Len(asked) /\ bot'[b].tag \in {0, bot'[b].from}
                    /\ bot'[b].status # "none" \/ bot'[b].from = 0
    BY DEF BotsAreOfTheirPortfolio, FewerBots, Exists
<1>1. Len(asked) \in Nat
    BY DEF AutoInv, AutoTypeOK
<1>2. CASE bot'[b] = NoRowBot
    BY <1>1, <1>2, AtRest
<1>3. CASE bot'[b] # NoRowBot
    BY <1>3 DEF AutoInv, BotsAreOfTheirPortfolio, FewerBots, Exists
<1> QED BY <1>2, <1>3

(* A portfolio that lost nothing has the bots it had.                       *)
LEMMA FewerOfNone ==
    ASSUME AutoInv, FewerBots, NEW n \in 1 .. Len(asked), n \notin broken'
    PROVE  /\ n \notin broken /\ n \in 1 .. Len(asked') /\ Legs(n)' = Legs(n)
           /\ Born(n)' = Born(n) /\ \A b \in Born(n) : bot'[b].tag = bot[b].tag
           /\ \A k : OnePerLeg(n, k) => OnePerLeg(n, k)'
<1>1. n \notin broken /\ n \in 1 .. Len(asked') /\ n \in Nat \ {0}
    BY DEF FewerBots, AutoInv, AutoTypeOK
<1>2. \A b \in Bots : (bot'[b].from = n <=> bot[b].from = n)
                      /\ (bot[b].from = n => bot'[b].tag = bot[b].tag /\ bot'[b].leg = bot[b].leg)
    BY <1>1, AtRest DEF FewerBots
<1>3. Born(n)' = Born(n) /\ \A b \in Born(n) : bot'[b].tag = bot[b].tag /\ bot'[b].leg = bot[b].leg
    BY <1>2 DEF Born
<1>4. ASSUME NEW k, OnePerLeg(n, k) PROVE OnePerLeg(n, k)'
    BY <1>3, <1>4 DEF OnePerLeg
<1>5. Legs(n)' = Legs(n)
    BY DEF Legs, FewerBots
<1> QED BY <1>1, <1>3, <1>4, <1>5

LEMMA SoFarStays ==
    ASSUME AutoInv, FewerBots, NEW n \in 1 .. Len(asked), n \notin broken', NEW j, SoFar(n, j)
    PROVE  SoFar(n, j)'
<1>1. PICK k : k = Inserted(j)
    OBVIOUS
<1>2. OnePerLeg(n, k)'
    BY <1>1, FewerOfNone DEF SoFar
<1>3. Inserted(j)' = k
    BY <1>1 DEF Inserted
<1>4. OnePerLeg(n, Inserted(j))'
    BY <1>2, <1>3 DEF OnePerLeg
<1> QED BY <1>4, FewerOfNone DEF SoFar

LEMMA AllStay ==
    ASSUME AutoInv, FewerBots, NEW n \in 1 .. Len(asked), n \notin broken', AllThere(n)
    PROVE  AllThere(n)'
<1>1. PICK k : k = Len(Legs(n))
    OBVIOUS
<1>2. OnePerLeg(n, k)' /\ Len(Legs(n))' = k
    BY <1>1, FewerOfNone DEF AllThere
<1>3. OnePerLeg(n, Len(Legs(n)))'
    BY <1>2 DEF OnePerLeg
<1> QED BY <1>3, FewerOfNone DEF AllThere

LEMMA FewerKeep ==
    ASSUME AutoInv, AutoTypeOK', Fewer,
           off' => Enabling' = {} /\ OffMeansOff',
           \A c \in Requests : job'[c].alone =>
               job'[c].pc = "stop" /\ Enabling' = {} /\ Managed' \subseteq job'[c].managed
    PROVE  AutoInv'
<1> USE FewerFacts
<1>1. EnablesHaveTheirOwn'
    BY DEF AutoInv, EnablesHaveTheirOwn, Fewer, FewerBots, Legs
<1>2. BotsAreOfTheirPortfolio'
    BY FewerAreTheirs DEF Fewer
<1>3. InsertedIsTheirs'
  <2> SUFFICES ASSUME NEW c \in Requests, job'[c].pc = "tag",
                      bot'[job'[c].bot].status # "none"
               PROVE  /\ bot'[job'[c].bot].from = job'[c].portfolio
                      /\ bot'[job'[c].bot].leg = job'[c].leg
      BY DEF InsertedIsTheirs, Exists
  <2>1. job'[c] = job[c] /\ job[c] \in Job
      BY DEF Enabling, AutoInv, AutoTypeOK
  <2>2. PICK b : b = job[c].bot
      OBVIOUS
  <2>3. b \in Bots /\ (Exists(b) => bot[b].from = job[c].portfolio /\ bot[b].leg = job[c].leg)
      BY <2>1, <2>2 DEF AutoInv, InsertedIsTheirs, Job
  <2> QED BY <2>1, <2>2, <2>3, AtRest DEF Fewer, FewerBots, Exists
<1>4. OldOnesGo'
  <2> SUFFICES ASSUME NEW c \in Requests, NEW b \in Managed',
                      job'[c].pc \in {"delete", "leg", "insert", "tag"}
               PROVE  /\ job'[c].pc = "delete" =>
                             b \in job'[c].managed \/ bot'[b].tag = job'[c].portfolio
                             \/ {bot'[b].tag, job'[c].portfolio} \subseteq mixed'
                      /\ job'[c].pc \in {"leg", "insert", "tag"} =>
                             bot'[b].tag = job'[c].portfolio
                             \/ {bot'[b].tag, job'[c].portfolio} \subseteq mixed'
      BY DEF OldOnesGo
  <2>1. job'[c] = job[c] /\ bot'[b].tag = bot[b].tag /\ b \in Managed
      BY DEF Enabling
  <2> QED BY <2>1 DEF AutoInv, OldOnesGo, Fewer, FewerBots
<1>5. OnePortfolio'
    BY DEF AutoInv, OnePortfolio, Fewer, FewerBots
<1>6. AloneIsAlone'
    BY DEF AloneIsAlone
<1>7. OffMeansOff'
    BY DEF OffMeansOff
<1>8. ASSUME NEW n \in 1 .. Len(asked'), n \notin broken' PROVE WholeSoFar(n)'
  <2>1. n \in 1 .. Len(asked) /\ WholeSoFar(n)
      BY <1>8, FewerOfNone DEF AutoInv, UnbrokenAreWhole, Fewer, FewerBots
  <2> USE <1>8, <2>1, FewerOfNone DEF Fewer
  <2>2. ASSUME NEW c \in Enabling', job'[c].portfolio = n PROVE SoFar(n, job[c])'
    <3>1. c \in Enabling /\ job'[c] = job[c]
        OBVIOUS
    <3>2. PICK j : j = job[c]
        OBVIOUS
    <3>3. SoFar(n, j)
        BY <2>2, <3>1, <3>2 DEF WholeSoFar
    <3>4. SoFar(n, j)'
        BY <3>3, SoFarStays
    <3> QED BY <3>1, <3>2, <3>4 DEF SoFar, OnePerLeg, Inserted
  <2>3. ASSUME \A c \in Enabling' : job'[c].portfolio # n PROVE AllThere(n)'
    <3>1. \A c \in Enabling : job[c].portfolio # n
        BY <2>3
    <3>2. AllThere(n)
        BY <3>1 DEF WholeSoFar
    <3> QED BY <3>2, AllStay
  <2> QED BY <2>2, <2>3 DEF WholeSoFar
<1> QED BY <1>1, <1>2, <1>3, <1>4, <1>5, <1>6, <1>7, <1>8 DEF AutoInv, UnbrokenAreWhole

(* No disable is alone that was not.                                        *)
LEMMA StillAlone ==
    ASSUME AutoInv, AutoTypeOK', Fewer,
           \A c \in Requests : job'[c].alone => job'[c] = job[c],
           off' => off,
           \A b \in Managed' : bot'[b].status = "RUNNING" => bot[b].status = "RUNNING" \/ ~off'
    PROVE  AutoInv'
<1>1. \A c \in Requests : job'[c].alone =>
          job'[c].pc = "stop" /\ Enabling' = {} /\ Managed' \subseteq job'[c].managed
    BY FewerFacts DEF AutoInv, AloneIsAlone
<1>2. off' => Enabling' = {} /\ OffMeansOff'
    BY FewerFacts DEF AutoInv, AloneIsAlone, OffMeansOff
<1> QED BY <1>1, <1>2, FewerKeep

(* A bot that is there, written over, and nothing else.                     *)
LEMMA BotsOnly ==
    ASSUME AutoInv, NEW b \in Bots, NEW new \in BotRow,
           bot' = [bot EXCEPT ![b] = new],
           new.status # "none" <=> Exists(b), new.from = bot[b].from, new.leg = bot[b].leg, new.tag = bot[b].tag,
           new.status = "RUNNING" => bot[b].status = "RUNNING" \/ ~off',
           off' \in BOOLEAN, off' => off, UNCHANGED <<active, job, asked, mixed, broken>>
    PROVE  AutoInv'
<1>1. /\ bot' \in [Bots -> BotRow]
      /\ \A d \in Bots : bot'[d] = IF d = b THEN new ELSE bot[d]
    BY OneBot DEF AutoInv
<1>2. AutoTypeOK'
    BY <1>1 DEF AutoInv, AutoTypeOK
<1>3. Fewer
    BY <1>1 DEF Fewer, FewerBots, Exists
<1>4. \A d \in Managed' : bot'[d].status = "RUNNING" => bot[d].status = "RUNNING" \/ ~off'
    BY <1>1 DEF Managed
<1> QED BY <1>2, <1>3, <1>4, StillAlone

LEMMA SetStatusKeeps ==
    ASSUME AutoInv, NEW b \in Bots, NEW status \in {"RUNNING", "still"}, SetStatus(b, status)
    PROVE  AutoInv'
<1> DEFINE new == [bot[b] EXCEPT !.status = status]
<1>1. bot[b] \in BotRow
    BY DEF AutoInv, AutoTypeOK
<1>2. /\ new \in BotRow /\ new.from = bot[b].from /\ new.leg = bot[b].leg
      /\ new.tag = bot[b].tag /\ new.status = status
    BY <1>1 DEF BotRow
<1>3. bot' = [bot EXCEPT ![b] = new] /\ Exists(b) /\ off' = (off /\ status # "RUNNING")
    BY DEF SetStatus
<1>4. off' \in BOOLEAN /\ (off' => off) /\ (status = "RUNNING" => ~off')
    BY <1>3 DEF AutoInv, AutoTypeOK
<1> HIDE DEF new
<1> QED BY <1>2, <1>3, <1>4, BotsOnly DEF SetStatus

LEMMA RunnerRunsKeeps ==
    ASSUME AutoInv, NEW b \in Bots, RunnerRuns(b)
    PROVE  AutoInv'
<1> DEFINE new == IF bot[b].tag # 0 THEN [bot[b] EXCEPT !.status = "still"]
                  ELSE [bot[b] EXCEPT !.open = TRUE]
<1>1. bot[b] \in BotRow /\ off \in BOOLEAN /\ bot[b].status = "RUNNING"
    BY DEF AutoInv, AutoTypeOK, RunnerRuns
<1>2. /\ new \in BotRow /\ new.from = bot[b].from /\ new.leg = bot[b].leg
      /\ new.tag = bot[b].tag /\ new.status \in {"still", "RUNNING"}
    BY <1>1 DEF BotRow
<1>3. bot' = [bot EXCEPT ![b] = new] /\ Exists(b) /\ bot[b].status = "RUNNING"
    BY DEF RunnerRuns, Exists
<1> HIDE DEF new
<1> QED BY <1>1, <1>2, <1>3, BotsOnly DEF RunnerRuns

LEMMA OrderClosesKeeps ==
    ASSUME AutoInv, NEW b \in Bots, OrderCloses(b)
    PROVE  AutoInv'
<1> DEFINE new == [bot[b] EXCEPT !.open = FALSE]
<1>1. bot[b] \in BotRow /\ off \in BOOLEAN
    BY DEF AutoInv, AutoTypeOK
<1>2. /\ new \in BotRow /\ new.from = bot[b].from /\ new.leg = bot[b].leg
      /\ new.tag = bot[b].tag /\ new.status = bot[b].status
    BY <1>1 DEF BotRow
<1>3. bot' = [bot EXCEPT ![b] = new]
    BY DEF OrderCloses
<1> HIDE DEF new
<1> QED BY <1>1, <1>2, <1>3, BotsOnly DEF OrderCloses, Exists

(* Requests that are no enable, or end as a failure.                        *)
LEMMA JobsOnly ==
    ASSUME AutoInv, NEW c \in Requests, NEW new \in Job, job' = [job EXCEPT ![c] = new],
           new.pc \in {"idle", "stop", "edit", "remove"}, ~new.alone,
           broken' \in SUBSET Nat, broken \subseteq broken',
           c \in Enabling => job[c].portfolio \in broken',
           UNCHANGED <<active, bot, asked, mixed, off>>
    PROVE  AutoInv'
<1>1. /\ job' \in [Requests -> Job]
      /\ \A d \in Requests : job'[d] = IF d = c THEN new ELSE job[d]
    BY OneJob DEF AutoInv
<1>2. AutoTypeOK'
    BY <1>1 DEF AutoInv, AutoTypeOK
<1>3. c \notin Enabling'
    BY <1>1 DEF Enabling
<1>4. Fewer
    BY <1>1, <1>3 DEF Fewer, FewerBots, Exists
<1>5. (\A d \in Requests : job'[d].alone => job'[d] = job[d]) /\ (off' => off)
    BY <1>1
<1>6. \A b \in Managed' : bot'[b].status = "RUNNING" => bot[b].status = "RUNNING" \/ ~off'
    OBVIOUS
<1> QED BY <1>2, <1>4, <1>5, <1>6, StillAlone

LEMMA JobFailsKeeps ==
    ASSUME AutoInv, NEW c \in Requests, JobFails(c)
    PROVE  AutoInv'
<1>1. job[c] \in Job /\ broken \in SUBSET Nat
    BY DEF AutoInv, AutoTypeOK
<1>2. broken' \in SUBSET Nat /\ broken \subseteq broken' /\ job[c].portfolio \in broken'
    BY <1>1 DEF JobFails, Job
<1> QED BY <1>2, AtRest, JobsOnly DEF JobFails

LEMMA AutoRestartKeeps ==
    ASSUME AutoInv, Restart
    PROVE  AutoInv'
<1>1. \A c \in Requests : job[c] \in Job
    BY DEF AutoInv, AutoTypeOK
<1>2. broken' \in SUBSET Nat /\ broken \subseteq broken'
    BY <1>1 DEF Restart, AutoInv, AutoTypeOK, Job
<1>3. job' \in [Requests -> Job] /\ \A c \in Requests : job'[c] = NoJob
    BY AtRest DEF Restart
<1>4. AutoTypeOK'
    BY <1>2, <1>3 DEF AutoInv, AutoTypeOK, Restart
<1>5. Enabling' = {}
    BY <1>3, AtRest DEF Enabling
<1>6. Fewer
    BY <1>2, <1>5 DEF Fewer, FewerBots, Restart, Exists, Enabling
<1>7. (\A c \in Requests : job'[c].alone => job'[c] = job[c]) /\ (off' => off)
    BY <1>3, AtRest DEF Restart
<1>8. \A b \in Managed' : bot'[b].status = "RUNNING" => bot[b].status = "RUNNING" \/ ~off'
    BY DEF Restart
<1> QED BY <1>4, <1>6, <1>7, <1>8, StillAlone

(* Nothing changes but the account.                                         *)
LEMMA NothingMoves ==
    ASSUME AutoInv, active' \in BOOLEAN, UNCHANGED <<bot, job, asked, mixed, broken, off>>
    PROVE  AutoInv'
<1>1. AutoTypeOK'
    BY DEF AutoInv, AutoTypeOK
<1>2. Fewer
    BY DEF Fewer, FewerBots, Exists
<1> QED BY <1>1, <1>2, StillAlone

(* A disable is alone on what it has read if no enable is at work.          *)
LEMMA DisableReadKeeps ==
    ASSUME AutoInv, NEW c \in Requests, DisableRead(c)
    PROVE  AutoInv'
<1> DEFINE new == [NoJob EXCEPT !.pc = "stop", !.managed = Managed, !.alone = (Enabling = {})]
<1>1. (Enabling = {}) \in BOOLEAN /\ Managed \subseteq Bots
    BY DEF Managed
<1>2. /\ new \in Job /\ new.pc = "stop" /\ new.managed = Managed
      /\ new.alone = (Enabling = {})
    BY <1>1, AtRest DEF Job, Pcs
<1>3. job' = [job EXCEPT ![c] = new] /\ job[c].pc = "idle"
    BY DEF DisableRead, Free
<1> HIDE DEF new
<1>4. /\ job' \in [Requests -> Job]
      /\ \A d \in Requests : job'[d] = IF d = c THEN new ELSE job[d]
    BY <1>2, <1>3, OneJob DEF AutoInv
<1>5. AutoTypeOK'
    BY <1>4 DEF AutoInv, AutoTypeOK, DisableRead
<1>6. Enabling' = Enabling /\ c \notin Enabling /\ Managed' = Managed
    BY <1>2, <1>3, <1>4 DEF Enabling, Managed, DisableRead
<1>7. Fewer
    BY <1>4, <1>6 DEF Fewer, FewerBots, Exists, DisableRead
<1>8. \A d \in Requests : job'[d].alone =>
          job'[d].pc = "stop" /\ Enabling' = {} /\ Managed' \subseteq job'[d].managed
    BY <1>2, <1>4, <1>6 DEF AutoInv, AloneIsAlone
<1>9. off' => Enabling' = {} /\ OffMeansOff'
    BY <1>6 DEF AutoInv, AloneIsAlone, OffMeansOff, DisableRead
<1> QED BY <1>5, <1>7, <1>8, <1>9, FewerKeep

(* What was read when the disable was alone is all that could run.          *)
LEMMA StopManagedKeeps ==
    ASSUME AutoInv, NEW c \in Requests, StopManaged(c)
    PROVE  AutoInv'
<1>1. /\ job' \in [Requests -> Job]
      /\ \A d \in Requests : job'[d] = IF d = c THEN NoJob ELSE job[d]
    BY AtRest, OneJob DEF AutoInv, StopManaged
<1>2. \A b \in Bots :
          /\ bot[b] \in BotRow
          /\ bot'[b] = IF b \in job[c].managed /\ Exists(b)
                       THEN [bot[b] EXCEPT !.status = "still"] ELSE bot[b]
    BY DEF AutoInv, AutoTypeOK, StopManaged
<1>3. \A b \in Bots :
          /\ bot'[b] \in BotRow
          /\ bot'[b].from = bot[b].from /\ bot'[b].leg = bot[b].leg /\ bot'[b].tag = bot[b].tag
          /\ bot'[b].status = (IF b \in job[c].managed /\ Exists(b) THEN "still" ELSE bot[b].status)
    BY <1>2 DEF BotRow
<1>4. bot' = [b \in Bots |-> bot'[b]]
    BY DEF StopManaged
<1>5. bot' \in [Bots -> BotRow] /\ job[c] \in Job
    BY <1>3, <1>4 DEF AutoInv, AutoTypeOK
<1>6. AutoTypeOK'
    BY <1>1, <1>5 DEF AutoInv, AutoTypeOK, StopManaged, Job
<1>7. job[c].pc = "stop" /\ c \notin Enabling' /\ c \notin Enabling
    BY <1>1, AtRest DEF StopManaged, Enabling
<1>8. Fewer
    BY <1>1, <1>3, <1>7 DEF Fewer, FewerBots, Exists, StopManaged
<1>9. Enabling' = Enabling /\ Managed' = Managed
    BY <1>1, <1>3, <1>7 DEF Enabling, Managed
<1>10. \A d \in Requests : job'[d].alone =>
           job'[d].pc = "stop" /\ Enabling' = {} /\ Managed' \subseteq job'[d].managed
    BY <1>1, <1>9, AtRest DEF AutoInv, AloneIsAlone
<1>11. off' => Enabling = {} /\ Managed \subseteq job[c].managed
    BY DEF StopManaged, AutoInv, AloneIsAlone
<1>12. off' => OffMeansOff'
    BY <1>3, <1>9, <1>11 DEF OffMeansOff, Exists, Managed
<1> QED BY <1>6, <1>8, <1>9, <1>10, <1>11, <1>12, FewerKeep

(* A request ends over a bot that loses its tag, or goes.                   *)
LEMMA OverABot ==
    ASSUME AutoInv, NEW c \in Requests, c \notin Enabling, job[c].bot \in Bots,
           job' = [job EXCEPT ![c] = NoJob],
           NEW new \in BotRow, bot' = [bot EXCEPT ![job[c].bot] = new],
           \/ new = NoRowBot
           \/ /\ new.from = bot[job[c].bot].from /\ new.leg = bot[job[c].bot].leg
              /\ new.status = bot[job[c].bot].status
              /\ new.tag \in {0, bot[job[c].bot].tag},
           broken' = broken \cup {bot[job[c].bot].from},
           UNCHANGED <<active, asked, mixed, off>>
    PROVE  AutoInv'
<1>1. PICK b : b = job[c].bot
    OBVIOUS
<1>2. /\ b \in Bots /\ bot' = [bot EXCEPT ![b] = new] /\ broken' = broken \cup {bot[b].from}
      /\ \/ new = NoRowBot
         \/ /\ new.from = bot[b].from /\ new.leg = bot[b].leg /\ new.status = bot[b].status
            /\ new.tag \in {0, bot[b].tag}
    BY <1>1
<1>3. /\ bot' \in [Bots -> BotRow]
      /\ \A d \in Bots : bot'[d] = IF d = b THEN new ELSE bot[d]
    BY <1>2, OneBot DEF AutoInv
<1>4. /\ job' \in [Requests -> Job]
      /\ \A d \in Requests : job'[d] = IF d = c THEN NoJob ELSE job[d]
    BY AtRest, OneJob DEF AutoInv
<1>5. bot[b].from \in Nat /\ broken' \in SUBSET Nat
    BY <1>2 DEF AutoInv, AutoTypeOK, BotRow
<1>6. AutoTypeOK'
    BY <1>3, <1>4, <1>5 DEF AutoInv, AutoTypeOK
<1>7. c \notin Enabling'
    BY <1>4, AtRest DEF Enabling
<1>8. Fewer
    BY <1>2, <1>3, <1>4, <1>7 DEF Fewer, FewerBots, Exists
<1>9. (\A d \in Requests : job'[d].alone => job'[d] = job[d]) /\ (off' => off)
    BY <1>4, AtRest
<1>10. \A d \in Managed' : bot'[d].status = "RUNNING" => bot[d].status = "RUNNING" \/ ~off'
    BY <1>2, <1>3, AtRest DEF Managed
<1> QED BY <1>6, <1>8, <1>9, <1>10, StillAlone

LEMMA EditReadKeeps ==
    ASSUME AutoInv, NEW c \in Requests, NEW b \in Bots, EditRead(c, b)
    PROVE  AutoInv'
<1> DEFINE new == [NoJob EXCEPT !.pc = "edit", !.bot = b]
<1>1. new \in Job /\ new.pc = "edit" /\ ~new.alone
    BY AtRest DEF Job, Pcs
<1>2. job' = [job EXCEPT ![c] = new] /\ c \notin Enabling /\ broken' = broken
    BY DEF EditRead, Free, Enabling
<1>3. broken' \in SUBSET Nat
    BY <1>2 DEF AutoInv, AutoTypeOK
<1> HIDE DEF new
<1> QED BY <1>1, <1>2, <1>3, JobsOnly DEF EditRead

LEMMA RemoveReadKeeps ==
    ASSUME AutoInv, NEW c \in Requests, NEW b \in Bots, RemoveRead(c, b)
    PROVE  AutoInv'
<1> DEFINE new == [NoJob EXCEPT !.pc = "remove", !.bot = b]
<1>1. new \in Job /\ new.pc = "remove" /\ ~new.alone
    BY AtRest DEF Job, Pcs
<1>2. job' = [job EXCEPT ![c] = new] /\ c \notin Enabling /\ broken' = broken
    BY DEF RemoveRead, Free, Enabling
<1>3. broken' \in SUBSET Nat
    BY <1>2 DEF AutoInv, AutoTypeOK
<1> HIDE DEF new
<1> QED BY <1>1, <1>2, <1>3, JobsOnly DEF RemoveRead

LEMMA EditWriteKeeps ==
    ASSUME AutoInv, NEW c \in Requests, EditWrite(c)
    PROVE  AutoInv'
<1>1. PICK b : b = job[c].bot
    OBVIOUS
<1> DEFINE new == IF Exists(b) THEN [bot[b] EXCEPT !.tag = 0] ELSE bot[b]
<1>2. b \in Bots /\ bot[b] \in BotRow /\ bot \in [Bots -> BotRow]
    BY <1>1 DEF AutoInv, AutoTypeOK, Job, EditWrite
<1>3. /\ new \in BotRow /\ new.from = bot[b].from /\ new.leg = bot[b].leg
      /\ new.status = bot[b].status /\ new.tag \in {0, bot[b].tag}
    BY <1>2 DEF BotRow
<1>4. bot' = [bot EXCEPT ![b] = new]
    BY <1>1, <1>2 DEF EditWrite
<1>5. /\ c \notin Enabling /\ job' = [job EXCEPT ![c] = NoJob]
      /\ broken' = broken \cup {bot[job[c].bot].from}
      /\ UNCHANGED <<active, asked, mixed, off>>
    BY DEF EditWrite, Enabling
<1>6. /\ job[c].bot \in Bots /\ bot' = [bot EXCEPT ![job[c].bot] = new]
      /\ new.from = bot[job[c].bot].from /\ new.leg = bot[job[c].bot].leg
      /\ new.status = bot[job[c].bot].status /\ new.tag \in {0, bot[job[c].bot].tag}
    BY <1>1, <1>2, <1>3, <1>4
<1> HIDE DEF new
<1> QED BY <1>3, <1>5, <1>6, OverABot

LEMMA RemoveWriteKeeps ==
    ASSUME AutoInv, NEW c \in Requests, RemoveWrite(c)
    PROVE  AutoInv'
<1>1. /\ c \notin Enabling /\ job' = [job EXCEPT ![c] = NoJob]
      /\ bot' = [bot EXCEPT ![job[c].bot] = NoRowBot]
      /\ broken' = broken \cup {bot[job[c].bot].from}
      /\ UNCHANGED <<active, asked, mixed, off>>
      /\ job[c].bot \in Bots
    BY DEF RemoveWrite, Enabling, AutoInv, AutoTypeOK, Job
<1> QED BY <1>1, AtRest, OverABot

-----------------------------------------------------------------------------
(* The steps of an enable.                                                  *)

(* An enable at work has a portfolio that was asked for, and what is known  *)
(* of it and its bots.                                                      *)
LEMMA AtWork ==
    ASSUME AutoInv, NEW c \in Enabling
    PROVE  /\ c \in Requests /\ job[c] \in Job
           /\ job[c].portfolio \in 1 .. Len(asked) /\ job[c].portfolio \in Nat \ {0}
           /\ Len(Legs(job[c].portfolio)) \in Nat \ {0} /\ Len(asked) \in Nat
           /\ \A d \in Enabling \ {c} :
                  /\ job[d].portfolio # job[c].portfolio
                  /\ {job[c].portfolio, job[d].portfolio} \subseteq mixed
           /\ job[c].pc \in {"leg", "insert", "tag"} =>
                  job[c].leg \in 1 .. Len(Legs(job[c].portfolio))
           /\ ~job[c].alone /\ ~off /\ \A d \in Requests : ~job[d].alone
<1>1. c \in Requests /\ job[c] \in Job /\ Len(asked) \in Nat
    BY DEF AutoInv, AutoTypeOK, Enabling
<1>2. job[c].portfolio \in 1 .. Len(asked)
    BY DEF AutoInv, EnablesHaveTheirOwn
<1>3. Len(Legs(job[c].portfolio)) \in Nat \ {0}
    BY <1>2, LegsOf DEF AutoInv
<1> QED
    BY <1>1, <1>2, <1>3 DEF AutoInv, EnablesHaveTheirOwn, AloneIsAlone

(* One enable goes on and no bot is created: what it has done must be as    *)
(* much as before.                                                          *)
LEMMA GoesOnWith ==
    ASSUME AutoInv, NEW c \in Enabling, NEW new \in Job, job' = [job EXCEPT ![c] = new],
           new.pc \in {"find", "delete", "leg", "insert"},
           new.portfolio = job[c].portfolio, ~new.alone, job[c].pc # "tag",
           new.pc \in {"leg", "insert"} => new.leg \in 1 .. Len(Legs(job[c].portfolio)),
           Inserted(new) = Inserted(job[c]),
           bot' \in [Bots -> BotRow], broken' \in SUBSET Nat, FewerBots,
           \A b \in Managed' : b \in Managed /\ bot'[b] = bot[b],
           \A b \in Managed' :
               /\ new.pc = "delete" => b \in new.managed
               /\ new.pc \in {"leg", "insert"} =>
                      bot[b].tag = new.portfolio \/ {bot[b].tag, new.portfolio} \subseteq mixed,
           UNCHANGED <<active, off>>
    PROVE  AutoInv'
<1>1. /\ job' \in [Requests -> Job]
      /\ \A d \in Requests : job'[d] = IF d = c THEN new ELSE job[d]
    BY AtWork, OneJob DEF AutoInv
<1>2. AutoTypeOK'
    BY <1>1 DEF AutoInv, AutoTypeOK, FewerBots
<1>3. Enabling' = Enabling /\ \A d \in Enabling : job'[d].portfolio = job[d].portfolio
    BY <1>1, AtWork DEF Enabling
<1>4. EnablesHaveTheirOwn'
    BY <1>1, <1>3, AtWork DEF AutoInv, EnablesHaveTheirOwn, Legs, FewerBots
<1>5. BotsAreOfTheirPortfolio'
    BY <1>2, FewerAreTheirs
<1>6. OnePortfolio' /\ OffMeansOff'
    BY AtWork DEF AutoInv, OnePortfolio, OffMeansOff, FewerBots
<1>7. InsertedIsTheirs'
  <2> SUFFICES ASSUME NEW d \in Requests, job'[d].pc = "tag", bot'[job'[d].bot].status # "none"
               PROVE  /\ bot'[job'[d].bot].from = job'[d].portfolio
                      /\ bot'[job'[d].bot].leg = job'[d].leg
      BY DEF InsertedIsTheirs, Exists
  <2>1. job'[d] = job[d] /\ job[d].bot \in Bots
      BY <1>1 DEF AutoInv, AutoTypeOK, Job
  <2>2. PICK b \in Bots : b = job[d].bot
      BY <2>1
  <2>3. Exists(b) => bot[b].from = job[d].portfolio /\ bot[b].leg = job[d].leg
      BY <2>1, <2>2 DEF AutoInv, InsertedIsTheirs
  <2> QED BY <2>1, <2>2, <2>3, AtRest DEF FewerBots, Exists
<1>8. OldOnesGo'
    BY <1>1 DEF AutoInv, OldOnesGo, FewerBots
<1>9. AloneIsAlone'
    BY <1>1, AtWork DEF AloneIsAlone
<1>10. ASSUME NEW n \in 1 .. Len(asked'), n \notin broken' PROVE WholeSoFar(n)'
  <2>1. n \in 1 .. Len(asked) /\ n \notin broken /\ WholeSoFar(n)
      BY <1>10 DEF AutoInv, UnbrokenAreWhole, FewerBots
  <2>2. ASSUME NEW d \in Enabling, job'[d].portfolio = n PROVE SoFar(n, job[d])'
    <3>1. PICK j : j = job'[d]
        OBVIOUS
    <3>2. SoFar(n, job[d])
        BY <1>3, <2>1, <2>2 DEF WholeSoFar
    <3>3. d = c => Inserted(j) = Inserted(job[d]) /\ j.pc # "tag" /\ job[d].pc # "tag"
        BY <1>1, <3>1, AtWork
    <3>4. d # c => j = job[d]
        BY <1>1, <3>1 DEF Enabling
    <3>5. SoFar(n, j)
        BY <3>2, <3>3, <3>4 DEF SoFar
    <3>6. SoFar(n, j)'
        BY <1>10, <2>1, <3>5, SoFarStays
    <3> QED BY <3>1, <3>6 DEF SoFar, OnePerLeg, Inserted
  <2>3. ASSUME \A d \in Enabling : job'[d].portfolio # n PROVE AllThere(n)'
    <3>1. AllThere(n)
        BY <1>3, <2>1, <2>3 DEF WholeSoFar
    <3> QED BY <1>10, <2>1, <3>1, AllStay
  <2> QED BY <1>3, <2>2, <2>3 DEF WholeSoFar
<1> QED BY <1>2, <1>4, <1>5, <1>6, <1>7, <1>8, <1>9, <1>10 DEF AutoInv, UnbrokenAreWhole

LEMMA FindManagedKeeps ==
    ASSUME AutoInv, NEW c \in Requests, FindManaged(c)
    PROVE  AutoInv'
<1> DEFINE new == IF Managed = {} THEN [job[c] EXCEPT !.pc = "leg", !.leg = 1]
                  ELSE [job[c] EXCEPT !.pc = "delete", !.managed = Managed]
<1>1. c \in Enabling /\ job[c].pc = "find" /\ job' = [job EXCEPT ![c] = new]
    BY DEF FindManaged, Enabling
<1>2. job[c] \in Job /\ Managed \subseteq Bots
    BY DEF AutoInv, AutoTypeOK, Managed
<1>3. /\ new \in Job /\ new.portfolio = job[c].portfolio /\ new.alone = job[c].alone
      /\ new.pc = (IF Managed = {} THEN "leg" ELSE "delete")
      /\ Managed = {} => new.leg = 1
      /\ Managed # {} => new.managed = Managed
    BY <1>2 DEF Job, Pcs
<1> HIDE DEF new
<1>4. Inserted(new) = 0 /\ Inserted(job[c]) = 0
    BY <1>1, <1>3 DEF Inserted
<1>5. 1 \in 1 .. Len(Legs(job[c].portfolio)) /\ ~job[c].alone
    BY <1>1, AtWork
<1>6. /\ FewerBots /\ Managed' = Managed
      /\ bot' \in [Bots -> BotRow] /\ broken' \in SUBSET Nat
      /\ UNCHANGED <<active, bot, asked, mixed, broken, off>>
    BY DEF FewerBots, Exists, Managed, FindManaged, AutoInv, AutoTypeOK
<1>7. /\ ~new.alone /\ job[c].pc # "tag" /\ new.pc \in {"find", "delete", "leg", "insert"}
      /\ new.pc \in {"leg", "insert"} => new.leg \in 1 .. Len(Legs(job[c].portfolio))
      /\ \A b \in Managed' : new.pc = "delete" /\ b \in new.managed
    BY <1>1, <1>3, <1>5, <1>6
<1> QED BY <1>1, <1>3, <1>4, <1>6, <1>7, GoesOnWith

LEMMA CheckLegKeeps ==
    ASSUME AutoInv, NEW c \in Requests, CheckLeg(c)
    PROVE  AutoInv'
<1>1. c \in Enabling /\ job[c].pc = "leg" /\ job[c] \in Job
    BY DEF CheckLeg, Enabling, AutoInv, AutoTypeOK
<1>2. CASE job' = [job EXCEPT ![c] = [@ EXCEPT !.pc = "insert"]] /\ broken' = broken
  <2> DEFINE new == [job[c] EXCEPT !.pc = "insert"]
  <2>1. /\ new \in Job /\ new.portfolio = job[c].portfolio /\ new.alone = job[c].alone
        /\ new.pc = "insert" /\ new.leg = job[c].leg
      BY <1>1 DEF Job, Pcs
  <2>2. job' = [job EXCEPT ![c] = new]
      BY <1>2
  <2> HIDE DEF new
  <2>3. Inserted(new) = Inserted(job[c])
      BY <1>1, <2>1 DEF Inserted
  <2>4. \A b \in Managed :
            bot[b].tag = new.portfolio \/ {bot[b].tag, new.portfolio} \subseteq mixed
      BY <1>1, <2>1 DEF AutoInv, OldOnesGo
  <2>5. ~new.alone /\ new.leg \in 1 .. Len(Legs(job[c].portfolio))
      BY <1>1, <2>1, AtWork
  <2>6. /\ FewerBots /\ Managed' = Managed
        /\ bot' \in [Bots -> BotRow] /\ broken' \in SUBSET Nat
        /\ UNCHANGED <<active, bot, asked, mixed, broken, off>>
      BY <1>2 DEF FewerBots, Exists, Managed, CheckLeg, AutoInv, AutoTypeOK
  <2>7. new.pc \in {"leg", "insert"} /\ new.pc # "delete" /\ job[c].pc # "tag"
      BY <1>1, <2>1
  <2> QED BY <1>1, <2>1, <2>2, <2>3, <2>4, <2>5, <2>6, <2>7, GoesOnWith
<1>3. CASE job' = [job EXCEPT ![c] = NoJob] /\ broken' = broken \cup {job[c].portfolio}
  <2>1. broken' \in SUBSET Nat /\ broken \subseteq broken' /\ job[c].portfolio \in broken'
      BY <1>1, <1>3 DEF AutoInv, AutoTypeOK, Job
  <2> QED BY <1>3, <2>1, AtRest, JobsOnly DEF CheckLeg
<1> QED BY <1>2, <1>3 DEF CheckLeg

LEMMA DeleteManagedKeeps ==
    ASSUME AutoInv, NEW c \in Requests, DeleteManaged(c)
    PROVE  AutoInv'
<1> DEFINE new == [job[c] EXCEPT !.pc = "leg", !.leg = 1, !.managed = {}]
<1>1. c \in Enabling /\ job[c].pc = "delete" /\ job[c] \in Job /\ job \in [Requests -> Job]
    BY DEF DeleteManaged, Enabling, AutoInv, AutoTypeOK
<1>2. /\ new \in Job /\ new.portfolio = job[c].portfolio /\ new.alone = job[c].alone
      /\ new.pc = "leg" /\ new.leg = 1
    BY <1>1 DEF Job, Pcs
<1>3. job' = [job EXCEPT ![c] = new]
    BY <1>1 DEF DeleteManaged
<1> HIDE DEF new
<1>4. Inserted(new) = Inserted(job[c])
    BY <1>1, <1>2 DEF Inserted
<1>5. ~new.alone /\ new.leg \in 1 .. Len(Legs(job[c].portfolio))
    BY <1>1, <1>2, AtWork
<1>6. \A b \in Bots : bot[b] \in BotRow /\ bot'[b] = IF b \in job[c].managed THEN NoRowBot ELSE bot[b]
    BY DEF DeleteManaged, AutoInv, AutoTypeOK
<1>7. bot' = [b \in Bots |-> bot'[b]]
    BY DEF DeleteManaged
<1>8. bot' \in [Bots -> BotRow]
    BY <1>6, <1>7, AtRest
<1>9. job[c].managed \subseteq Bots
    BY <1>1 DEF Job
<1>10. \A b \in job[c].managed : bot[b].from \in Nat
    BY <1>6, <1>9 DEF BotRow
<1>11. broken' \in SUBSET Nat /\ broken \subseteq broken' /\ \A b \in job[c].managed : bot[b].from \in broken'
    BY <1>10 DEF DeleteManaged, AutoInv, AutoTypeOK
<1>12. FewerBots
    BY <1>6, <1>11 DEF FewerBots, DeleteManaged, Exists
<1>13. \A b \in Managed' : b \in Managed /\ bot'[b] = bot[b] /\ b \notin job[c].managed
    BY <1>6, AtRest DEF Managed
<1>14. \A b \in Managed :
           b \in job[c].managed \/ bot[b].tag = new.portfolio
           \/ {bot[b].tag, new.portfolio} \subseteq mixed
    BY <1>1, <1>2 DEF AutoInv, OldOnesGo
<1>15. \A b \in Managed' :
           bot[b].tag = new.portfolio \/ {bot[b].tag, new.portfolio} \subseteq mixed
    BY <1>13, <1>14
<1>16. /\ \A b \in Managed' : b \in Managed /\ bot'[b] = bot[b]
       /\ new.pc \in {"leg", "insert"} /\ new.pc # "delete" /\ job[c].pc # "tag"
       /\ UNCHANGED <<active, off>>
    BY <1>1, <1>2, <1>13 DEF DeleteManaged
<1> QED BY <1>1, <1>2, <1>3, <1>4, <1>5, <1>8, <1>11, <1>12, <1>15, <1>16, GoesOnWith

(* A bot is created for the next leg: no call in flight knows its id.       *)
LEMMA InsertLegKeeps ==
    ASSUME AutoInv, NEW c \in Requests, NEW b \in Bots, InsertLeg(c, b)
    PROVE  AutoInv'
<1> DEFINE new == [job[c] EXCEPT !.pc = "tag", !.bot = b]
           fresh == [NoRowBot EXCEPT !.status = "still", !.from = job[c].portfolio, !.leg = job[c].leg]
<1>1. c \in Enabling /\ job[c].pc = "insert" /\ job[c] \in Job /\ job \in [Requests -> Job]
    BY DEF InsertLeg, Enabling, AutoInv, AutoTypeOK
<1>2. PICK n \in 1 .. Len(asked) : n = job[c].portfolio
    BY <1>1, AtWork
<1>3. /\ new \in Job /\ new.portfolio = n /\ ~new.alone /\ new.pc = "tag"
      /\ new.leg = job[c].leg /\ new.bot = b
    BY <1>1, <1>2, AtWork DEF Job, Pcs
<1>4. /\ fresh \in BotRow /\ fresh.from = n /\ fresh.leg = job[c].leg /\ fresh.tag = 0
      /\ fresh.status = "still"
    BY <1>1, <1>2, AtRest DEF Job, BotRow
<1>5. /\ job' = [job EXCEPT ![c] = new] /\ bot' = [bot EXCEPT ![b] = fresh]
      /\ UNCHANGED <<active, asked, mixed, broken, off>>
      /\ ~Exists(b) /\ \A d \in Requests : job[d].bot # b
    BY <1>1 DEF InsertLeg, Unused
<1> HIDE DEF new, fresh
<1>6. /\ job' \in [Requests -> Job]
      /\ \A d \in Requests : job'[d] = IF d = c THEN new ELSE job[d]
    BY <1>3, <1>5, OneJob DEF AutoInv
<1>7. /\ bot' \in [Bots -> BotRow]
      /\ \A d \in Bots : bot'[d] = IF d = b THEN fresh ELSE bot[d]
    BY <1>4, <1>5, OneBot DEF AutoInv
<1>8. AutoTypeOK'
    BY <1>5, <1>6, <1>7 DEF AutoInv, AutoTypeOK
<1>9. /\ Enabling' = Enabling /\ \A d \in Enabling : job'[d].portfolio = job[d].portfolio
    BY <1>1, <1>2, <1>3, <1>6 DEF Enabling
<1>10. bot[b].from = 0 /\ bot[b].tag = 0 /\ b \notin Managed
    BY <1>5 DEF AutoInv, BotsAreOfTheirPortfolio, Managed
<1>11. Managed' = Managed /\ \A d \in Managed : bot'[d] = bot[d]
    BY <1>4, <1>7, <1>10 DEF Managed
<1>12. EnablesHaveTheirOwn'
    BY <1>1, <1>3, <1>5, <1>6, <1>9 DEF AutoInv, EnablesHaveTheirOwn, Legs
<1>13. BotsAreOfTheirPortfolio'
    BY <1>2, <1>4, <1>5, <1>7 DEF AutoInv, BotsAreOfTheirPortfolio, Exists
<1>14. OnePortfolio' /\ OffMeansOff' /\ AloneIsAlone'
    BY <1>1, <1>3, <1>5, <1>6, <1>11, AtWork DEF AutoInv, OnePortfolio, OffMeansOff, AloneIsAlone
<1>15. InsertedIsTheirs'
    BY <1>2, <1>3, <1>4, <1>5, <1>6, <1>7 DEF AutoInv, AutoTypeOK, Job, InsertedIsTheirs, Exists
<1>16. OldOnesGo'
    BY <1>1, <1>2, <1>3, <1>5, <1>6, <1>11 DEF AutoInv, OldOnesGo
<1>17. ASSUME NEW m \in 1 .. Len(asked), m \notin broken, m # n PROVE WholeSoFar(m)'
  <2>1. Born(m)' = Born(m) /\ \A d \in Born(m) : bot'[d] = bot[d]
      BY <1>4, <1>7, <1>10, <1>17 DEF Born
  <2>2. WholeSoFar(m)
      BY <1>17 DEF AutoInv, UnbrokenAreWhole
  <2>3. \A d \in Enabling : job[d].portfolio = m => job'[d] = job[d]
      BY <1>2, <1>6, <1>17 DEF Enabling
  <2>4. ASSUME NEW d \in Enabling, job[d].portfolio = m PROVE SoFar(m, job[d])'
    <3>1. PICK j : j = job[d]
        OBVIOUS
    <3>2. SoFar(m, j)
        BY <2>2, <2>4, <3>1 DEF WholeSoFar
    <3>3. SoFar(m, j)'
        BY <2>1, <3>2 DEF SoFar, OnePerLeg, Inserted
    <3> QED BY <2>3, <2>4, <3>1, <3>3 DEF SoFar, OnePerLeg, Inserted
  <2>5. ASSUME \A d \in Enabling : job[d].portfolio # m PROVE AllThere(m)'
    <3>1. AllThere(m)
        BY <2>2, <2>5 DEF WholeSoFar
    <3> QED BY <1>5, <2>1, <3>1 DEF AllThere, OnePerLeg, Legs
  <2> QED BY <1>9, <2>4, <2>5 DEF WholeSoFar
<1>18. n \notin broken => WholeSoFar(n)'
  <2> SUFFICES ASSUME n \notin broken PROVE WholeSoFar(n)'
      OBVIOUS
  <2>1. SoFar(n, job[c])
      BY <1>1, <1>2 DEF AutoInv, UnbrokenAreWhole, WholeSoFar
  <2>2. PICK k \in Nat : k + 1 = job[c].leg
      BY <1>1, AtWork
  <2>3. Inserted(job[c]) = k /\ Inserted(new) = k + 1
      BY <1>1, <1>3, <2>2 DEF Inserted
  <2>4. /\ {bot[d].leg : d \in Born(n)} = 1 .. k
        /\ \A d, e \in Born(n) : bot[d].leg = bot[e].leg => d = e
        /\ \A d \in Born(n) : bot[d].tag = n
      BY <1>1, <2>1, <2>3 DEF SoFar, OnePerLeg
  <2>5. /\ Born(n)' = Born(n) \cup {b} /\ b \notin Born(n)
        /\ \A d \in Born(n) : bot'[d] = bot[d]
        /\ bot'[b].leg = k + 1
      BY <1>2, <1>4, <1>7, <1>10, <2>2 DEF Born
  <2>6. {bot'[d].leg : d \in Born(n)'} = 1 .. k + 1
    <3>1. {bot'[d].leg : d \in Born(n)'} = {bot[d].leg : d \in Born(n)} \cup {k + 1}
        BY <2>5
    <3>2. 1 .. k + 1 = (1 .. k) \cup {k + 1}
        OBVIOUS
    <3> QED BY <2>4, <3>1, <3>2
  <2>7. \A d, e \in Born(n)' : bot'[d].leg = bot'[e].leg => d = e
    <3>1. \A d \in Born(n) : bot[d].leg \in 1 .. k
        BY <2>4
    <3> QED BY <2>4, <2>5, <3>1
  <2>8. PICK j : j = new
      OBVIOUS
  <2>9. SoFar(n, j)'
    <3>1. Inserted(j)' = k + 1
        BY <2>3, <2>8 DEF Inserted
    <3> QED BY <1>3, <2>4, <2>5, <2>6, <2>7, <2>8, <3>1 DEF SoFar, OnePerLeg
  <2>10. \A d \in Enabling : job'[d].portfolio = n => d = c
      BY <1>1, <1>2, <1>9, AtWork
  <2>11. job'[c] = j /\ job'[c].portfolio = n
      BY <1>1, <1>3, <1>6, <2>8
  <2>12. ASSUME NEW d \in Enabling', job'[d].portfolio = n PROVE SoFar(n, job[d])'
      BY <1>9, <2>9, <2>10, <2>11, <2>12 DEF SoFar, OnePerLeg, Inserted
  <2> QED BY <1>1, <1>9, <2>11, <2>12 DEF WholeSoFar
<1> QED BY <1>5, <1>8, <1>12, <1>13, <1>14, <1>15, <1>16, <1>17, <1>18 DEF AutoInv, UnbrokenAreWhole

(* An enable that begins has nothing yet.                                   *)
LEMMA EnableCheckKeeps ==
    ASSUME AutoInv, NEW c \in Requests, NEW offer \in Offers, EnableCheck(c, offer)
    PROVE  AutoInv'
<1>1. PICK n \in Nat \ {0} : n = Len(asked) + 1
    BY DEF AutoInv, AutoTypeOK
<1> DEFINE new == [NoJob EXCEPT !.pc = "find", !.budget = offer[2], !.portfolio = n]
<1>2. offer[1] \in {"CONSERVATIVE", "BALANCED", "GROWTH"} /\ offer[2] \in Nat
    BY AutoInvestAssumption
<1>3. /\ new \in Job /\ new.pc = "find" /\ new.portfolio = n /\ ~new.alone
    BY <1>2, AtRest DEF Job, Pcs
<1>4. job' = [d \in Requests |-> IF d = c THEN new ELSE [job[d] EXCEPT !.alone = FALSE]]
    BY <1>1 DEF EnableCheck
<1> HIDE DEF new
<1>5. \A d \in Requests \ {c} :
          /\ job[d] \in Job /\ job'[d] \in Job /\ job'[d].pc = job[d].pc
          /\ job'[d].portfolio = job[d].portfolio /\ job'[d].leg = job[d].leg
          /\ job'[d].bot = job[d].bot /\ job'[d].managed = job[d].managed
          /\ ~job'[d].alone
    BY <1>4 DEF AutoInv, AutoTypeOK, Job
<1>6. job'[c] = new
    BY <1>4
<1>7. job' \in [Requests -> Job]
  <2>1. \A d \in Requests : job'[d] \in Job
      BY <1>3, <1>5, <1>6
  <2> QED BY <1>4, <2>1
<1>8. /\ asked \in Seq({"CONSERVATIVE", "BALANCED", "GROWTH"}) /\ asked' = Append(asked, offer[1])
      /\ Len(asked') = n /\ Len(asked) = n - 1 /\ \A m \in 1 .. Len(asked) : asked'[m] = asked[m]
      /\ asked' \in Seq({"CONSERVATIVE", "BALANCED", "GROWTH"})
    BY <1>1, <1>2 DEF AutoInv, AutoTypeOK, EnableCheck
<1>9. /\ Enabling' = Enabling \cup {c} /\ c \notin Enabling /\ Managed' = Managed
      /\ bot' = bot /\ broken' = broken /\ active' = active /\ off' = FALSE
    BY <1>3, <1>5, <1>6 DEF Enabling, Managed, EnableCheck, Free
<1>10. \A d \in Enabling : job[d].portfolio \in 1 .. Len(asked)
    BY AtWork
<1>11. /\ mixed \subseteq mixed' /\ mixed' \in SUBSET Nat
       /\ Enabling # {} => n \in mixed' /\ \A d \in Enabling : job[d].portfolio \in mixed'
    BY <1>1, <1>10 DEF EnableCheck, AutoInv, AutoTypeOK
<1>12. AutoTypeOK'
    BY <1>7, <1>8, <1>9, <1>11 DEF AutoInv, AutoTypeOK
<1>13. EnablesHaveTheirOwn'
  <2>1. \A d \in Enabling : Len(Legs(job[d].portfolio))' = Len(Legs(job[d].portfolio))
      BY <1>5, <1>8, <1>9, <1>10 DEF Legs, Enabling
  <2>2. \A d \in Enabling : d \in Requests \ {c} /\ job[d].portfolio # n
      BY <1>8, <1>9, <1>10 DEF Enabling
  <2> QED BY <1>3, <1>5, <1>6, <1>8, <1>9, <1>10, <1>11, <2>1, <2>2
          DEF AutoInv, EnablesHaveTheirOwn
<1>14. BotsAreOfTheirPortfolio'
    BY <1>8, <1>9 DEF AutoInv, BotsAreOfTheirPortfolio, Exists
<1>15. InsertedIsTheirs'
    BY <1>3, <1>5, <1>6, <1>9 DEF AutoInv, InsertedIsTheirs, Exists
<1>16. OldOnesGo'
    BY <1>3, <1>5, <1>6, <1>9, <1>11 DEF AutoInv, OldOnesGo
<1>17. OnePortfolio' /\ OffMeansOff' /\ AloneIsAlone'
  <2>1. OnePortfolio'
      BY <1>9, <1>11 DEF AutoInv, OnePortfolio
  <2>2. \A d \in Requests : ~job'[d].alone
      BY <1>3, <1>5, <1>6
  <2> QED BY <1>9, <2>1, <2>2 DEF OffMeansOff, AloneIsAlone
<1>18. ASSUME NEW m \in 1 .. Len(asked), m \notin broken PROVE WholeSoFar(m)'
  <2>1. WholeSoFar(m) /\ m # n /\ Legs(m)' = Legs(m) /\ Born(m)' = Born(m)
      BY <1>8, <1>9, <1>18 DEF AutoInv, UnbrokenAreWhole, Legs, Born
  <2>2. ASSUME NEW d \in Enabling, job'[d].portfolio = m PROVE SoFar(m, job[d])'
    <3>1. SoFar(m, job[d])
        BY <1>5, <1>9, <2>1, <2>2 DEF WholeSoFar, Enabling
    <3>2. Inserted(job[d])' = Inserted(job[d])
        BY <1>5, <1>9 DEF Inserted, Enabling
    <3>3. OnePerLeg(m, Inserted(job[d]))'
        BY <1>9, <2>1, <3>1, <3>2 DEF SoFar, OnePerLeg
    <3> QED BY <1>5, <1>9, <2>1, <3>1, <3>3 DEF SoFar, Enabling
  <2>3. ASSUME \A d \in Enabling : job'[d].portfolio # m PROVE AllThere(m)'
    <3>1. AllThere(m)
        BY <1>5, <1>9, <2>1, <2>3 DEF WholeSoFar, Enabling
    <3> QED BY <1>9, <2>1, <3>1 DEF AllThere, OnePerLeg
  <2>4. job'[c].portfolio # m
      BY <1>3, <1>6, <2>1
  <2> QED BY <1>9, <2>2, <2>3, <2>4 DEF WholeSoFar
<1>19. WholeSoFar(n)'
  <2>1. Born(n)' = {}
      BY <1>8, <1>9 DEF Born, AutoInv, BotsAreOfTheirPortfolio
  <2>2. \A d \in Enabling' : job'[d].portfolio = n => d = c
      BY <1>5, <1>8, <1>9, <1>10 DEF Enabling
  <2>3. Inserted(job[c])' = 0
      BY <1>3, <1>6 DEF Inserted
  <2>4. OnePerLeg(n, Inserted(job[c]))'
      BY <2>1, <2>3 DEF OnePerLeg
  <2>5. SoFar(n, job[c])'
      BY <1>3, <1>6, <2>1, <2>4 DEF SoFar
  <2>6. job'[c].portfolio = n /\ c \in Enabling'
      BY <1>3, <1>6, <1>9
  <2> QED BY <2>2, <2>5, <2>6 DEF WholeSoFar
<1>20. UnbrokenAreWhole'
    BY <1>8, <1>9, <1>18, <1>19 DEF UnbrokenAreWhole
<1> QED BY <1>12, <1>13, <1>14, <1>15, <1>16, <1>17, <1>20 DEF AutoInv

(* The tag goes to the bot that the enable created, which makes its leg.    *)
LEMMA TagLegKeeps ==
    ASSUME AutoInv, NEW c \in Requests, TagLeg(c)
    PROVE  AutoInv'
<1>1. c \in Enabling /\ job[c].pc = "tag" /\ job[c] \in Job /\ job \in [Requests -> Job]
    BY DEF TagLeg, Enabling, AutoInv, AutoTypeOK
<1>2. CASE ~Exists(job[c].bot)
  <2>1. job' = [job EXCEPT ![c] = NoJob] /\ broken' = broken \cup {job[c].portfolio}
        /\ UNCHANGED <<active, bot, asked, mixed, off>>
      BY <1>2 DEF TagLeg
  <2>2. broken' \in SUBSET Nat /\ broken \subseteq broken' /\ job[c].portfolio \in broken'
      BY <1>1, <2>1 DEF AutoInv, AutoTypeOK, Job
  <2> QED BY <2>1, <2>2, AtRest, JobsOnly
<1>3. CASE Exists(job[c].bot)
  <2>1. PICK n \in 1 .. Len(asked) : n = job[c].portfolio
      BY <1>1, AtWork
  <2>2. PICK b \in Bots : b = job[c].bot
      BY <1>1 DEF Job
  <2>3. /\ bot[b].from = n /\ bot[b].leg = job[c].leg /\ Exists(b)
        /\ bot[b] \in BotRow /\ n \in Nat \ {0}
      BY <1>1, <1>3, <2>1, <2>2, AtWork DEF AutoInv, InsertedIsTheirs, AutoTypeOK
  <2> DEFINE tagged == [bot[b] EXCEPT !.tag = n, !.status = "RUNNING"]
             new == NextLeg(job[c])
  <2>4. /\ tagged \in BotRow /\ tagged.from = n /\ tagged.tag = n /\ tagged.leg = bot[b].leg
        /\ tagged.status # "none"
      BY <2>3 DEF BotRow
  <2>5. /\ bot' = [bot EXCEPT ![b] = tagged] /\ job' = [job EXCEPT ![c] = new]
        /\ UNCHANGED <<active, asked, mixed, broken, off>>
      BY <1>3, <2>1, <2>2, <2>3 DEF TagLeg, AutoInv, AutoTypeOK
  <2>6. /\ job[c].leg \in 1 .. Len(Legs(n)) /\ Len(Legs(n)) \in Nat /\ ~job[c].alone
        /\ job[c].portfolio = n
      BY <1>1, <2>1, AtWork
  <2>7. \/ /\ new = NoJob /\ job[c].leg = Len(Legs(n))
        \/ /\ new \in Job /\ new.pc = "leg" /\ new.portfolio = n /\ ~new.alone
           /\ new.leg = job[c].leg + 1 /\ new.leg \in 1 .. Len(Legs(n))
    <3>1. CASE job[c].leg < Len(Legs(n))
      <4>1. new = [job[c] EXCEPT !.pc = "leg", !.leg = job[c].leg + 1, !.bot = NoBot]
          BY <2>6, <3>1 DEF NextLeg
      <4>2. job[c].leg + 1 \in 1 .. Len(Legs(n))
          BY <2>6, <3>1
      <4>3. job[c].leg + 1 \in Nat
          BY <2>6
      <4>4. /\ new \in Job /\ new.pc = "leg" /\ new.portfolio = job[c].portfolio
            /\ new.alone = job[c].alone /\ new.leg = job[c].leg + 1
          BY <1>1, <4>1, <4>3 DEF Job, Pcs
      <4> QED BY <2>6, <4>2, <4>4
    <3>2. CASE ~(job[c].leg < Len(Legs(n)))
        BY <2>6, <3>2 DEF NextLeg
    <3> QED BY <3>1, <3>2
  <2> HIDE DEF tagged, new
  <2>8. new \in Job /\ ~new.alone /\ new.pc \in {"idle", "leg"}
      BY <2>7, AtRest
  <2>9. /\ job' \in [Requests -> Job]
        /\ \A d \in Requests : job'[d] = IF d = c THEN new ELSE job[d]
      BY <2>5, <2>8, OneJob DEF AutoInv
  <2>10. /\ bot' \in [Bots -> BotRow]
         /\ \A d \in Bots : bot'[d] = IF d = b THEN tagged ELSE bot[d]
      BY <2>4, <2>5, OneBot DEF AutoInv
  <2>11. AutoTypeOK'
      BY <2>5, <2>9, <2>10 DEF AutoInv, AutoTypeOK
  <2>12. /\ Enabling' \subseteq Enabling
         /\ \A d \in Enabling \ {c} : d \in Enabling' /\ job'[d] = job[d]
         /\ c \in Enabling' <=> new.pc = "leg"
         /\ c \in Enabling' => job'[c] = new /\ new.portfolio = n
      BY <1>1, <2>7, <2>9, AtRest DEF Enabling
  <2>13. /\ Managed' = Managed \cup {b}
         /\ \A d \in Managed' : d # b => d \in Managed /\ bot'[d] = bot[d]
      BY <2>3, <2>4, <2>10 DEF Managed
  <2>14. EnablesHaveTheirOwn'
    <3>1. \A d \in Enabling' : d \in Enabling /\ job'[d].portfolio = job[d].portfolio
        BY <2>6, <2>12
    <3>2. \A d \in Enabling' : Len(Legs(job[d].portfolio))' = Len(Legs(job[d].portfolio))
        BY <2>5, <3>1 DEF Legs
    <3>3. \A d \in Enabling' : job'[d].pc \in {"leg", "insert", "tag"} =>
              job'[d].leg \in 1 .. Len(Legs(job[d].portfolio))
        BY <2>6, <2>7, <2>12, <3>1, AtRest, AtWork
    <3> QED BY <2>5, <3>1, <3>2, <3>3, AtWork DEF EnablesHaveTheirOwn
  <2>15. BotsAreOfTheirPortfolio'
      BY <2>3, <2>4, <2>5, <2>10 DEF AutoInv, BotsAreOfTheirPortfolio, Exists
  <2>16. \A d \in Managed : bot[d].tag = n \/ {bot[d].tag, n} \subseteq mixed
      BY <1>1, <2>1 DEF AutoInv, OldOnesGo
  <2>17. OnePortfolio'
      BY <2>4, <2>5, <2>10, <2>13, <2>16 DEF AutoInv, OnePortfolio
  <2>18. OffMeansOff' /\ AloneIsAlone'
      BY <1>1, <2>5, <2>8, <2>9, AtWork DEF OffMeansOff, AloneIsAlone
  <2>19. InsertedIsTheirs'
    <3> SUFFICES ASSUME NEW d \in Requests, job'[d].pc = "tag", bot'[job'[d].bot].status # "none"
                 PROVE  /\ bot'[job'[d].bot].from = job'[d].portfolio
                        /\ bot'[job'[d].bot].leg = job'[d].leg
        BY DEF InsertedIsTheirs, Exists
    <3>1. job'[d] = job[d] /\ job[d].bot \in Bots
        BY <2>8, <2>9 DEF AutoInv, AutoTypeOK, Job
    <3>2. PICK e \in Bots : e = job[d].bot
        BY <3>1
    <3>3. Exists(e) => bot[e].from = job[d].portfolio /\ bot[e].leg = job[d].leg
        BY <3>1, <3>2 DEF AutoInv, InsertedIsTheirs
    <3> QED BY <2>3, <2>4, <2>10, <3>1, <3>2, <3>3 DEF Exists
  <2>20. OldOnesGo'
    <3> SUFFICES ASSUME NEW d \in Requests, NEW e \in Managed',
                        job'[d].pc \in {"delete", "leg", "insert", "tag"}
                 PROVE  /\ job'[d].pc = "delete" =>
                               e \in job'[d].managed \/ bot'[e].tag = job'[d].portfolio
                               \/ {bot'[e].tag, job'[d].portfolio} \subseteq mixed'
                        /\ job'[d].pc \in {"leg", "insert", "tag"} =>
                               bot'[e].tag = job'[d].portfolio
                               \/ {bot'[e].tag, job'[d].portfolio} \subseteq mixed'
        BY DEF OldOnesGo
    <3>1. d \in Enabling'
        BY DEF Enabling
    <3>2. CASE d = c
      <4>1. job'[d].portfolio = n /\ job'[d].pc = "leg"
          BY <2>12, <3>1, <3>2
      <4> QED BY <2>4, <2>5, <2>10, <2>13, <2>16, <4>1
    <3>3. CASE d # c
      <4>1. d \in Enabling \ {c} /\ job'[d] = job[d] /\ {n, job[d].portfolio} \subseteq mixed
          BY <1>1, <2>1, <2>12, <3>1, <3>3, AtWork
      <4>2. CASE e = b
          BY <2>4, <2>5, <2>10, <4>1, <4>2
      <4>3. CASE e # b
          BY <2>5, <2>13, <4>1, <4>3 DEF AutoInv, OldOnesGo
      <4> QED BY <4>2, <4>3
    <3> QED BY <3>2, <3>3
  <2>21. ASSUME NEW m \in 1 .. Len(asked), m \notin broken PROVE WholeSoFar(m)'
    <3>1. Born(m)' = Born(m) /\ \A d \in Born(m) : bot'[d].leg = bot[d].leg
        BY <2>3, <2>4, <2>10 DEF Born
    <3>2. WholeSoFar(m)
        BY <2>21 DEF AutoInv, UnbrokenAreWhole
    <3>3. CASE m # n
      <4>1. \A d \in Born(m) : bot'[d] = bot[d]
          BY <2>3, <2>10, <3>3 DEF Born
      <4>2. \A d \in Enabling' : job'[d].portfolio = m => d # c /\ d \in Enabling /\ job'[d] = job[d]
          BY <2>12, <3>3
      <4>3. ASSUME NEW d \in Enabling', job'[d].portfolio = m PROVE SoFar(m, job[d])'
        <5>1. PICK j : j = job[d]
            OBVIOUS
        <5>2. SoFar(m, j)
            BY <3>2, <4>2, <4>3, <5>1 DEF WholeSoFar
        <5>3. SoFar(m, j)'
            BY <3>1, <4>1, <5>2 DEF SoFar, OnePerLeg, Inserted
        <5> QED BY <4>2, <4>3, <5>1, <5>3 DEF SoFar, OnePerLeg, Inserted
      <4>4. ASSUME \A d \in Enabling' : job'[d].portfolio # m PROVE AllThere(m)'
        <5>1. \A d \in Enabling : job[d].portfolio # m
            BY <2>1, <2>12, <3>3, <4>4
        <5>2. AllThere(m)
            BY <3>2, <5>1 DEF WholeSoFar
        <5> QED BY <2>5, <3>1, <4>1, <5>2 DEF AllThere, OnePerLeg, Legs
      <4> QED BY <4>3, <4>4 DEF WholeSoFar
    <3>4. CASE m = n
      <4>1. SoFar(n, job[c])
          BY <1>1, <2>6, <3>2, <3>4 DEF WholeSoFar
      <4>2. PICK k \in Nat : k = job[c].leg
          BY <2>6
      <4>3. OnePerLeg(n, k) /\ \A d \in Born(n) : bot[d].tag = n \/ d = b
          BY <1>1, <2>2, <4>1, <4>2 DEF SoFar, Inserted
      <4>4. OnePerLeg(n, k)' /\ \A d \in Born(n)' : bot'[d].tag = n
        <5>1. Born(n)' = Born(n) /\ \A d \in Born(n) : bot'[d].leg = bot[d].leg /\ d \in Bots
            BY <3>1, <3>4 DEF Born
        <5>2. OnePerLeg(n, k)'
            BY <4>3, <5>1 DEF OnePerLeg
        <5>3. \A d \in Born(n) : bot'[d].tag = n
            BY <2>4, <2>10, <4>3, <5>1
        <5> QED BY <5>1, <5>2, <5>3
      <4>5. \A d \in Enabling' : job'[d].portfolio = n => d = c
          BY <1>1, <2>1, <2>12, AtWork
      <4>6. CASE new = NoJob
        <5>1. Len(Legs(n))' = k
            BY <2>5, <2>7, <4>2, <4>6, AtRest DEF Legs
        <5>2. AllThere(n)'
            BY <4>4, <5>1 DEF AllThere, OnePerLeg
        <5>3. \A d \in Enabling' : job'[d].portfolio # n
            BY <2>12, <4>5, <4>6, AtRest
        <5> QED BY <3>4, <5>2, <5>3 DEF WholeSoFar
      <4>7. CASE new # NoJob
        <5>1. new.pc = "leg" /\ new.leg = k + 1 /\ new.portfolio = n /\ job'[c] = new
            BY <2>7, <2>9, <4>2, <4>7
        <5>2. Inserted(job[c])' = k
            BY <4>2, <5>1 DEF Inserted
        <5>3. OnePerLeg(n, Inserted(job[c]))'
            BY <4>4, <5>2 DEF OnePerLeg
        <5>4. SoFar(n, job[c])'
            BY <4>4, <5>1, <5>3 DEF SoFar
        <5>5. c \in Enabling' /\ job'[c].portfolio = n
            BY <2>12, <5>1
        <5> QED BY <3>4, <4>5, <5>4, <5>5 DEF WholeSoFar
      <4> QED BY <4>6, <4>7
    <3> QED BY <3>3, <3>4
  <2>22. UnbrokenAreWhole'
      BY <2>5, <2>21 DEF UnbrokenAreWhole
  <2> QED BY <2>11, <2>14, <2>15, <2>17, <2>18, <2>19, <2>20, <2>22 DEF AutoInv
<1> QED BY <1>2, <1>3

-----------------------------------------------------------------------------
LEMMA AutoStep == AutoInv /\ [AutoNext]_portfolios => AutoInv'
<1> SUFFICES ASSUME AutoInv, [AutoNext]_portfolios PROVE AutoInv'
    OBVIOUS
<1>1. CASE UNCHANGED portfolios
    BY <1>1, NothingMoves DEF portfolios, AutoInv, AutoTypeOK
<1>2. ASSUME NEW c \in Requests, AutoCall(c) PROVE AutoInv'
    BY <1>2, EnableCheckKeeps, FindManagedKeeps, DeleteManagedKeeps, CheckLegKeeps, TagLegKeeps,
       DisableReadKeeps, StopManagedKeeps, EditWriteKeeps, RemoveWriteKeeps, JobFailsKeeps,
       InsertLegKeeps, EditReadKeeps, RemoveReadKeeps
    DEF AutoCall
<1>3. CASE AccountChanges
    BY <1>3, NothingMoves DEF AccountChanges, AutoInv, AutoTypeOK
<1> QED
    BY <1>1, <1>2, <1>3, SetStatusKeeps, RunnerRunsKeeps, OrderClosesKeeps, AutoRestartKeeps DEF AutoNext

LEMMA AutoInvariance == AutoSpec => []AutoInv
BY AutoStart, AutoStep, PTL DEF AutoSpec

(* One portfolio at a time, unless two enables crossed (enable).            *)
THEOREM OnePortfolioAtATime == AutoSpec => []OnePortfolio
<1>1. AutoInv => OnePortfolio
    BY DEF AutoInv
<1> QED BY <1>1, AutoInvariance, PTL

(* Off stays off until the user starts a bot (disable).                     *)
THEOREM OffStaysOff == AutoSpec => []OffMeansOff
<1>1. AutoInv => OffMeansOff
    BY DEF AutoInv
<1> QED BY <1>1, AutoInvariance, PTL

(* One bot for each leg is as many bots as legs.                            *)
LEMMA AsManyAsLegs ==
    ASSUME NEW S \in SUBSET Bots, NEW k \in Nat, NEW leg,
           {leg[b] : b \in S} = 1 .. k, \A b, d \in S : leg[b] = leg[d] => b = d
    PROVE  Cardinality(S) = k
<1> DEFINE f == [b \in S |-> leg[b]]
<1>1. f \in Bijection(S, 1 .. k)
    BY DEF Bijection, Injection, Surjection, IsInjective
<1>2. IsFiniteSet(S)
    BY AutoInvestAssumption, FS_Subset
<1>3. Cardinality(1 .. k) = k
  <2>1. Cardinality(1 .. k) = IF 1 > k THEN 0 ELSE k - 1 + 1
      BY FS_Interval
  <2> QED BY <2>1
<1> HIDE DEF f
<1>4. ExistsBijection(S, 1 .. k)
    BY <1>1 DEF ExistsBijection
<1> QED BY <1>2, <1>3, <1>4, FS_Bijection

(* What is short of a leg, or has one twice, lost one (enable).             *)
THEOREM PortfoliosStayWhole == AutoSpec => []PortfoliosAreWhole
<1>1. AutoInv => PortfoliosAreWhole
  <2> SUFFICES ASSUME AutoInv, NEW n \in 1 .. Len(asked), n \notin broken,
                      \A c \in Enabling : job[c].portfolio # n
               PROVE  /\ {bot[b].leg : b \in Portfolio(n)} = 1 .. Len(Legs(n))
                      /\ Cardinality(Portfolio(n)) = Len(Legs(n))
      BY DEF PortfoliosAreWhole
  <2>1. AllThere(n)
      BY DEF AutoInv, UnbrokenAreWhole, WholeSoFar
  <2>2. Portfolio(n) = Born(n)
      BY <2>1 DEF AllThere, Portfolio, Born, AutoInv, BotsAreOfTheirPortfolio
  <2>3. PICK k \in Nat : k = Len(Legs(n))
      BY LegsOf DEF AutoInv
  <2> DEFINE leg == [b \in Bots |-> bot[b].leg]
  <2>4. /\ Born(n) \in SUBSET Bots /\ {leg[b] : b \in Born(n)} = 1 .. k
        /\ \A b, d \in Born(n) : leg[b] = leg[d] => b = d
      BY <2>1, <2>3 DEF AllThere, OnePerLeg, Born
  <2> HIDE DEF leg
  <2>5. Cardinality(Born(n)) = k
      BY <2>4, AsManyAsLegs
  <2> QED BY <2>1, <2>2, <2>3, <2>5 DEF AllThere, OnePerLeg
<1> QED BY <1>1, AutoInvariance, PTL


-----------------------------------------------------------------------------
(* The subscription contract.                                              *)

(* One more frame on the stack.                                             *)
LEMMA Pushed ==
    ASSUME TypeOK, NEW f \in Frame
    PROVE  /\ Append(frames, f) \in Seq(Frame)
           /\ Len(Append(frames, f)) = Depth + 1
           /\ Append(frames, f)[Depth + 1] = f
           /\ \A i \in 1 .. Depth : Append(frames, f)[i] = frames[i]
BY DEF TypeOK, Depth

(* The depth, and the frame on top.                                         *)
LEMMA OnTop ==
    ASSUME TypeOK
    PROVE  /\ Depth \in Nat /\ Depth <= MaxDepth
           /\ \A i \in 1 .. Depth : frames[i] \in Frame
           /\ Depth > 0 => Top \in Frame
BY DEF TypeOK, Depth, Top

(* One frame less.                                                          *)
LEMMA Popped ==
    ASSUME TypeOK, Depth > 0
    PROVE  /\ Pop \in Seq(Frame)
           /\ Len(Pop) = Depth - 1
           /\ \A i \in 1 .. Depth - 1 : Pop[i] = frames[i]
<1>1. Depth \in Nat /\ \A i \in 1 .. Depth - 1 : frames[i] \in Frame
    BY OnTop
<1> HIDE DEF Depth
<1>2. /\ SubSeq(frames, 1, Depth - 1) \in Seq(Frame)
      /\ Len(SubSeq(frames, 1, Depth - 1)) = IF 1 <= Depth - 1 THEN (Depth - 1) - 1 + 1 ELSE 0
      /\ \A i \in 1 .. (Depth - 1) - 1 + 1 :
             SubSeq(frames, 1, Depth - 1)[i] = frames[1 + i - 1]
    BY <1>1, SubSeqProperties
<1> QED BY <1>1, <1>2 DEF Pop

(* A batch that has one user less to try.                                   *)
LEMMA OneUserLess ==
    ASSUME TypeOK, Depth > 0, NEW user \in Addresses
    PROVE  /\ Rest(user) \in Seq(Frame)
           /\ Len(Rest(user)) = Depth
           /\ \A i \in 1 .. Depth - 1 : Rest(user)[i] = frames[i]
           /\ Rest(user)[Depth] = [Top EXCEPT !.users = @ \ {user}]
<1>1. [Top EXCEPT !.users = @ \ {user}] \in Frame
    BY OnTop DEF Frame
<1>2. frames \in Seq(Frame) /\ Depth \in 1 .. Len(frames)
    BY OnTop DEF TypeOK, Depth
<1>3. /\ Rest(user) \in Seq(Frame)
      /\ Len(Rest(user)) = Len(frames)
      /\ \A j \in 1 .. Len(frames) :
             Rest(user)[j] = IF j = Depth THEN [Top EXCEPT !.users = @ \ {user}] ELSE frames[j]
    BY <1>1, <1>2, ExceptSeq DEF Rest
<1>4. Depth \in Nat /\ Len(frames) = Depth
    BY OnTop DEF Depth
<1> QED BY <1>2, <1>3, <1>4

(* The frame that a call puts on the stack.                                 *)
LEMMA NewFrames ==
    ASSUME TypeOK, NEW sender \in Addresses, NEW user \in Addresses, NEW amount \in Nat,
           NEW users \in SUBSET Addresses
    PROVE  /\ Transfer(sender, user, amount) =
                  [Blank EXCEPT !.sender = sender, !.user = user, !.amount = amount,
                                !.to = store.treasury]
           /\ Transfer(sender, user, amount) \in Frame
           /\ [Blank EXCEPT !.kind = "batch", !.sender = sender, !.users = users,
                            !.amount = amount] \in Frame
<1>1. Blank \in Frame
    BY DeployedByAnAccount DEF Blank, Frame, Snapshot, TypeOK
<1>2. store.treasury \in Addresses
    BY DEF TypeOK, Storage
<1> QED BY <1>1, <1>2 DEF Transfer, Frame

(* Whether a storage is sound depends on the frames below it only.          *)
LEMMA SameBelow ==
    ASSUME NEW fs, NEW gs, NEW s, NEW c, NEW d \in Int, NEW time,
           \A i \in 1 .. d : gs[i] = fs[i],
           Sound(fs, s, c, d, time)
    PROVE  Sound(gs, s, c, d, time)
<1>1. \A i \in 1 .. d : \A j \in 1 .. i - 1 : j \in 1 .. d
    OBVIOUS
<1> QED BY <1>1 DEF Sound, TransfersBelow

(* The accounts' settings, subscriptions and wallets may change as long as  *)
(* no charge is forgotten and no treasury is.                               *)
LEMMA OtherCalls ==
    ASSUME ContractInv, Outside,
           store' \in Storage, balance' \in [Addresses -> Nat], allowance' \in [Addresses -> Nat],
           settings' \in Nat,
           store.treasuries \subseteq store'.treasuries,
           store'.treasury \in store'.treasuries,
           \A a \in Addresses : store'.sub[a].lastChargedAt = store.sub[a].lastChargedAt,
           UNCHANGED <<now, frames, charged>>
    PROVE  ContractInv'
<1>0. Depth' = Depth /\ Depth \in Nat
    BY OnTop DEF ContractInv, Depth
<1>1. TypeOK'
    BY DEF ContractInv, TypeOK
<1>2. EventsBelow(store', charged)
    BY DEF ContractInv, Sound, EventsBelow, TypeOK, Receipt
<1>3. TransfersBelow(frames, store', charged, Depth, now)
  <2>1. \A i \in 1 .. Depth : frames[i] \in Frame
      BY OnTop DEF ContractInv
  <2>2. Depth > 0 => frames[Depth].kind = "charge"
      BY DEF Outside, Top
  <2> QED BY <1>0, <2>1, <2>2 DEF ContractInv, Sound, TransfersBelow, Frame
<1> QED BY <1>0, <1>1, <1>2, <1>3 DEF ContractInv, Sound

(* charge: what it puts back is what there was, and the storage that is     *)
(* written is sound above one more frame.                                   *)
LEMMA ChargeStep ==
    ASSUME ContractInv, NEW sender \in Callers, NEW user \in Addresses, NEW amount \in Amounts,
           Charge(sender, user, amount)
    PROVE  ContractInv'
<1> DEFINE f == Transfer(sender, user, amount)
<1>0. TypeOK /\ Sound(frames, store, charged, Depth, now) /\ now # 0
    BY DEF ContractInv
<1>1. /\ f \in Frame /\ f.kind = "charge" /\ f.user = user /\ f.amount = amount
      /\ f.to = store.treasury /\ f.sender = sender
      /\ f.before.store = store /\ f.before.charged = charged
  <2>1. amount \in Nat /\ sender \in Addresses /\ sender # Contract
      BY LimitsAreNaturals DEF Callers
  <2>2. store.treasury \in Addresses
      BY <1>0 DEF TypeOK, Storage
  <2>3. f \in Frame
      BY <1>0, <2>1, NewFrames
  <2> QED BY <2>1, <2>2, <2>3 DEF Transfer, Blank
<1>2. /\ amount <= MaxChargeAmount
      /\ store.sub[user].lastChargedAt = 0 \/ now >= store.sub[user].lastChargedAt + Period
      /\ store' = Written(user) /\ frames' = Append(frames, f)
      /\ UNCHANGED <<token, now, charged, settings>> /\ Depth < MaxDepth
      /\ sender # Contract
    BY DEF Charge, MayCharge, Accepts, Due, Push, Callers
<1> HIDE DEF f
<1>3. /\ Depth \in Nat /\ frames' \in Seq(Frame) /\ Depth' = Depth + 1 /\ frames'[Depth + 1] = f
      /\ \A i \in 1 .. Depth : frames'[i] = frames[i]
  <2>1. Depth' = Len(frames')
      BY DEF Depth
  <2> QED BY <1>0, <1>1, <1>2, <2>1, Pushed, OnTop
<1>4. /\ Written(user) \in Storage
      /\ Written(user).sub[user].lastChargedAt = now
      /\ \A a \in Addresses \ {user} : Written(user).sub[a] = store.sub[a]
      /\ Written(user).treasury = store.treasury /\ Written(user).treasuries = store.treasuries
      /\ Written(user).charger = store.charger
  <2>1. /\ store \in Storage /\ store.sub \in [Addresses -> Subscription]
        /\ store.sub[user] \in Subscription /\ now \in Times
      BY <1>0 DEF TypeOK, Storage
  <2> DEFINE charge == [store.sub[user] EXCEPT !.lastChargedAt = now, !.chargeCount = @ + 1]
             subs == [store.sub EXCEPT ![user] = charge]
  <2>2. charge \in Subscription /\ charge.lastChargedAt = now
    <3> DEFINE old == store.sub[user]
    <3>1. /\ old \in Subscription /\ old.chargeCount \in Nat /\ old.startedAt \in Times
          /\ old.active \in BOOLEAN
        BY <2>1 DEF Subscription
    <3> DEFINE count == old.chargeCount + 1
    <3>2. count \in Nat
        BY <3>1
    <3>3. charge = [old EXCEPT !.lastChargedAt = now, !.chargeCount = count]
        BY <3>1 DEF Subscription
    <3> HIDE DEF count
    <3>4. [old EXCEPT !.lastChargedAt = now, !.chargeCount = count] \in Subscription
        BY <2>1, <3>1, <3>2 DEF Subscription
    <3>5. [old EXCEPT !.lastChargedAt = now, !.chargeCount = count].lastChargedAt = now
        BY <3>1 DEF Subscription
    <3> QED BY <3>3, <3>4, <3>5
  <2>3. Written(user) = [store EXCEPT !.sub = subs]
      BY <2>1 DEF Written, Storage, Subscription
  <2> HIDE DEF charge
  <2>4. /\ subs \in [Addresses -> Subscription] /\ subs[user] = charge
        /\ \A a \in Addresses \ {user} : subs[a] = store.sub[a]
      BY <2>1, <2>2
  <2> HIDE DEF subs
  <2> QED BY <2>1, <2>2, <2>3, <2>4 DEF Storage
<1>5. TypeOK'
  <2>1. frames' \in Seq(Frame) /\ Len(frames') <= MaxDepth
      BY <1>2, <1>3, LimitsAreNaturals DEF Depth
  <2> QED BY <1>0, <1>2, <1>4, <2>1 DEF TypeOK, token
<1>6. /\ \A a \in Addresses : store.sub[a].lastChargedAt \in Nat
      /\ \A a \in Addresses : store.sub[a].lastChargedAt <= now
      /\ now \in Nat /\ Period \in Nat
      /\ \A r \in charged : r.user \in Addresses /\ r.at \in Nat
  <2>1. /\ store.sub \in [Addresses -> Subscription] /\ now \in Nat /\ charged \subseteq Receipt
        /\ Times \subseteq Nat /\ Period \in Nat
      BY <1>0, LimitsAreNaturals DEF TypeOK, Storage, Times
  <2>2. \A a \in Addresses : store.sub[a].lastChargedAt \in Nat
      BY <2>1 DEF Subscription
  <2>3. \A r \in charged : r.user \in Addresses /\ r.at \in Nat
      BY <2>1 DEF Receipt
  <2> QED BY <1>0, <2>1, <2>2, <2>3 DEF Sound
<1>7. EventsBelow(Written(user), charged)
    BY <1>0, <1>4, <1>6 DEF Sound, EventsBelow
<1>8. TransfersBelow(frames', Written(user), charged, Depth + 1, now)
  <2>1. \A r \in charged : r.user = user => r.at + Period <= now
    <3> SUFFICES ASSUME NEW r \in charged, r.user = user PROVE r.at + Period <= now
        OBVIOUS
    <3>1. /\ r.at <= store.sub[user].lastChargedAt /\ store.sub[user].lastChargedAt # 0
        BY <1>0 DEF Sound, EventsBelow
    <3> QED BY <1>2, <1>6, <3>1
  <2>2. \A j \in 1 .. Depth : frames[j].kind = "charge" /\ frames[j].user = user => Period = 0
      BY <1>0, <1>2, <1>6 DEF Sound, TransfersBelow
  <2>3. \A i \in 1 .. Depth : frames[i].kind # "batch"
      BY <1>0, <1>3 DEF Sound, TransfersBelow, Charge, Outside, Top
  <2>4. \A i \in 1 .. Depth : frames[i].kind = "charge"
      BY <1>0, <2>3, OnTop DEF Frame
  <2>5. \A i \in 1 .. Depth : frames[i].user \in Addresses
      BY <1>0, OnTop DEF Frame
  <2> DEFINE w == Written(user)
  <2>6. /\ w.treasury = store.treasury /\ w.treasuries = store.treasuries
        /\ store.treasury \in store.treasuries /\ w.sub[user].lastChargedAt = now
      BY <1>0, <1>4 DEF Sound, TransfersBelow
  <2>7. ASSUME NEW i \in 1 .. Depth
        PROVE  /\ frames'[i] = frames[i] /\ frames[i].kind = "charge"
               /\ w.sub[frames[i].user].lastChargedAt = now
      BY <1>0, <1>3, <1>4, <2>4, <2>5 DEF Sound, TransfersBelow
  <2>8. \A i \in 1 .. Depth + 1 : frames'[i].kind = "charge"
      BY <1>1, <1>3, <2>7
  <2>9. ASSUME NEW i \in 1 .. Depth + 1
        PROVE  LET g == frames'[i] IN
               /\ g.amount <= MaxChargeAmount
               /\ g.to \in w.treasuries
               /\ g.sender # Contract
               /\ w.sub[g.user].lastChargedAt = now
               /\ \A r \in charged : r.user = g.user => r.at + Period <= now
               /\ \A j \in 1 .. i - 1 :
                      frames'[j].kind = "charge" /\ frames'[j].user = g.user => Period = 0
    <3>1. CASE i = Depth + 1
      <4>1. \A j \in 1 .. i - 1 : j \in 1 .. Depth /\ frames'[j] = frames[j]
          BY <1>3, <3>1
      <4> QED BY <1>1, <1>2, <1>3, <2>1, <2>2, <2>6, <3>1, <4>1
    <3>2. CASE i \in 1 .. Depth
      <4>1. \A j \in 1 .. i - 1 : j \in 1 .. Depth /\ frames'[j] = frames[j]
          BY <1>3, <3>2
      <4>2. /\ frames[i].amount <= MaxChargeAmount /\ frames[i].to \in store.treasuries
            /\ frames[i].sender # Contract
            /\ \A r \in charged : r.user = frames[i].user => r.at + Period <= now
            /\ \A j \in 1 .. i - 1 :
                   frames[j].kind = "charge" /\ frames[j].user = frames[i].user => Period = 0
          BY <1>0, <2>7, <3>2 DEF Sound, TransfersBelow
      <4> QED BY <2>6, <2>7, <3>2, <4>1, <4>2
    <3> QED BY <1>3, <3>1, <3>2
  <2> HIDE DEF w
  <2> QED BY <2>6, <2>8, <2>9 DEF TransfersBelow, w
<1>9. Sound(frames', store', charged', Depth', now')
    BY <1>2, <1>3, <1>4, <1>6, <1>7, <1>8 DEF Sound
<1>10. \A i \in 1 .. Depth' :
           Sound(frames', frames'[i].before.store, frames'[i].before.charged, i - 1, now')
  <2> SUFFICES ASSUME NEW i \in 1 .. Depth'
               PROVE Sound(frames', frames'[i].before.store, frames'[i].before.charged, i - 1, now')
      OBVIOUS
  <2>1. i - 1 \in Int /\ \A j \in 1 .. i - 1 : frames'[j] = frames[j]
      BY <1>3
  <2>2. CASE i = Depth + 1
    <3>1. i - 1 = Depth
        BY <1>3, <2>2
    <3> QED BY <1>0, <1>1, <1>2, <1>3, <2>1, <2>2, <3>1, SameBelow
  <2>3. CASE i \in 1 .. Depth
      BY <1>2, <1>3, <2>1, <2>3, SameBelow DEF ContractInv
  <2> QED BY <1>3, <2>2, <2>3
<1> QED BY <1>2, <1>0, <1>5, <1>9, <1>10 DEF ContractInv

(* The transfer: its event joins those of the storage.                      *)
LEMMA TransferStep ==
    ASSUME ContractInv, Transferred
    PROVE  ContractInv'
<1> DEFINE f == Top
           e == [user |-> f.user, amount |-> f.amount, count |-> store.sub[f.user].chargeCount,
                 to |-> f.to, at |-> now, sender |-> f.sender]
<1>0. /\ TypeOK /\ Sound(frames, store, charged, Depth, now) /\ now # 0
      /\ Depth \in Nat /\ Depth > 0 /\ f \in Frame /\ f = frames[Depth] /\ f.kind = "charge"
    BY OnTop DEF ContractInv, Transferred, Top
<1>1. /\ frames' = Pop /\ charged' = charged \cup {e} /\ UNCHANGED <<store, now, settings>>
      /\ allowance' = [allowance EXCEPT ![f.user] = @ - f.amount] /\ allowance[f.user] >= f.amount
      /\ balance' = [balance EXCEPT ![f.user] = @ - f.amount] /\ balance[f.user] >= f.amount
    BY DEF Transferred
<1>2. f.user \in Addresses /\ f.amount \in Nat /\ f.to \in Addresses /\ f.sender \in Addresses
    BY <1>0 DEF Frame
<1> HIDE DEF f
<1>3. /\ e \in Receipt /\ e.user = f.user /\ e.amount = f.amount /\ e.to = f.to /\ e.at = now
      /\ e.sender = f.sender
    BY <1>0, <1>2 DEF Receipt, TypeOK, Storage, Subscription
<1> HIDE DEF e
<1>4. /\ frames' \in Seq(Frame) /\ Depth' = Depth - 1 /\ Depth' \in Nat
      /\ \A i \in 1 .. Depth - 1 : frames'[i] = frames[i]
    BY <1>0, <1>1, Popped DEF Depth
<1>5. TypeOK'
  <2>1. Len(frames') <= MaxDepth
      BY <1>0, <1>4, OnTop, LimitsAreNaturals DEF Depth
  <2>2. allowance' \in [Addresses -> Nat] /\ balance' \in [Addresses -> Nat]
      BY <1>0, <1>1, <1>2 DEF TypeOK
  <2> QED BY <1>0, <1>1, <1>3, <1>4, <2>1, <2>2 DEF TypeOK
<1>6. /\ f.amount <= MaxChargeAmount /\ f.to \in store.treasuries /\ f.sender # Contract
      /\ store.sub[f.user].lastChargedAt = now
      /\ \A r \in charged : r.user = f.user => r.at + Period <= now
      /\ \A j \in 1 .. Depth - 1 :
             frames[j].kind = "charge" /\ frames[j].user = f.user => Period = 0
    BY <1>0 DEF Sound, TransfersBelow
<1>7. EventsBelow(store, charged')
  <2>1. \A r \in charged : r.user \in Addresses /\ r.at \in Nat
      BY <1>0 DEF TypeOK, Receipt, Times
  <2>2. now \in Nat /\ Period \in Nat
      BY <1>0, LimitsAreNaturals DEF TypeOK, Times
  <2>3. EventsBelow(store, charged)
      BY <1>0 DEF Sound
  <2> QED BY <1>0, <1>1, <1>3, <1>6, <2>1, <2>2, <2>3 DEF EventsBelow
<1>8. TransfersBelow(frames', store, charged', Depth - 1, now)
  <2>1. store.treasury \in store.treasuries
      BY <1>0 DEF Sound, TransfersBelow
  <2>2. ASSUME NEW i \in 1 .. Depth - 1
        PROVE  LET g == frames[i] IN
               /\ g.kind # "batch"
               /\ g.amount <= MaxChargeAmount
               /\ g.to \in store.treasuries
               /\ g.sender # Contract
               /\ store.sub[g.user].lastChargedAt = now
               /\ \A r \in charged : r.user = g.user => r.at + Period <= now
               /\ \A j \in 1 .. i - 1 :
                      frames[j].kind = "charge" /\ frames[j].user = g.user => Period = 0
    <3>1. i \in 1 .. Depth /\ i # Depth /\ frames[i] \in Frame
        BY <1>0, OnTop
    <3>2. frames[i].kind # "batch"
        BY <1>0, <3>1 DEF Sound, TransfersBelow
    <3>3. frames[i].kind = "charge"
        BY <3>1, <3>2 DEF Frame
    <3> QED BY <1>0, <3>1, <3>2, <3>3 DEF Sound, TransfersBelow
  <2>3. ASSUME NEW i \in 1 .. Depth - 1
        PROVE  frames[i].user = e.user => e.at + Period <= now
    <3>1. frames[i] \in Frame /\ i \in 1 .. Depth
        BY <1>0, OnTop
    <3>2. frames[i].kind = "charge"
        BY <2>2, <3>1 DEF Frame
    <3>3. now \in Nat
        BY <1>0 DEF TypeOK, Times
    <3> QED BY <1>3, <1>6, <3>2, <3>3
  <2>4. \A i \in 1 .. Depth - 1 : \A j \in 1 .. i - 1 : j \in 1 .. Depth - 1
      BY <1>0
  <2> QED BY <1>1, <1>4, <2>1, <2>2, <2>3, <2>4 DEF TransfersBelow
<1>9. Sound(frames', store', charged', Depth', now')
    BY <1>0, <1>1, <1>4, <1>7, <1>8 DEF Sound
<1>10. \A i \in 1 .. Depth' :
           Sound(frames', frames'[i].before.store, frames'[i].before.charged, i - 1, now')
  <2> SUFFICES ASSUME NEW i \in 1 .. Depth - 1
               PROVE Sound(frames', frames[i].before.store, frames[i].before.charged, i - 1, now)
      BY <1>1, <1>4
  <2>1. i - 1 \in Int /\ i \in 1 .. Depth /\ \A j \in 1 .. i - 1 : frames'[j] = frames[j]
      BY <1>0, <1>4
  <2> QED BY <2>1, SameBelow DEF ContractInv
<1> QED BY <1>0, <1>1, <1>5, <1>9, <1>10 DEF ContractInv

(* A transfer that fails: back to what its frame kept.                      *)
LEMMA FailureStep ==
    ASSUME ContractInv, TransferFails
    PROVE  ContractInv'
<1>0. TypeOK /\ Depth \in Nat /\ Depth > 0 /\ Top \in Frame /\ Top = frames[Depth] /\ now # 0
    BY OnTop DEF ContractInv, TransferFails, Top
<1>1. /\ store' = frames[Depth].before.store /\ charged' = frames[Depth].before.charged
      /\ balance' = frames[Depth].before.balance /\ allowance' = frames[Depth].before.allowance
      /\ frames' = Pop /\ UNCHANGED <<now, settings>>
    BY <1>0 DEF TransferFails
<1>2. /\ frames' \in Seq(Frame) /\ Depth' = Depth - 1 /\ Depth' \in Nat
      /\ \A i \in 1 .. Depth - 1 : frames'[i] = frames[i]
    BY <1>0, <1>1, Popped DEF Depth
<1>3. TypeOK'
  <2>1. Len(frames') <= MaxDepth
      BY <1>0, <1>2, OnTop, LimitsAreNaturals DEF Depth
  <2>2. frames[Depth].before \in Snapshot
      BY <1>0 DEF Frame
  <2> QED BY <1>0, <1>1, <1>2, <2>1, <2>2 DEF TypeOK, Snapshot
<1>4. \A i \in 1 .. Depth :
         Sound(frames, frames[i].before.store, frames[i].before.charged, i - 1, now)
    BY DEF ContractInv
<1>5. \A i \in 1 .. Depth :
         Sound(frames', frames[i].before.store, frames[i].before.charged, i - 1, now)
  <2> SUFFICES ASSUME NEW i \in 1 .. Depth
               PROVE Sound(frames', frames[i].before.store, frames[i].before.charged, i - 1, now)
      OBVIOUS
  <2>1. i - 1 \in Int /\ \A j \in 1 .. i - 1 : frames'[j] = frames[j]
      BY <1>0, <1>2
  <2> QED BY <1>4, <2>1, SameBelow
<1> QED BY <1>0, <1>1, <1>2, <1>3, <1>5 DEF ContractInv

(* A batch begins.                                                          *)
LEMMA BatchStep ==
    ASSUME ContractInv, NEW sender \in Callers, NEW users \in SUBSET Addresses,
           NEW amount \in Amounts, ChargeBatch(sender, users, amount)
    PROVE  ContractInv'
<1> DEFINE f == [Blank EXCEPT !.kind = "batch", !.sender = sender, !.users = users,
                              !.amount = amount]
<1>0. /\ TypeOK /\ Sound(frames, store, charged, Depth, now) /\ now # 0
      /\ sender \in Addresses /\ sender # Contract /\ amount \in Nat
    BY LimitsAreNaturals DEF ContractInv, Callers
<1>1. /\ f \in Frame /\ f.kind = "batch"
      /\ f.before.store = store /\ f.before.charged = charged
  <2>1. f \in Frame
      BY <1>0, NewFrames
  <2> QED BY <2>1 DEF Blank
<1>2. /\ frames' = Append(frames, f) /\ sender = store.charger /\ Depth < MaxDepth
      /\ UNCHANGED <<store, balance, allowance, now, charged, settings>>
    BY DEF ChargeBatch, Push, token
<1> HIDE DEF f
<1>3. /\ Depth \in Nat /\ frames' \in Seq(Frame) /\ Depth' = Depth + 1 /\ frames'[Depth + 1] = f
      /\ \A i \in 1 .. Depth : frames'[i] = frames[i]
  <2>1. Depth' = Len(frames')
      BY DEF Depth
  <2> QED BY <1>0, <1>1, <1>2, <2>1, Pushed, OnTop
<1>4. TypeOK'
  <2>1. Len(frames') <= MaxDepth
      BY <1>2, <1>3, LimitsAreNaturals DEF Depth
  <2> QED BY <1>0, <1>2, <1>3, <2>1 DEF TypeOK
<1>5. Sound(frames', store, charged, Depth, now)
    BY <1>0, <1>3, SameBelow
<1>6. \A i \in 1 .. Depth : frames'[i].kind # "batch"
    BY <1>0, <1>3 DEF Sound, TransfersBelow, ChargeBatch, Outside, Top
<1>7. Sound(frames', store, charged, Depth + 1, now)
  <2>1. \A i \in 1 .. Depth + 1 : i \in 1 .. Depth \/ i = Depth + 1
      BY <1>3
  <2> QED BY <1>0, <1>1, <1>2, <1>3, <1>5, <1>6, <2>1 DEF Sound, TransfersBelow
<1>8. \A i \in 1 .. Depth' :
           Sound(frames', frames'[i].before.store, frames'[i].before.charged, i - 1, now')
  <2> SUFFICES ASSUME NEW i \in 1 .. Depth'
               PROVE Sound(frames', frames'[i].before.store, frames'[i].before.charged, i - 1, now')
      OBVIOUS
  <2>1. i - 1 \in Int /\ \A j \in 1 .. i - 1 : frames'[j] = frames[j]
      BY <1>3
  <2>2. CASE i = Depth + 1
    <3>1. i - 1 = Depth
        BY <1>3, <2>2
    <3> QED BY <1>1, <1>2, <1>3, <1>5, <2>2, <3>1
  <2>3. CASE i \in 1 .. Depth
      BY <1>2, <1>3, <2>1, <2>3, SameBelow DEF ContractInv
  <2> QED BY <1>3, <2>2, <2>3
<1> QED BY <1>0, <1>2, <1>3, <1>4, <1>7, <1>8 DEF ContractInv

(* In a batch the charger is somebody else than the contract, so that each  *)
(* charge is refused.                                                       *)
LEMMA NoneInABatch ==
    ASSUME ContractInv, NEW user \in Addresses, BatchTries(user)
    PROVE  ContractInv'
<1>0. /\ TypeOK /\ Sound(frames, store, charged, Depth, now) /\ now # 0
      /\ Depth \in Nat /\ Depth > 0 /\ Top \in Frame /\ Top = frames[Depth] /\ Top.kind = "batch"
    BY OnTop DEF ContractInv, BatchTries, InBatch, Top
<1>1. store.charger # Contract
    BY <1>0 DEF Sound, TransfersBelow
<1>2. /\ frames' = Rest(user) /\ store' = store
      /\ UNCHANGED <<balance, allowance, now, charged, settings>>
    BY <1>1 DEF BatchTries, MayCharge, token
<1>3. /\ frames' \in Seq(Frame) /\ Len(frames') = Depth /\ Depth' = Depth
      /\ \A i \in 1 .. Depth - 1 : frames'[i] = frames[i]
      /\ frames'[Depth].kind = "batch" /\ frames'[Depth].before = Top.before
  <2>1. Depth' = Len(frames')
      BY DEF Depth
  <2>2. [Top EXCEPT !.users = @ \ {user}].kind = "batch"
      BY <1>0 DEF Frame
  <2>3. [Top EXCEPT !.users = @ \ {user}].before = Top.before
      BY <1>0 DEF Frame
  <2> QED BY <1>0, <1>2, <2>1, <2>2, <2>3, OneUserLess
<1>4. TypeOK'
    BY <1>0, <1>2, <1>3, OnTop DEF TypeOK
<1>5. Sound(frames', store, charged, Depth, now)
  <2>1. TransfersBelow(frames', store, charged, Depth, now)
    <3>1. \A i \in 1 .. Depth : i = Depth \/ i \in 1 .. Depth - 1
        BY <1>0
    <3>2. \A i \in 1 .. Depth : \A j \in 1 .. i - 1 : j \in 1 .. Depth - 1
        BY <1>0
    <3> QED BY <1>0, <1>1, <1>3, <3>1, <3>2 DEF Sound, TransfersBelow
  <2> QED BY <1>0, <2>1 DEF Sound
<1>6. \A i \in 1 .. Depth :
           Sound(frames', frames'[i].before.store, frames'[i].before.charged, i - 1, now)
  <2> SUFFICES ASSUME NEW i \in 1 .. Depth
               PROVE Sound(frames', frames'[i].before.store, frames'[i].before.charged, i - 1, now)
      OBVIOUS
  <2>1. /\ i - 1 \in Int /\ \A j \in 1 .. i - 1 : frames'[j] = frames[j]
        /\ frames'[i].before = frames[i].before
      BY <1>0, <1>3
  <2> QED BY <2>1, SameBelow DEF ContractInv
<1> QED BY <1>0, <1>2, <1>3, <1>4, <1>5, <1>6 DEF ContractInv

(* A batch ends: the storage is sound without its frame.                    *)
LEMMA BatchEndStep ==
    ASSUME ContractInv, BatchEnds
    PROVE  ContractInv'
<1>0. /\ TypeOK /\ Sound(frames, store, charged, Depth, now) /\ now # 0
      /\ Depth \in Nat /\ Depth > 0
    BY OnTop DEF ContractInv, BatchEnds, InBatch
<1>1. frames' = Pop /\ UNCHANGED <<store, balance, allowance, now, charged, settings>>
    BY DEF BatchEnds, token
<1>2. /\ frames' \in Seq(Frame) /\ Depth' = Depth - 1 /\ Depth' \in Nat
      /\ \A i \in 1 .. Depth - 1 : frames'[i] = frames[i]
    BY <1>0, <1>1, Popped DEF Depth
<1>3. TypeOK'
  <2>1. Len(frames') <= MaxDepth
      BY <1>0, <1>2, OnTop, LimitsAreNaturals DEF Depth
  <2> QED BY <1>0, <1>1, <1>2, <2>1 DEF TypeOK
<1>4. Sound(frames, store, charged, Depth - 1, now)
  <2>1. \A i \in 1 .. Depth - 1 : i \in 1 .. Depth /\ i # Depth
      BY <1>0
  <2> QED BY <1>0, <2>1 DEF Sound, TransfersBelow
<1>5. \A i \in 1 .. Depth - 1 :
         Sound(frames', frames'[i].before.store, frames'[i].before.charged, i - 1, now)
  <2> SUFFICES ASSUME NEW i \in 1 .. Depth - 1
               PROVE Sound(frames', frames[i].before.store, frames[i].before.charged, i - 1, now)
      BY <1>2
  <2>1. i - 1 \in Int /\ i \in 1 .. Depth /\ \A j \in 1 .. i - 1 : frames'[j] = frames[j]
      BY <1>0, <1>2
  <2> QED BY <2>1, SameBelow DEF ContractInv
<1>6. Sound(frames', store, charged, Depth - 1, now)
    BY <1>0, <1>2, <1>4, SameBelow
<1> QED BY <1>0, <1>1, <1>2, <1>3, <1>5, <1>6 DEF ContractInv

LEMMA InitSound == Init => ContractInv
<1> SUFFICES ASSUME Init PROVE ContractInv
    OBVIOUS
<1>1. NotSubscribed \in Subscription /\ NotSubscribed.lastChargedAt = 0 /\ 1 \in Times
    BY LimitsAreNaturals DEF NotSubscribed, Subscription, Times
<1>2. store \in Storage /\ \A a \in Addresses : store.sub[a].lastChargedAt = 0
    BY <1>1, DeployedByAnAccount DEF Init, Storage
<1>3. frames \in Seq(Frame) /\ Len(frames) = 0 /\ Depth = 0
    BY DEF Init, Depth
<1>4. TypeOK
    BY <1>1, <1>2, <1>3, LimitsAreNaturals DEF Init, TypeOK
<1>5. EventsBelow(store, charged) /\ TransfersBelow(frames, store, charged, 0, now)
    BY DEF Init, EventsBelow, TransfersBelow
<1> QED BY <1>2, <1>3, <1>4, <1>5 DEF Init, ContractInv, Sound

(* Every call of somebody else's than the charger.                          *)
LEMMA SettingStep ==
    ASSUME ContractInv, NEW sender \in Callers, NEW next \in Addresses, NEW value \in BOOLEAN,
           \/ SetCharger(sender, next) \/ SetTreasury(sender, next)
           \/ TransferOwnership(sender, next) \/ SetPaused(sender, value)
    PROVE  ContractInv'
<1>0. TypeOK /\ store \in Storage /\ store.treasury \in store.treasuries
    BY DEF ContractInv, Sound, TransfersBelow, TypeOK
<1>1. /\ Outside /\ settings' \in Nat
      /\ UNCHANGED <<balance, allowance, now, frames, charged>>
    BY <1>0 DEF SetCharger, SetTreasury, TransferOwnership, SetPaused, Setting, token, TypeOK
<1>2. /\ store' \in Storage /\ store'.sub = store.sub
      /\ store.treasuries \subseteq store'.treasuries /\ store'.treasury \in store'.treasuries
  <2>1. CASE SetCharger(sender, next)
      BY <1>0, <2>1 DEF SetCharger, Storage
  <2>2. CASE SetTreasury(sender, next)
      BY <1>0, <2>2 DEF SetTreasury, Storage
  <2>3. CASE TransferOwnership(sender, next)
      BY <1>0, <2>3 DEF TransferOwnership, Storage
  <2>4. CASE SetPaused(sender, value)
      BY <1>0, <2>4 DEF SetPaused, Storage
  <2> QED BY <2>1, <2>2, <2>3, <2>4
<1> QED BY <1>0, <1>1, <1>2, OtherCalls DEF TypeOK

LEMMA SubscriberStep ==
    ASSUME ContractInv, NEW user \in Callers, Subscribe(user) \/ Unsubscribe(user)
    PROVE  ContractInv'
<1>0. /\ TypeOK /\ store \in Storage /\ store.treasury \in store.treasuries
      /\ user \in Addresses /\ store.sub \in [Addresses -> Subscription] /\ now \in Times
    BY DEF ContractInv, Sound, TransfersBelow, TypeOK, Callers, Storage
<1>1. /\ Outside /\ UNCHANGED <<balance, allowance, now, frames, charged, settings>>
    BY DEF Subscribe, Unsubscribe, token
<1>2. ASSUME NEW s \in Subscription, s.lastChargedAt = store.sub[user].lastChargedAt,
             store' = [store EXCEPT !.sub[user] = s]
      PROVE  ContractInv'
  <2>1. /\ store' \in Storage /\ store'.treasury = store.treasury
        /\ store'.treasuries = store.treasuries
        /\ \A a \in Addresses : store'.sub[a].lastChargedAt = store.sub[a].lastChargedAt
      BY <1>0, <1>2 DEF Storage
  <2> QED BY <1>0, <1>1, <2>1, OtherCalls DEF TypeOK
<1>3. CASE Subscribe(user)
  <2> DEFINE old == store.sub[user]
             s == [old EXCEPT !.active = TRUE,
                              !.startedAt = IF old.startedAt = 0 THEN now ELSE old.startedAt]
  <2>1. s \in Subscription /\ s.lastChargedAt = store.sub[user].lastChargedAt
      BY <1>0 DEF Subscription
  <2>2. store' = [store EXCEPT !.sub[user] = s]
      BY <1>3 DEF Subscribe
  <2> QED BY <1>2, <2>1, <2>2
<1>4. CASE Unsubscribe(user)
  <2> DEFINE s == [store.sub[user] EXCEPT !.active = FALSE]
  <2>1. s \in Subscription /\ s.lastChargedAt = store.sub[user].lastChargedAt
      BY <1>0 DEF Subscription
  <2>2. store' = [store EXCEPT !.sub[user] = s]
      BY <1>0, <1>4 DEF Unsubscribe, Storage
  <2> QED BY <1>2, <2>1, <2>2
<1> QED BY <1>3, <1>4

LEMMA WalletStep ==
    ASSUME ContractInv, NEW user \in Callers, NEW approved \in Amounts, NEW held \in Amounts,
           WalletChanges(user, approved, held)
    PROVE  ContractInv'
<1>1. TypeOK /\ store \in Storage /\ store.treasury \in store.treasuries
    BY DEF ContractInv, Sound, TransfersBelow, TypeOK
<1>2. /\ Outside /\ settings' \in Nat /\ UNCHANGED <<store, now, frames, charged>>
      /\ allowance' \in [Addresses -> Nat] /\ balance' \in [Addresses -> Nat]
    BY <1>1, LimitsAreNaturals DEF WalletChanges, TypeOK, Callers
<1> QED BY <1>1, <1>2, OtherCalls

LEMMA NextBlock ==
    ASSUME ContractInv, Tick
    PROVE  ContractInv'
<1>0. /\ TypeOK /\ Sound(frames, store, charged, Depth, now) /\ Depth = 0
      /\ now \in Nat /\ now' = now + 1 /\ now < MaxTime /\ store \in Storage
      /\ UNCHANGED <<store, balance, allowance, frames, charged, settings>>
    BY DEF ContractInv, Tick, token, TypeOK, Times
<1>1. Depth' = 0
    BY <1>0 DEF Depth
<1>2. TypeOK'
    BY <1>0, LimitsAreNaturals DEF TypeOK, Times
<1>3. \A a \in Addresses : store.sub[a].lastChargedAt \in Nat
    BY <1>0 DEF Storage, Subscription, Times
<1>4. Sound(frames, store, charged, 0, now + 1)
    BY <1>0, <1>3 DEF Sound, TransfersBelow
<1> QED BY <1>0, <1>1, <1>2, <1>4 DEF ContractInv

LEMMA NextSound == ContractInv /\ [Next]_vars => ContractInv'
<1> SUFFICES ASSUME ContractInv, [Next]_vars PROVE ContractInv'
    OBVIOUS
<1>1. CASE UNCHANGED vars
    BY <1>1 DEF vars, token, ContractInv, TypeOK, Depth
<1>2. ASSUME NEW user \in Callers, Subscribe(user) \/ Unsubscribe(user) PROVE ContractInv'
    BY <1>2, SubscriberStep
<1>3. ASSUME NEW sender \in Callers, NEW user \in Addresses, NEW amount \in Amounts,
             Charge(sender, user, amount)
      PROVE  ContractInv'
    BY <1>3, ChargeStep
<1>4. CASE Transferred \/ TransferFails
    BY <1>4, TransferStep, FailureStep
<1>5. ASSUME NEW sender \in Callers, NEW users \in SUBSET Addresses, NEW amount \in Amounts,
             ChargeBatch(sender, users, amount)
      PROVE  ContractInv'
    BY <1>5, BatchStep
<1>6. ASSUME NEW user \in Addresses, BatchTries(user) PROVE ContractInv'
    BY <1>6, NoneInABatch
<1>7. CASE BatchEnds
    BY <1>7, BatchEndStep
<1>8. ASSUME NEW sender \in Callers, NEW next \in Addresses,
             SetCharger(sender, next) \/ SetTreasury(sender, next) \/ TransferOwnership(sender, next)
      PROVE  ContractInv'
    BY <1>8, SettingStep
<1>9. ASSUME NEW sender \in Callers, NEW value \in BOOLEAN, SetPaused(sender, value)
      PROVE  ContractInv'
    BY <1>9, SettingStep, DeployedByAnAccount
<1>10. ASSUME NEW user \in Callers, NEW approved \in Amounts, NEW held \in Amounts,
              WalletChanges(user, approved, held)
       PROVE  ContractInv'
    BY <1>10, WalletStep
<1>11. CASE Tick
    BY <1>11, NextBlock
<1> QED BY <1>1, <1>2, <1>3, <1>4, <1>5, <1>6, <1>7, <1>8, <1>9, <1>10, <1>11 DEF Next

(* The inductive invariant of the contract.                                 *)
THEOREM ContractInvariance == Spec => []ContractInv
BY InitSound, NextSound, PTL DEF Spec

(* "At most maxChargeAmount per subscriber per period", for every ceiling,  *)
(* period and depth of calls within calls (charge).                         *)
THEOREM CeilingHolds == Spec => []OneChargePerPeriod
<1>1. ContractInv => OneChargePerPeriod
    BY DEF ContractInv, Sound, EventsBelow, OneChargePerPeriod
<1> QED BY <1>1, ContractInvariance, PTL

(* "Only to the treasury address, which is set by the owner".               *)
THEOREM OwnersChooseTheTreasury == Spec => []PaidToATreasury
<1>1. ContractInv => PaidToATreasury
    BY DEF ContractInv, Sound, EventsBelow, PaidToATreasury
<1> QED BY <1>1, ContractInvariance, PTL

(* No batch charges anyone, whoever the charger is (chargeBatch).           *)
THEOREM BatchesChargeNobody == Spec => []BatchChargesNobody
<1>1. ContractInv => BatchChargesNobody
    BY DEF ContractInv, Sound, EventsBelow, BatchChargesNobody
<1> QED BY <1>1, ContractInvariance, PTL

(* Between transactions chargeable answers what charge would find, for      *)
(* every user and amount.                                                   *)
THEOREM BackendIsToldTheTruth == Spec => []ChargeableIsExact
<1>1. ContractInv => ChargeableIsExact
  <2> SUFFICES ASSUME Depth = 0, NEW user \in Addresses, NEW amount \in Amounts
               PROVE  Chargeable(user, amount) <=> MayCharge(store.charger, user, amount)
      BY DEF ChargeableIsExact
  <2>1. Depth < MaxDepth
      BY LimitsAreNaturals
  <2> QED BY <2>1 DEF Chargeable, MayCharge, Accepts, Due
<1> QED BY <1>1, ContractInvariance, PTL
=============================================================================
