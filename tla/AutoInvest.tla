----------------------------- MODULE AutoInvest -----------------------------
(* AutoInvestService, and the user's own operations on bots (BotsService):  *)
(* one user, one process, one exchange account, which ExchangeAccounts may  *)
(* make active or not at any time. enable deletes the bots of the old       *)
(* portfolio and creates those of the new one, row by row, with no          *)
(* transaction; what marks a bot as part of a portfolio is a tag in its     *)
(* config. The bots are paper bots, which is the default.                   *)
EXTENDS Naturals, FiniteSets, Sequences

CONSTANTS Requests,    \* slots for concurrent HTTP requests
          Bots,        \* ids of bots
          NoBot,
          Offers,      \* the <<profile, budget in USD>> the user may ask for
          MaxBots,     \* the smaller of maxConcurrentBots and MAX_BOTS_PER_USER
          MaxEnables   \* bound on the portfolios asked for

ASSUME AutoInvestAssumption ==
    /\ NoBot \notin Bots /\ IsFiniteSet(Bots)
    /\ Offers \subseteq {"CONSERVATIVE", "BALANCED", "GROWTH"} \X Nat
    /\ MaxBots \in Nat /\ MaxEnables \in Nat

VARIABLES active,   \* the status of the account is ACTIVE
          bot,      \* the bots rows
          job,      \* the continuation of each request to this service
          asked,    \* history: the profile of each portfolio; their order numbers them
          mixed,    \* history: portfolios whose enable crossed another enable
          broken,   \* history: portfolios that lost a leg, and so may be short of one
          off       \* history: disabled, and nothing started since

portfolios == <<active, bot, job, asked, mixed, broken, off>>

(* The shares of PRESETS, in percent.                                       *)
Weights == [CONSERVATIVE |-> <<60, 40>>,
            BALANCED |-> <<30, 25, 25, 20>>,
            GROWTH |-> <<30, 20, 25, 25>>]

(* A quarter of the leg's share, in cents; validateConfig wants 5 USD.      *)
OrderSize(budget, weight) == (budget * weight + 2) \div 4
Fits(budget, weight) == OrderSize(budget, weight) >= 500

(* tag and from: the portfolio in the config, and, for the record, the one  *)
(* whose enable created the bot. open: an order of the bot is open. The     *)
(* statuses other than RUNNING are one, "still": nothing here tells them    *)
(* apart.                                                                   *)
NoRowBot == [status |-> "none", tag |-> 0, from |-> 0, leg |-> 0, open |-> FALSE]

NoJob == [pc |-> "idle", budget |-> 0,
          portfolio |-> 0, leg |-> 0, bot |-> NoBot, managed |-> {}, alone |-> FALSE]

AutoInit ==
    /\ active \in BOOLEAN
    /\ bot = [b \in Bots |-> NoRowBot]
    /\ job = [c \in Requests |-> NoJob]
    /\ asked = <<>>
    /\ mixed = {}
    /\ broken = {}
    /\ off = FALSE

Legs(portfolio) == Weights[asked[portfolio]]
Free(c) == job[c].pc = "idle"
Exists(b) == bot[b].status # "none"
Managed == {b \in Bots : bot[b].tag # 0}
Enabling == {c \in Requests : job[c].pc \in {"find", "delete", "leg", "insert", "tag"}}

-----------------------------------------------------------------------------
(* enable *)

(* The account is read, and the call goes on if it is ACTIVE. Two calls in  *)
(* flight at once cross, and so do this one and a disable.                  *)
EnableCheck(c, offer) ==
    LET n == Len(asked) + 1 IN
    /\ Free(c)
    /\ active
    /\ n <= MaxEnables
    /\ asked' = Append(asked, offer[1])
    /\ job' = [d \in Requests |->
                  IF d = c THEN [NoJob EXCEPT !.pc = "find", !.budget = offer[2], !.portfolio = n]
                  ELSE [job[d] EXCEPT !.alone = FALSE]]
    /\ mixed' = IF Enabling = {} THEN mixed
                ELSE mixed \cup {n} \cup {job[d].portfolio : d \in Enabling}
    /\ off' = FALSE
    /\ UNCHANGED <<active, bot, broken>>

(* removeManaged reads the bots with a tag ...                              *)
FindManaged(c) ==
    /\ job[c].pc = "find"
    /\ job' = [job EXCEPT ![c] = IF Managed = {} THEN [@ EXCEPT !.pc = "leg", !.leg = 1]
                                 ELSE [@ EXCEPT !.pc = "delete", !.managed = Managed]]
    /\ UNCHANGED <<active, bot, asked, mixed, broken, off>>

(* Mutant: the bots of the old portfolio are only stopped.                  *)
DeleteManaged_Stop(c) ==
    /\ job[c].pc = "delete"
    /\ bot' = [b \in Bots |-> IF b \in job[c].managed /\ Exists(b)
                              THEN [bot[b] EXCEPT !.status = "still"] ELSE bot[b]]
    /\ job' = [job EXCEPT ![c].pc = "leg", ![c].leg = 1, ![c].managed = {}]
    /\ UNCHANGED <<active, asked, mixed, broken, off>>

(* ... and deletes them by id, whatever they have become, open orders or not. *)
DeleteManaged(c) ==
    /\ job[c].pc = "delete"
    /\ bot' = [b \in Bots |-> IF b \in job[c].managed THEN NoRowBot ELSE bot[b]]
    /\ broken' = broken \cup {bot[b].from : b \in job[c].managed}
    /\ job' = [job EXCEPT ![c].pc = "leg", ![c].leg = 1, ![c].managed = {}]
    /\ UNCHANGED <<active, asked, mixed, off>>

(* validateConfig, and the checks of bots.create: the number of bots and    *)
(* the account, again. Whatever throws here ends the call half-way.         *)
CheckLeg(c) ==
    LET j == job[c]
        weight == Legs(j.portfolio)[j.leg]
        goesOn == /\ Fits(j.budget, weight)
                  /\ Cardinality({b \in Bots : Exists(b)}) < MaxBots
                  /\ active
    IN
    /\ j.pc = "leg"
    /\ job' = [job EXCEPT ![c] = IF goesOn THEN [@ EXCEPT !.pc = "insert"] ELSE NoJob]
    /\ broken' = IF goesOn THEN broken ELSE broken \cup {j.portfolio}
    /\ UNCHANGED <<active, bot, asked, mixed, off>>

(* An id that no call in flight still refers to.                            *)
Unused(b) == ~Exists(b) /\ \A c \in Requests : b \notin job[c].managed \cup {job[c].bot}

InsertLeg(c, b) ==
    LET j == job[c] IN
    /\ j.pc = "insert"
    /\ Unused(b)
    /\ bot' = [bot EXCEPT ![b] = [NoRowBot EXCEPT !.status = "still", !.from = j.portfolio,
                                                  !.leg = j.leg]]
    /\ job' = [job EXCEPT ![c].pc = "tag", ![c].bot = b]
    /\ UNCHANGED <<active, asked, mixed, broken, off>>

(* Mutant: the last leg of the preset is forgotten.                         *)
NextLeg_Short(j) ==
    IF j.leg + 1 < Len(Legs(j.portfolio)) THEN [j EXCEPT !.pc = "leg", !.leg = @ + 1, !.bot = NoBot]
    ELSE NoJob

NextLeg(j) ==
    IF j.leg < Len(Legs(j.portfolio)) THEN [j EXCEPT !.pc = "leg", !.leg = @ + 1, !.bot = NoBot]
    ELSE NoJob

(* The tag and RUNNING are written over what the row is by now; the update  *)
(* throws if the bot was deleted.                                           *)
TagLeg(c) ==
    LET j == job[c] IN
    /\ j.pc = "tag"
    /\ IF Exists(j.bot)
       THEN /\ bot' = [bot EXCEPT ![j.bot].tag = j.portfolio, ![j.bot].status = "RUNNING"]
            /\ job' = [job EXCEPT ![c] = NextLeg(j)]
            /\ UNCHANGED broken
       ELSE /\ job' = [job EXCEPT ![c] = NoJob]
            /\ broken' = broken \cup {j.portfolio}
            /\ UNCHANGED bot
    /\ UNCHANGED <<active, asked, mixed, off>>

-----------------------------------------------------------------------------
(* disable *)

DisableRead(c) ==
    /\ Free(c)
    /\ Managed # {}
    /\ job' = [job EXCEPT ![c] = [NoJob EXCEPT !.pc = "stop", !.managed = Managed,
                                               !.alone = (Enabling = {})]]
    /\ UNCHANGED <<active, bot, asked, mixed, broken, off>>

(* Mutant: only the first leg is stopped.                                   *)
StopManaged_First(c) ==
    /\ job[c].pc = "stop"
    /\ bot' = [b \in Bots |-> IF b \in job[c].managed /\ bot[b].leg = 1
                              THEN [bot[b] EXCEPT !.status = "still"] ELSE bot[b]]
    /\ off' = job[c].alone
    /\ job' = [job EXCEPT ![c] = NoJob]
    /\ UNCHANGED <<active, asked, mixed, broken>>

(* The bots that were read are stopped, all in one statement.               *)
StopManaged(c) ==
    /\ job[c].pc = "stop"
    /\ bot' = [b \in Bots |-> IF b \in job[c].managed /\ Exists(b)
                              THEN [bot[b] EXCEPT !.status = "still"] ELSE bot[b]]
    /\ off' = job[c].alone
    /\ job' = [job EXCEPT ![c] = NoJob]
    /\ UNCHANGED <<active, asked, mixed, broken>>

-----------------------------------------------------------------------------
(* The user's own operations, and the runner *)

(* setStatus, by id; a paper bot starts whatever its account is.            *)
SetStatus(b, status) ==
    /\ Exists(b)
    /\ bot' = [bot EXCEPT ![b].status = status]
    /\ off' = (off /\ status # "RUNNING")
    /\ UNCHANGED <<active, job, asked, mixed, broken>>

(* update refuses a running bot, and writes the config awaits later, over   *)
(* the tag and whatever the status is then.                                 *)
EditRead(c, b) ==
    /\ Free(c)
    /\ Exists(b) /\ bot[b].status # "RUNNING"
    /\ job' = [job EXCEPT ![c] = [NoJob EXCEPT !.pc = "edit", !.bot = b]]
    /\ UNCHANGED <<active, bot, asked, mixed, broken, off>>

EditWrite(c) ==
    LET b == job[c].bot IN
    /\ job[c].pc = "edit"
    /\ bot' = IF Exists(b) THEN [bot EXCEPT ![b].tag = 0] ELSE bot
    /\ broken' = broken \cup {bot[b].from}
    /\ job' = [job EXCEPT ![c] = NoJob]
    /\ UNCHANGED <<active, asked, mixed, off>>

(* remove counts the open orders, and deletes awaits later.                 *)
RemoveRead(c, b) ==
    /\ Free(c)
    /\ Exists(b) /\ ~bot[b].open
    /\ job' = [job EXCEPT ![c] = [NoJob EXCEPT !.pc = "remove", !.bot = b]]
    /\ UNCHANGED <<active, bot, asked, mixed, broken, off>>

RemoveWrite(c) ==
    LET b == job[c].bot IN
    /\ job[c].pc = "remove"
    /\ bot' = [bot EXCEPT ![b] = NoRowBot]
    /\ broken' = broken \cup {bot[b].from}
    /\ job' = [job EXCEPT ![c] = NoJob]
    /\ UNCHANGED <<active, asked, mixed, off>>

(* runBot: requiredCandles and decide validate the stored config, and the   *)
(* tag is a setting that no strategy knows: every run of the bot fails, and *)
(* MAX_CONSECUTIVE_FAILURES of them park it. A bot without one trades.      *)
RunnerRuns(b) ==
    /\ bot[b].status = "RUNNING"
    /\ bot' = IF bot[b].tag # 0 THEN [bot EXCEPT ![b].status = "still"]
              ELSE [bot EXCEPT ![b].open = TRUE]
    /\ UNCHANGED <<active, job, asked, mixed, broken, off>>

OrderCloses(b) ==
    /\ bot[b].open
    /\ bot' = [bot EXCEPT ![b].open = FALSE]
    /\ UNCHANGED <<active, job, asked, mixed, broken, off>>

(* A call of the database or of the exchange throws.                        *)
JobFails(c) ==
    /\ job[c].pc # "idle"
    /\ broken' = broken \cup {job[c].portfolio}
    /\ job' = [job EXCEPT ![c] = NoJob]
    /\ UNCHANGED <<active, bot, asked, mixed, off>>

Restart ==
    /\ broken' = broken \cup {job[c].portfolio : c \in Requests}
    /\ job' = [c \in Requests |-> NoJob]
    /\ UNCHANGED <<active, bot, asked, mixed, off>>

(* A key is verified again, or revoked (ExchangeAccounts).                  *)
AccountChanges ==
    /\ active' = ~active
    /\ UNCHANGED <<bot, job, asked, mixed, broken, off>>

AutoCall(c) ==
    \/ \E offer \in Offers : EnableCheck(c, offer)
    \/ FindManaged(c) \/ DeleteManaged(c) \/ CheckLeg(c) \/ TagLeg(c)
    \/ DisableRead(c) \/ StopManaged(c) \/ EditWrite(c) \/ RemoveWrite(c) \/ JobFails(c)
    \/ \E b \in Bots : InsertLeg(c, b) \/ EditRead(c, b) \/ RemoveRead(c, b)

AutoNext ==
    \/ \E c \in Requests : AutoCall(c)
    \/ \E b \in Bots :
           \/ \E status \in {"RUNNING", "still"} : SetStatus(b, status)
           \/ RunnerRuns(b) \/ OrderCloses(b)
    \/ AccountChanges \/ Restart

AutoSpec == AutoInit /\ [][AutoNext]_portfolios

-----------------------------------------------------------------------------
(* Switching the profile leaves no bot of the old portfolio beside the new  *)
(* one, unless their two enables crossed (enable: "switching profile must   *)
(* not leave bots from the old one running").                               *)
OnePortfolio ==
    \A b, d \in Managed :
        bot[b].tag # bot[d].tag => {bot[b].tag, bot[d].tag} \subseteq mixed

(* Once a disable that no enable crossed has answered, no bot of the        *)
(* portfolio runs until the user starts one again.                          *)
OffMeansOff == off => \A b \in Managed : bot[b].status # "RUNNING"

(* A portfolio that is short of a leg, or has one twice, or is gone, has a  *)
(* cause: a leg that was refused, a call that failed, a process that        *)
(* stopped, a bot that the user edited or deleted, or another enable that   *)
(* deleted it.                                                              *)
Portfolio(n) == {b \in Bots : bot[b].tag = n}

PortfoliosAreWhole ==
    \A n \in (1 .. Len(asked)) \ broken :
        (\A c \in Enabling : job[c].portfolio # n) =>
            /\ {bot[b].leg : b \in Portfolio(n)} = 1 .. Len(Legs(n))
            /\ Cardinality(Portfolio(n)) = Len(Legs(n))

-----------------------------------------------------------------------------
(* What these rest on, as one invariant that every step keeps.              *)
Pcs == {"idle", "find", "delete", "leg", "insert", "tag", "stop", "edit", "remove"}

BotRow == [status : {"none", "still", "RUNNING"}, tag : Nat, from : Nat, leg : Nat, open : BOOLEAN]

Job == {j \in [pc : Pcs, budget : Nat, portfolio : Nat, leg : Nat, bot : Bots \cup {NoBot},
               managed : SUBSET Bots, alone : BOOLEAN] :
            j.pc \in {"tag", "edit", "remove"} => j.bot \in Bots}

AutoTypeOK ==
    /\ active \in BOOLEAN /\ off \in BOOLEAN
    /\ bot \in [Bots -> BotRow]
    /\ job \in [Requests -> Job]
    /\ asked \in Seq({"CONSERVATIVE", "BALANCED", "GROWTH"})
    /\ mixed \in SUBSET Nat /\ broken \in SUBSET Nat

(* An enable has a portfolio of its own, and a leg of it; what another      *)
(* enable crosses is mixed.                                                 *)
EnablesHaveTheirOwn ==
    \A c \in Enabling :
        /\ job[c].portfolio \in 1 .. Len(asked)
        /\ job[c].pc \in {"leg", "insert", "tag"} => job[c].leg \in 1 .. Len(Legs(job[c].portfolio))
        /\ \A d \in Enabling \ {c} :
               /\ job[d].portfolio # job[c].portfolio
               /\ {job[c].portfolio, job[d].portfolio} \subseteq mixed

(* A bot is of a portfolio that was asked for, and only its tag goes.       *)
BotsAreOfTheirPortfolio ==
    \A b \in Bots :
        /\ bot[b].from \in 0 .. Len(asked)
        /\ bot[b].tag \in {0, bot[b].from}
        /\ Exists(b) \/ bot[b].from = 0

(* The bot that an enable has inserted is there, or was deleted.            *)
InsertedIsTheirs ==
    \A c \in Requests : job[c].pc = "tag" /\ Exists(job[c].bot) =>
        /\ bot[job[c].bot].from = job[c].portfolio
        /\ bot[job[c].bot].leg = job[c].leg

(* An enable that has read the tags has every bot of an old portfolio on    *)
(* its list, and then none is left, but those of the enables it crosses.    *)
OldOnesGo ==
    \A c \in Requests, b \in Managed :
        (job[c].pc = "delete" => b \in job[c].managed \/ bot[b].tag = job[c].portfolio
                                    \/ {bot[b].tag, job[c].portfolio} \subseteq mixed)
        /\ (job[c].pc \in {"leg", "insert", "tag"} =>
                bot[b].tag = job[c].portfolio \/ {bot[b].tag, job[c].portfolio} \subseteq mixed)

(* A disable that no enable crosses has every tagged bot on its list.       *)
AloneIsAlone ==
    /\ off => Enabling = {}
    /\ \A c \in Requests : job[c].alone =>
           /\ job[c].pc = "stop" /\ Enabling = {}
           /\ Managed \subseteq job[c].managed

(* How far the enable of a portfolio has come: the legs it has inserted.    *)
Born(n) == {b \in Bots : bot[b].from = n}
Inserted(j) == IF j.pc \in {"find", "delete"} THEN 0
               ELSE IF j.pc = "tag" THEN j.leg ELSE j.leg - 1

(* The bots of a portfolio that lost none are one for each leg so far.      *)
OnePerLeg(n, legs) ==
    /\ {bot[b].leg : b \in Born(n)} = 1 .. legs
    /\ \A b, d \in Born(n) : bot[b].leg = bot[d].leg => b = d

SoFar(n, j) ==
    /\ OnePerLeg(n, Inserted(j))
    /\ \A b \in Born(n) : bot[b].tag = n \/ (j.pc = "tag" /\ b = j.bot)
    /\ j.pc = "tag" => j.bot \in Born(n)

AllThere(n) == OnePerLeg(n, Len(Legs(n))) /\ \A b \in Born(n) : bot[b].tag = n

WholeSoFar(n) ==
    /\ \A c \in Enabling : job[c].portfolio = n => SoFar(n, job[c])
    /\ (\A c \in Enabling : job[c].portfolio # n) => AllThere(n)

UnbrokenAreWhole == \A n \in (1 .. Len(asked)) \ broken : WholeSoFar(n)

AutoInv ==
    /\ AutoTypeOK /\ EnablesHaveTheirOwn /\ BotsAreOfTheirPortfolio /\ InsertedIsTheirs
    /\ OldOnesGo /\ OnePortfolio
    /\ AloneIsAlone /\ OffMeansOff
    /\ UnbrokenAreWhole

=============================================================================
