-------------------------- MODULE BotRunnerProofs --------------------------
(***************************************************************************)
(* Proofs about BotRunner for any number of bots, workers, bars, requests, *)
(* prices and restarts.                                                    *)
(*                                                                         *)
(* The first half, IInv, is about who may still order: a step is reduced   *)
(* to what it does to the status of the bots, to the lists of the workers  *)
(* and to the requests still to be written.  The second half, TradeInv, is *)
(* about what is ordered.  It starts with sums and positions, which are    *)
(* recursive functions over the rows, goes on with the steps that keep the *)
(* rows (all but a bar that closes, a bot that is removed, a decision and  *)
(* a new row), and ends with what is held, earned and sold.                *)
(***************************************************************************)
EXTENDS BotRunner, FiniteSetTheorems, TLAPS

(* What a step that is neither a tick nor a new order may do: no bot starts *)
(* resting with a count kept from before, and no list grows.                *)
CountsKept ==
    \A b \in Bots : \/ Running(b)'
                    \/ late'[b] = [w \in Workers |-> 0]
                    \/ ~Running(b) /\ late'[b] = late[b]
ListsShrink == \A w \in Workers : ToCome(w)' \subseteq ToCome(w)
AbsentStay ==
    /\ requests' \subseteq requests
    /\ \A b \in Bots : bot[b].status = "NONE" => bot'[b].status = "NONE"

LEMMA FreshKept ==
  ASSUME IInv, CountsKept, ListsShrink
  PROVE  ListsAreFresh' /\ StoppedBotsWindDown'
<1> SUFFICES ASSUME NEW b \in Bots, NEW w \in Workers, ~Running(b)'
             PROVE  late'[b][w] <= 1 /\ (b \in ToCome(w)' => late'[b][w] = 0)
  BY DEF ListsAreFresh, StoppedBotsWindDown
<1>1. CASE late'[b] = [v \in Workers |-> 0]
  BY <1>1
<1>2. CASE ~Running(b) /\ late'[b] = late[b]
  BY <1>2 DEF IInv, ListsAreFresh, StoppedBotsWindDown, ListsShrink
<1> QED BY <1>1, <1>2 DEF CountsKept

LEMMA CreationsKept ==
  ASSUME IInv, AbsentStay
  PROVE  CreationsAreAlone'
  BY DEF IInv, ControlTypeOK, Requests, AbsentStay, CreationsAreAlone

-----------------------------------------------------------------------------
(* The building blocks of the steps *)

LEMMA EndedStep ==
  ASSUME IInv, NEW b \in Bots, NEW status \in Statuses, Ended(b, status), status # "RUNNING"
  PROVE  /\ bot' \in [Bots -> BotRows] /\ late' \in [Bots -> [Workers -> Nat]]
         /\ CountsKept
         /\ \A c \in Bots \ {b} : bot'[c] = bot[c]
<1> USE DEF IInv, ControlTypeOK
<1>1. bot[b] \in BotRows
  OBVIOUS
<1>2. [bot[b] EXCEPT !.status = status] \in BotRows
  BY <1>1 DEF BotRows
<1>3. bot' = [bot EXCEPT ![b] = [bot[b] EXCEPT !.status = status]]
  BY DEF Ended
<1>4. bot' \in [Bots -> BotRows] /\ \A c \in Bots \ {b} : bot'[c] = bot[c]
  BY <1>2, <1>3
<1>5. [w \in Workers |-> 0] \in [Workers -> Nat]
  OBVIOUS
<1>6. /\ late' \in [Bots -> [Workers -> Nat]]
      /\ late'[b] = [w \in Workers |-> 0]
      /\ \A c \in Bots \ {b} : late'[c] = late[c]
  BY <1>5 DEF Ended
<1>7. \A c \in Bots \ {b} : Running(c)' \/ (~Running(c) /\ late'[c] = late[c])
  BY <1>4, <1>6 DEF Running
<1> QED BY <1>4, <1>6, <1>7 DEF CountsKept

(* A status written over one that is not RUNNING, or RUNNING over any.      *)
LEMMA StatusStep ==
  ASSUME IInv, NEW b \in Bots, NEW status \in Statuses,
         bot' = [bot EXCEPT ![b].status = status], late' = late,
         status = "RUNNING" \/ ~Running(b)
  PROVE  /\ bot' \in [Bots -> BotRows] /\ late' \in [Bots -> [Workers -> Nat]]
         /\ CountsKept
         /\ \A c \in Bots \ {b} : bot'[c] = bot[c]
<1> USE DEF IInv, ControlTypeOK
<1>1. bot[b] \in BotRows
  OBVIOUS
<1>2. /\ [bot[b] EXCEPT !.status = status] \in BotRows
      /\ [bot[b] EXCEPT !.status = status].status = status
  BY <1>1 DEF BotRows
<1>3. bot' = [bot EXCEPT ![b] = [bot[b] EXCEPT !.status = status]]
  OBVIOUS
<1>4. /\ bot' \in [Bots -> BotRows] /\ \A c \in Bots \ {b} : bot'[c] = bot[c]
      /\ bot'[b].status = status
  BY <1>2, <1>3
<1>5. \A c \in Bots : Running(c)' \/ (~Running(c) /\ late'[c] = late[c])
  BY <1>4 DEF Running
<1> QED BY <1>4, <1>5 DEF CountsKept

(* A step that leaves the bots alone.                                       *)
LEMMA SameBots ==
  ASSUME IInv, UNCHANGED <<bot, late>>
  PROVE  /\ bot' \in [Bots -> BotRows] /\ late' \in [Bots -> [Workers -> Nat]]
         /\ CountsKept
         /\ \A b \in Bots : bot'[b] = bot[b]
  BY DEF IInv, ControlTypeOK, CountsKept, Running

LEMMA SameWorkers ==
  ASSUME IInv, worker' = worker
  PROVE  /\ worker' = [w \in Workers |-> worker'[w]]
         /\ \A w \in Workers : worker'[w].queue \subseteq Bots
         /\ HandsAreListed' /\ ListsShrink
  BY DEF IInv, ControlTypeOK, HandsAreListed, ListsShrink, ToCome

(* Worker w rests, or goes on with less of its list.                        *)
LEMMA WorkerRests ==
  ASSUME IInv, NEW w \in Workers, worker' = [worker EXCEPT ![w] = Resting]
  PROVE  /\ worker' = [v \in Workers |-> worker'[v]]
         /\ \A v \in Workers : worker'[v].queue \subseteq Bots
         /\ HandsAreListed' /\ ListsShrink
<1>1. worker'[w] = Resting /\ \A v \in Workers \ {w} : worker'[v] = worker[v]
  BY DEF IInv, ControlTypeOK
<1>2. worker' = [v \in Workers |-> worker'[v]]
  BY DEF IInv, ControlTypeOK
<1> QED BY <1>1, <1>2 DEF IInv, ControlTypeOK, HandsAreListed, ListsShrink, ToCome, Resting

LEMMA NextBotStep ==
  ASSUME IInv, NEW w \in Workers, NEW b \in Bots, NextBot(w, b),
         worker[w].pc = "send" => worker[w].hand.bot = b
  PROVE  /\ worker' = [v \in Workers |-> worker'[v]]
         /\ \A v \in Workers : worker'[v].queue \subseteq Bots
         /\ HandsAreListed' /\ ListsShrink
<1> DEFINE rest == worker[w].queue \ {b}
<1>1. CASE rest = {}
  <2>1. worker' = [worker EXCEPT ![w] = Resting]
    BY <1>1 DEF NextBot
  <2> QED BY <2>1, WorkerRests
<1>2. CASE rest # {}
  <2>1. worker' = [worker EXCEPT ![w] = [pc |-> "tick", queue |-> rest, hand |-> NoHand]]
    BY <1>2 DEF NextBot
  <2>2. /\ worker'[w] = [pc |-> "tick", queue |-> rest, hand |-> NoHand]
        /\ \A v \in Workers \ {w} : worker'[v] = worker[v]
        /\ worker' = [v \in Workers |-> worker'[v]]
    BY <2>1 DEF IInv, ControlTypeOK
  <2> QED BY <2>2 DEF IInv, ControlTypeOK, HandsAreListed, ListsShrink, ToCome
<1> QED BY <1>1, <1>2

LEMMA QuietStep ==
  ASSUME IInv, ControlTypeOK', HandsAreListed', CountsKept, ListsShrink, AbsentStay
  PROVE  IInv'
  BY FreshKept, CreationsKept DEF IInv

(* The end of a runBot, good or bad.                                        *)
LEMMA RunOver ==
  ASSUME IInv, NEW w \in Workers, NEW b \in Bots,
         worker[w].pc = "send" => worker[w].hand.bot = b,
         RunEnds(w, b) \/ RunFails(w, b), requests' = requests, review' = review
  PROVE  IInv'
<1> USE DEF Statuses
<1>1. CASE RunEnds(w, b)
  <2>1. NextBot(w, b) /\ UNCHANGED <<bot, late>>
    BY <1>1 DEF RunEnds
  <2>2. AbsentStay
    BY <2>1 DEF AbsentStay
  <2> QED BY <2>1, <2>2, NextBotStep, SameBots, QuietStep DEF IInv, ControlTypeOK
<1>2. CASE RunFails(w, b)
  <2>1. CASE UNCHANGED <<bot, late>>
    <3>1. worker' = [worker EXCEPT ![w] = Resting] \/ NextBot(w, b)
      BY <1>2 DEF RunFails
    <3>2. AbsentStay
      BY <2>1 DEF AbsentStay
    <3>3. /\ worker' = [v \in Workers |-> worker'[v]]
          /\ \A v \in Workers : worker'[v].queue \subseteq Bots
          /\ HandsAreListed' /\ ListsShrink
      BY <3>1, NextBotStep, WorkerRests
    <3> QED BY <2>1, <3>2, <3>3, SameBots, QuietStep DEF IInv, ControlTypeOK
  <2>2. CASE Exists(b) /\ NextBot(w, b) /\ Ended(b, "ERROR")
    <3>1. /\ bot' \in [Bots -> BotRows] /\ late' \in [Bots -> [Workers -> Nat]]
          /\ CountsKept
          /\ \A c \in Bots \ {b} : bot'[c] = bot[c]
      BY <2>2, EndedStep
    <3>2. AbsentStay
      BY <2>2, <3>1 DEF AbsentStay, Exists
    <3> QED BY <2>2, <3>1, <3>2, NextBotStep, QuietStep DEF IInv, ControlTypeOK
  <2>3. CASE Exists(b) /\ NextBot(w, b) /\ ~Running(b)
               /\ bot' = [bot EXCEPT ![b].status = "ERROR"] /\ UNCHANGED late
    <3>1. /\ bot' \in [Bots -> BotRows] /\ late' \in [Bots -> [Workers -> Nat]]
          /\ CountsKept
          /\ \A c \in Bots \ {b} : bot'[c] = bot[c]
      BY <2>3, StatusStep
    <3>2. AbsentStay
      BY <2>3, <3>1 DEF AbsentStay, Exists
    <3> QED BY <2>3, <3>1, <3>2, NextBotStep, QuietStep DEF IInv, ControlTypeOK
  <2> QED BY <1>2, <2>1, <2>2, <2>3 DEF RunFails
<1> QED BY <1>1, <1>2

-----------------------------------------------------------------------------
(* One lemma per group of actions *)

LEMMA InitStep == Init => IInv
<1> SUFFICES ASSUME Init PROVE IInv
  OBVIOUS
<1> DEFINE Drafts == [status : {"DRAFT"}, paper : BOOLEAN, limit : Limits \cup {NoLimit}]
<1>0. {Absent} \cup Drafts \subseteq BotRows
  <2>1. Absent \in BotRows
    <3>1. "NONE" \in Statuses /\ TRUE \in BOOLEAN /\ NoLimit \in Limits \cup {NoLimit}
      BY DEF Statuses
    <3> QED BY <3>1 DEF BotRows, Absent
  <2>2. Drafts \subseteq BotRows
    BY DEF BotRows, Statuses
  <2> QED BY <2>1, <2>2
<1>1. bot \in [Bots -> BotRows]
  <2>1. bot \in [Bots -> {Absent} \cup Drafts]
    BY DEF Init
  <2> HIDE DEF Drafts
  <2> QED BY <1>0, <2>1
<1>2. worker = [w \in Workers |-> worker[w]] /\ \A w \in Workers : worker[w] = Resting
  BY DEF Init
<1>3. late \in [Bots -> [Workers -> Nat]] /\ \A b \in Bots, w \in Workers : late[b][w] = 0
  BY DEF Init
<1>4. requests = {} /\ review = {}
  BY DEF Init
<1> QED BY <1>1, <1>2, <1>3, <1>4
    DEF IInv, ControlTypeOK, HandsAreListed, CreationsAreAlone, ListsAreFresh,
        StoppedBotsWindDown, Resting

(* The checks of a request: only create needs a bot that is not there.      *)
LEMMA AcceptStep ==
  ASSUME IInv, NEW r \in Requests, Accept(r),
         \/ Exists(r.bot) /\ r.op # "create"
         \/ bot[r.bot].status = "NONE" /\ \A q \in requests : q.bot # r.bot
  PROVE  IInv'
<1>1. UNCHANGED <<bot, late, worker, review>> /\ requests' = requests \cup {r}
  BY DEF Accept, NotUsers
<1>2. ControlTypeOK' /\ HandsAreListed' /\ CountsKept /\ ListsShrink
  BY <1>1, SameBots, SameWorkers DEF IInv, ControlTypeOK
<1>3. CreationsAreAlone'
  <2> SUFFICES ASSUME NEW c \in requests', c.op = "create"
               PROVE  /\ bot[c.bot].status = "NONE"
                      /\ \A q \in requests' : q.bot = c.bot => q = c
    BY <1>1 DEF CreationsAreAlone
  <2>1. CASE c = r
    BY <1>1, <2>1 DEF Exists
  <2>2. CASE c \in requests
    <3>1. bot[c.bot].status = "NONE" /\ \A q \in requests : q.bot = c.bot => q = c
      BY <2>2 DEF IInv, CreationsAreAlone
    <3>2. r.bot # c.bot
      BY <2>2, <3>1 DEF Exists
    <3> QED BY <1>1, <3>1, <3>2
  <2> QED BY <1>1, <2>1, <2>2
<1> QED BY <1>2, <1>3, FreshKept DEF IInv

LEMMA WriteStep ==
  ASSUME IInv, NEW r \in requests, Write(r)
  PROVE  IInv'
<1>1. r \in Requests /\ r.bot \in Bots
  BY DEF IInv, ControlTypeOK, Requests
<1>2. requests' = requests \ {r} /\ UNCHANGED <<worker, review>>
  BY DEF Write
<1>3. /\ requests' \subseteq Requests
      /\ worker' = [w \in Workers |-> worker'[w]]
      /\ \A w \in Workers : worker'[w].queue \subseteq Bots
      /\ review' \subseteq [bot : Bots, limit : Limits]
      /\ HandsAreListed' /\ ListsShrink
  BY <1>2, SameWorkers DEF IInv, ControlTypeOK
<1>4. CASE /\ r.op = "create" /\ UNCHANGED late
           /\ bot' = [bot EXCEPT ![r.bot] =
                        [status |-> "DRAFT", paper |-> r.paper, limit |-> r.limit]]
  <2>1. /\ bot[r.bot].status = "NONE"
        /\ \A q \in requests : q.bot = r.bot => q = r
    BY <1>4 DEF IInv, CreationsAreAlone
  <2>2. r.paper \in BOOLEAN /\ r.limit \in Limits \cup {NoLimit}
    BY <1>1, <1>4 DEF Requests
  <2>3. [status |-> "DRAFT", paper |-> r.paper, limit |-> r.limit] \in BotRows
    BY <2>2 DEF BotRows, Statuses
  <2>4. /\ bot' \in [Bots -> BotRows]
        /\ bot'[r.bot].status = "DRAFT"
        /\ \A c \in Bots \ {r.bot} : bot'[c] = bot[c]
    BY <1>1, <1>4, <2>3 DEF IInv, ControlTypeOK
  <2>5. CountsKept
    BY <1>4, <2>1, <2>4 DEF CountsKept, Running
  <2>6. CreationsAreAlone'
    BY <1>2, <1>3, <2>1, <2>4 DEF IInv, CreationsAreAlone, Requests
  <2>7. ControlTypeOK'
    BY <1>3, <1>4, <2>4 DEF IInv, ControlTypeOK
  <2> QED BY <1>3, <2>5, <2>6, <2>7, FreshKept DEF IInv
<1>5. CASE /\ r.op = "update" /\ Exists(r.bot) /\ UNCHANGED late
           /\ bot' = [bot EXCEPT ![r.bot].paper = r.paper, ![r.bot].limit = r.limit]
  <2>1. r.paper \in BOOLEAN /\ r.limit \in Limits \cup {NoLimit} /\ bot[r.bot] \in BotRows
    BY <1>1, <1>5 DEF Requests, IInv, ControlTypeOK
  <2> DEFINE row == [[bot[r.bot] EXCEPT !.paper = r.paper] EXCEPT !.limit = r.limit]
  <2>2. row \in BotRows /\ row.status = bot[r.bot].status
    BY <2>1 DEF BotRows
  <2>3. bot' = [bot EXCEPT ![r.bot] = row]
    BY <1>1, <1>5 DEF IInv, ControlTypeOK
  <2>4. /\ bot' \in [Bots -> BotRows]
        /\ \A c \in Bots : bot'[c].status = bot[c].status
    BY <1>1, <2>2, <2>3 DEF IInv, ControlTypeOK
  <2>5. CountsKept
    BY <1>5, <2>4 DEF CountsKept, Running
  <2>6. AbsentStay
    BY <1>2, <2>4 DEF AbsentStay
  <2>7. ControlTypeOK'
    BY <1>3, <1>5, <2>4 DEF IInv, ControlTypeOK
  <2> QED BY <1>3, <2>5, <2>6, <2>7, QuietStep
<1>6. CASE r.op = "remove" /\ Exists(r.bot) /\ Ended(r.bot, "DELETED")
  <2>1. /\ bot' \in [Bots -> BotRows] /\ late' \in [Bots -> [Workers -> Nat]]
        /\ CountsKept
        /\ \A c \in Bots \ {r.bot} : bot'[c] = bot[c]
    BY <1>1, <1>6, EndedStep DEF Statuses
  <2>2. AbsentStay
    BY <1>2, <1>6, <2>1 DEF AbsentStay, Exists
  <2> QED BY <1>3, <2>1, <2>2, QuietStep DEF ControlTypeOK
<1>7. CASE UNCHANGED <<bot, late>>
  <2>1. AbsentStay
    BY <1>2, <1>7 DEF AbsentStay
  <2> QED BY <1>3, <1>7, <2>1, SameBots, QuietStep DEF ControlTypeOK
<1> QED BY <1>4, <1>5, <1>6, <1>7 DEF Write

LEMMA SetStatusStep ==
  ASSUME IInv, NEW b \in Bots, NEW status \in {"RUNNING", "PAUSED", "STOPPED"},
         setStatus(b, status)
  PROVE  IInv'
<1>1. UNCHANGED <<requests, worker, review>> /\ Exists(b) /\ status \in Statuses
  BY DEF setStatus, NotUsers, Statuses
<1>2. /\ bot' \in [Bots -> BotRows] /\ late' \in [Bots -> [Workers -> Nat]]
      /\ CountsKept
      /\ \A c \in Bots \ {b} : bot'[c] = bot[c]
  <2>1. CASE Ended(b, status) /\ status # "RUNNING"
    BY <1>1, <2>1, EndedStep
  <2>2. CASE /\ bot' = [bot EXCEPT ![b].status = status] /\ UNCHANGED late
             /\ status = "RUNNING" \/ ~Running(b)
    BY <1>1, <2>2, StatusStep
  <2> QED BY <2>1, <2>2 DEF setStatus
<1>3. AbsentStay
  BY <1>1, <1>2 DEF AbsentStay, Exists
<1> QED BY <1>1, <1>2, <1>3, SameWorkers, QuietStep DEF IInv, ControlTypeOK

-----------------------------------------------------------------------------
(* A step that leaves the bots, the requests and the review alone.          *)
LEMMA OnlyWorkers ==
  ASSUME IInv, UNCHANGED <<bot, late, requests>>, review' \in {review, {}},
         worker' = [w \in Workers |-> worker'[w]],
         \A w \in Workers : worker'[w].queue \subseteq Bots,
         HandsAreListed', ListsShrink
  PROVE  IInv'
<1>1. AbsentStay
  BY DEF AbsentStay
<1> QED BY <1>1, SameBots, QuietStep DEF IInv, ControlTypeOK

(* A tick lists running bots only, and those owe nothing.                   *)
LEMMA TickStep ==
  ASSUME IInv, NEW w \in Workers, Tick(w)
  PROVE  IInv'
<1>1. PICK queue \in SUBSET RunningBots :
        worker' = [worker EXCEPT ![w] = [pc |-> "tick", queue |-> queue, hand |-> NoHand]]
  BY DEF Tick
<1>2. UNCHANGED <<bot, late, requests, review>>
  BY DEF Tick, users
<1>3. /\ worker' = [v \in Workers |-> worker'[v]]
      /\ worker'[w] = [pc |-> "tick", queue |-> queue, hand |-> NoHand]
      /\ \A v \in Workers \ {w} : worker'[v] = worker[v]
  BY <1>1 DEF IInv, ControlTypeOK
<1>4. ControlTypeOK'
  BY <1>2, <1>3 DEF IInv, ControlTypeOK, RunningBots
<1>5. HandsAreListed' /\ CreationsAreAlone' /\ StoppedBotsWindDown'
  BY <1>2, <1>3 DEF IInv, HandsAreListed, CreationsAreAlone, StoppedBotsWindDown, Running
<1>6. ListsAreFresh'
  BY <1>2, <1>3 DEF IInv, ListsAreFresh, ToCome, Running, RunningBots
<1> QED BY <1>4, <1>5, <1>6 DEF IInv

LEMMA RunBotStep ==
  ASSUME IInv, NEW w \in Workers, NEW b \in Bots, RunBot(w, b)
  PROVE  IInv'
<1>1. worker[w].pc = "tick" /\ b \in worker[w].queue /\ UNCHANGED <<requests, review>>
  BY DEF RunBot, NotRun
<1>2. CASE RunEnds(w, b) \/ RunFails(w, b)
  BY <1>1, <1>2, RunOver
<1>3. CASE /\ UNCHANGED <<bot, late>>
           /\ \E choice : worker' = [worker EXCEPT ![w] =
                 [pc |-> "place", queue |-> worker[w].queue,
                  hand |-> [bot |-> b, bar |-> bar, side |-> choice.side, qty |-> choice.qty]]]
  <2>1. PICK choice : worker' = [worker EXCEPT ![w] =
                 [pc |-> "place", queue |-> worker[w].queue,
                  hand |-> [bot |-> b, bar |-> bar, side |-> choice.side, qty |-> choice.qty]]]
    BY <1>3
  <2>2. /\ worker' = [v \in Workers |-> worker'[v]]
        /\ worker'[w].pc = "place" /\ worker'[w].queue = worker[w].queue
        /\ worker'[w].hand.bot = b
        /\ \A v \in Workers \ {w} : worker'[v] = worker[v]
    BY <2>1 DEF IInv, ControlTypeOK
  <2>3. \A v \in Workers : worker'[v].queue \subseteq Bots
    BY <2>2 DEF IInv, ControlTypeOK
  <2>4. HandsAreListed' /\ ListsShrink
    BY <1>1, <2>2 DEF IInv, HandsAreListed, ListsShrink, ToCome
  <2> QED BY <1>1, <1>3, <2>2, <2>3, <2>4, OnlyWorkers
<1> QED BY <1>2, <1>3 DEF RunBot

(* The one order a stopped bot may still get: its worker owed it nothing,   *)
(* and has it off its list from here on.                                    *)
LEMMA PlaceRowStep ==
  ASSUME IInv, NEW w \in Workers, PlaceRow(w)
  PROVE  IInv'
<1> DEFINE b == worker[w].hand.bot
<1>1. /\ worker[w].pc = "place" /\ CountLate(w, b)
      /\ UNCHANGED <<bot, requests, review>>
  BY DEF PlaceRow, NotRun
<1>2. b \in worker[w].queue /\ b \in Bots
  BY <1>1 DEF IInv, ControlTypeOK, HandsAreListed
<1>3. /\ worker' = [v \in Workers |-> worker'[v]]
      /\ \A v \in Workers : worker'[v].queue \subseteq Bots
      /\ HandsAreListed' /\ ListsShrink /\ b \notin ToCome(w)'
  <2>1. CASE NextBot(w, b)
    <3>1. /\ worker' = [v \in Workers |-> worker'[v]]
          /\ \A v \in Workers : worker'[v].queue \subseteq Bots
          /\ HandsAreListed' /\ ListsShrink
      BY <1>1, <1>2, <2>1, NextBotStep
    <3>2. b \notin ToCome(w)'
      BY <2>1 DEF IInv, ControlTypeOK, NextBot, ToCome, Resting
    <3> QED BY <3>1, <3>2
  <2>2. CASE worker' = [worker EXCEPT ![w] =
               [pc |-> "send", queue |-> worker[w].queue, hand |-> worker[w].hand]]
    <3>1. /\ worker' = [v \in Workers |-> worker'[v]]
          /\ worker'[w] = [pc |-> "send", queue |-> worker[w].queue, hand |-> worker[w].hand]
          /\ \A v \in Workers \ {w} : worker'[v] = worker[v]
      BY <2>2 DEF IInv, ControlTypeOK
    <3>2. \A v \in Workers : worker'[v].queue \subseteq Bots
      BY <3>1 DEF IInv, ControlTypeOK
    <3>3. HandsAreListed'
      BY <1>1, <3>1 DEF IInv, HandsAreListed
    <3>4. ToCome(w) = worker[w].queue /\ ToCome(w)' = worker[w].queue \ {b}
      BY <1>1, <3>1 DEF ToCome
    <3>5. ListsShrink
      BY <3>1, <3>4 DEF ListsShrink, ToCome
    <3> QED BY <3>1, <3>2, <3>3, <3>4, <3>5
  <2> QED BY <2>1, <2>2 DEF PlaceRow
<1>4. CASE Running(b)
  <2>1. UNCHANGED late
    BY <1>1, <1>4 DEF CountLate
  <2> QED BY <1>1, <1>3, <2>1, OnlyWorkers
<1>5. CASE ~Running(b)
  <2>1. late' = [late EXCEPT ![b] = [late[b] EXCEPT ![w] = @ + 1]]
    BY <1>1, <1>2, <1>5 DEF CountLate
  <2>2. late[b] \in [Workers -> Nat] /\ late[b][w] = 0
    BY <1>1, <1>2, <1>5 DEF IInv, ControlTypeOK, ListsAreFresh, ToCome
  <2>3. [late[b] EXCEPT ![w] = @ + 1] \in [Workers -> Nat]
    BY <2>2
  <2>4. /\ late' \in [Bots -> [Workers -> Nat]]
        /\ late'[b][w] = 1
        /\ \A v \in Workers \ {w} : late'[b][v] = late[b][v]
        /\ \A c \in Bots \ {b} : late'[c] = late[c]
    BY <1>2, <2>1, <2>2, <2>3 DEF IInv, ControlTypeOK
  <2>5. ControlTypeOK' /\ CreationsAreAlone'
    BY <1>1, <1>3, <2>4 DEF IInv, ControlTypeOK, CreationsAreAlone
  <2>6. StoppedBotsWindDown'
    BY <1>1, <2>4 DEF IInv, StoppedBotsWindDown, Running
  <2>7. ListsAreFresh'
    BY <1>1, <1>3, <2>4 DEF IInv, ListsAreFresh, Running, ListsShrink
  <2> QED BY <1>3, <2>5, <2>6, <2>7 DEF IInv
<1> QED BY <1>4, <1>5

LEMMA EnforceStep ==
  ASSUME IInv, NEW r \in review, Enforce(r)
  PROVE  IInv'
<1>1. r.bot \in Bots
  BY DEF IInv, ControlTypeOK
<1>2. UNCHANGED <<requests, worker>> /\ review' \subseteq review
  BY DEF Enforce, NotReview
<1>3. CASE UNCHANGED <<bot, late>>
  <2>1. AbsentStay
    BY <1>2, <1>3 DEF AbsentStay
  <2> QED BY <1>2, <1>3, <2>1, SameBots, SameWorkers, QuietStep DEF IInv, ControlTypeOK
<1>4. CASE Exists(r.bot) /\ ~UNCHANGED <<bot, late>>
  <2>1. /\ bot' \in [Bots -> BotRows] /\ late' \in [Bots -> [Workers -> Nat]]
        /\ CountsKept
        /\ \A c \in Bots \ {r.bot} : bot'[c] = bot[c]
    <3>1. CASE Ended(r.bot, "STOPPED")
      BY <1>1, <3>1, EndedStep DEF Statuses
    <3>2. CASE ~Running(r.bot) /\ bot' = [bot EXCEPT ![r.bot].status = "STOPPED"] /\ UNCHANGED late
      BY <1>1, <3>2, StatusStep DEF Statuses
    <3> QED BY <1>4, <3>1, <3>2 DEF Enforce
  <2>2. AbsentStay
    BY <1>2, <1>4, <2>1 DEF AbsentStay, Exists
  <2> QED BY <1>2, <2>1, <2>2, SameWorkers, QuietStep DEF IInv, ControlTypeOK
<1> QED BY <1>3, <1>4 DEF Enforce

(* A restart drops lists and requests, which only helps.                    *)
LEMMA RestartStep ==
  ASSUME IInv, NEW w \in Workers, Restart(w)
  PROVE  IInv'
<1>1. /\ worker' = [worker EXCEPT ![w] = Resting]
      /\ UNCHANGED <<bot, late>>
      /\ review' \in {review, {}} /\ requests' \in {requests, {}}
  BY DEF Restart
<1>2. AbsentStay
  BY <1>1 DEF AbsentStay
<1> QED BY <1>1, <1>2, SameBots, WorkerRests, QuietStep DEF IInv, ControlTypeOK

-----------------------------------------------------------------------------
(* Together *)

LEMMA UserStep ==
  ASSUME IInv, UserNext
  PROVE  IInv'
<1>1. ASSUME NEW b \in Bots, NEW paper \in BOOLEAN, NEW limit \in Limits \cup {NoLimit},
             CheckCreate(b, paper, limit) \/ CheckUpdate(b, paper, limit)
      PROVE  IInv'
  <2>1. CASE CheckCreate(b, paper, limit)
    <3> DEFINE r == [op |-> "create", bot |-> b, paper |-> paper, limit |-> limit]
    <3>1. r \in Requests /\ r.bot = b
      BY DEF Requests
    <3>2. Accept(r) /\ bot[b].status = "NONE" /\ \A q \in requests : q.bot # b
      BY <2>1 DEF CheckCreate
    <3> HIDE DEF r
    <3> QED BY <3>1, <3>2, AcceptStep
  <2>2. CASE CheckUpdate(b, paper, limit)
    <3> DEFINE r == [op |-> "update", bot |-> b, paper |-> paper, limit |-> limit]
    <3>1. r \in Requests /\ r.bot = b /\ r.op # "create"
      BY DEF Requests
    <3>2. Accept(r) /\ Exists(b)
      BY <2>2 DEF CheckUpdate
    <3> HIDE DEF r
    <3> QED BY <3>1, <3>2, AcceptStep
  <2> QED BY <1>1, <2>1, <2>2
<1>2. ASSUME NEW b \in Bots, CheckRemove(b) PROVE IInv'
  <2> DEFINE r == [op |-> "remove", bot |-> b]
  <2>1. r \in Requests /\ r.bot = b /\ r.op # "create"
    BY DEF Requests
  <2>2. Accept(r) /\ Exists(b)
    BY <1>2 DEF CheckRemove
  <2> HIDE DEF r
  <2> QED BY <2>1, <2>2, AcceptStep
<1>3. ASSUME PauseTrading PROVE IInv'
  <2>1. UNCHANGED <<bot, requests, late, worker, review>>
    BY <1>3 DEF PauseTrading
  <2> QED BY <2>1, SameWorkers, OnlyWorkers
<1> QED BY <1>1, <1>2, <1>3, WriteStep, SetStatusStep DEF UserNext

LEMMA RunnerStepHolds ==
  ASSUME IInv, NEW w \in Workers, RunnerStep(w)
  PROVE  IInv'
<1>1. ASSUME worker[w].pc \in {"place", "send"}, UNCHANGED <<requests, review>>,
             RunEnds(w, worker[w].hand.bot) \/ RunFails(w, worker[w].hand.bot)
      PROVE  IInv'
  <2>1. worker[w].hand.bot \in Bots
    BY <1>1 DEF IInv, ControlTypeOK, HandsAreListed
  <2> QED BY <1>1, <2>1, RunOver
<1>2. CASE PlaceFails(w) \/ PlaceReplayed(w)
  BY <1>1, <1>2 DEF PlaceFails, PlaceReplayed, NotRun
<1>3. CASE Submit(w)
  BY <1>1, <1>3 DEF Submit, Answered, SendFails, Sent, NotRun
<1> QED BY <1>2, <1>3, RunBotStep, PlaceRowStep DEF RunnerStep

LEMMA ReconcilerStep ==
  ASSUME IInv, ReconcilerNext
  PROVE  IInv'
<1>1. ASSUME NEW i \in Rows, Reconcile(i) PROVE IInv'
  <2>1. UNCHANGED <<bot, late, requests, worker, review>>
    BY <1>1 DEF Reconcile, users
  <2> QED BY <2>1, SameWorkers, OnlyWorkers
<1>2. ASSUME ReviewBots PROVE IInv'
  <2>1. UNCHANGED <<bot, late, requests, worker>>
    BY <1>2 DEF ReviewBots, NotReview
  <2>2. \A b \in Bots : bot[b].limit \in Limits \cup {NoLimit}
    BY DEF IInv, ControlTypeOK, BotRows
  <2>3. review' \subseteq [bot : Bots, limit : Limits]
    BY <1>2, <2>2 DEF ReviewBots, RunningBots
  <2>4. AbsentStay
    BY <2>1 DEF AbsentStay
  <2> QED BY <2>1, <2>3, <2>4, SameBots, SameWorkers, QuietStep DEF IInv, ControlTypeOK
<1> QED BY <1>1, <1>2, EnforceStep DEF ReconcilerNext

LEMMA NextStep == IInv /\ [Next]_vars => IInv'
<1> SUFFICES ASSUME IInv, [Next]_vars PROVE IInv'
  OBVIOUS
<1>1. CASE UNCHANGED vars
  <2>1. UNCHANGED <<bot, late, requests, worker, review>>
    BY <1>1 DEF vars, users
  <2> QED BY <2>1, SameWorkers, OnlyWorkers
<1>2. CASE NextBar \/ \E i \in Rows : Trade(i)
  <2>1. UNCHANGED <<bot, late, requests, worker, review>>
    BY <1>2 DEF NextBar, Trade, users
  <2> QED BY <2>1, SameWorkers, OnlyWorkers
<1>3. CASE UserNext \/ ReconcilerNext
  BY <1>3, UserStep, ReconcilerStep
<1>4. CASE \E w \in Workers : Tick(w) \/ RunnerStep(w) \/ Restart(w)
  BY <1>4, TickStep, RunnerStepHolds, RestartStep
<1> QED BY <1>1, <1>2, <1>3, <1>4 DEF Next

(* The lists of the workers are always of bots that owe no order: runAll's  *)
(* snapshot, however stale, is worth one order per bot.                     *)
THEOREM Invariance == Spec => []IInv
<1> QED BY InitStep, NextStep, PTL DEF Spec

(* A bot that stopped running, by its user, by the loss limit, by failures  *)
(* or by being deleted, gets at most one more order from each worker, for   *)
(* any number of bots, workers and bars.                                    *)
THEOREM BotsWindDown == Spec => []StoppedBotsWindDown
<1>1. IInv => StoppedBotsWindDown
  BY DEF IInv
<1> QED BY <1>1, Invariance, PTL

-----------------------------------------------------------------------------
(* Induction and recursion over numbers *)

(* Every set of numbers has a least one.                                    *)
LEMMA Least ==
  ASSUME NEW T \in SUBSET Nat, T # {}
  PROVE  \E x \in T : \A y \in T : x <= y
<1> DEFINE U == {0 .. n : n \in T}
           R == StrictSubsetOrdering(Nat)
<1>1. U \subseteq FiniteSubsetsOf(Nat) /\ U # {}
  <2>1. \A n \in Nat : IsFiniteSet(0 .. n) /\ 0 .. n \in SUBSET Nat
    BY FS_Interval
  <2> QED BY <2>1 DEF FiniteSubsetsOf
<1>2. IsWellFoundedOn(R, FiniteSubsetsOf(Nat))
  BY FS_StrictSubsetOrderingWellFounded
<1> HIDE DEF U, R
<1>3. PICK s \in U : \A t \in U : <<t, s>> \notin R
  BY <1>1, <1>2, WFMin
<1>4. PICK x \in T : s = 0 .. x
  BY DEF U
<1>5. ASSUME NEW y \in T, y < x PROVE FALSE
  <2>1. 0 .. y \in U /\ 0 .. y \subseteq 0 .. x /\ x \in 0 .. x /\ x \notin 0 .. y
    BY <1>5 DEF U
  <2>2. <<0 .. y, 0 .. x>> \in R
    <3>1. 0 .. y \in SUBSET Nat /\ 0 .. x \in SUBSET Nat
      BY <1>5
    <3> QED BY <2>1, <3>1, Zenon DEF R, StrictSubsetOrdering
  <2> QED BY <2>1, <2>2, <1>3, <1>4
<1> QED BY <1>5

(* A set with 0 that has with a number the next one has them all.  Written  *)
(* about a set rather than a predicate, which no prover here could take.    *)
LEMMA Induction ==
  ASSUME NEW S, 0 \in S, \A n \in Nat : n \in S => n + 1 \in S
  PROVE  Nat \subseteq S
<1> SUFFICES ASSUME Nat \ S # {} PROVE FALSE
  OBVIOUS
<1>1. PICK x \in Nat \ S : \A y \in Nat \ S : x <= y
  BY Least
<1>2. x - 1 \in Nat /\ x - 1 \in S
  BY <1>1
<1> QED BY <1>1, <1>2

(* A function on 0 .. L that starts at base and goes on by step[n].          *)
Steps(L, V) == [1 .. L -> [V -> V]]
Follows(f, L, V, base, step) ==
    /\ f \in [0 .. L -> V]
    /\ f[0] = base
    /\ \A n \in 1 .. L : f[n] = step[n][f[n - 1]]

(* Such a function exists.                                                  *)
LEMMA Recursion ==
  ASSUME NEW L \in Nat, NEW V, NEW base \in V, NEW step \in Steps(L, V)
  PROVE  \E f : Follows(f, L, V, base, step)
<1> DEFINE S == {m \in Nat : m <= L => \E f : Follows(f, m, V, base, step)}
<1>1. 0 \in S
  <2> DEFINE f == [n \in 0 .. 0 |-> base]
  <2>1. f \in [0 .. 0 -> V] /\ f[0] = base /\ 1 .. 0 = {}
    OBVIOUS
  <2> QED BY <2>1 DEF Follows
<1>2. ASSUME NEW m \in Nat, m \in S PROVE m + 1 \in S
  <2> SUFFICES ASSUME m + 1 <= L PROVE \E f : Follows(f, m + 1, V, base, step)
    OBVIOUS
  <2>1. PICK f : Follows(f, m, V, base, step)
    BY <1>2
  <2> DEFINE g == [n \in 0 .. (m + 1) |-> IF n = m + 1 THEN step[m + 1][f[m]] ELSE f[n]]
  <2>2. f[m] \in V /\ m + 1 \in 1 .. L
    BY <2>1 DEF Follows
  <2>3. step[m + 1][f[m]] \in V
    BY <2>2 DEF Steps
  <2>4. g \in [0 .. (m + 1) -> V] /\ g[0] = base
    BY <2>1, <2>3 DEF Follows
  <2>5. ASSUME NEW n \in 1 .. (m + 1) PROVE g[n] = step[n][g[n - 1]]
    <3>1. g[n - 1] = f[n - 1]
      OBVIOUS
    <3>2. CASE n = m + 1
      BY <3>1, <3>2
    <3>3. CASE n \in 1 .. m
      <4>1. g[n] = f[n]
        BY <3>3
      <4> QED BY <2>1, <3>1, <3>3, <4>1 DEF Follows
    <3> QED BY <3>2, <3>3
  <2> HIDE DEF g
  <2> QED BY <2>4, <2>5 DEF Follows
<1>3. Nat \subseteq S
  <2> HIDE DEF S
  <2> QED BY <1>1, <1>2, Induction
<1> QED BY <1>3

(* Totals is what its definition says.                                      *)
LEMMA TotalsDef ==
  ASSUME NEW L \in Nat, NEW s \in [1 .. L -> Nat]
  PROVE  /\ Totals(s) \in [0 .. L -> Nat]
         /\ Totals(s)[0] = 0
         /\ \A n \in 1 .. L : Totals(s)[n] = Totals(s)[n - 1] + s[n]
<1> DEFINE D == {0} \cup DOMAIN s
           step == [n \in 1 .. L |-> [v \in Nat |-> v + s[n]]]
<1>1. D = 0 .. L
  OBVIOUS
<1>2. step \in Steps(L, Nat) /\ 0 \in Nat
  BY DEF Steps
<1>3. PICK f : Follows(f, L, Nat, 0, step)
  <2> HIDE DEF step
  <2> QED BY <1>2, Recursion
<1>4. f \in [0 .. L -> Nat] /\ f[0] = 0 /\ \A n \in 1 .. L : f[n] = f[n - 1] + s[n]
  <2>1. f \in [0 .. L -> Nat] /\ f[0] = 0
    BY <1>3 DEF Follows
  <2>2. ASSUME NEW n \in 1 .. L PROVE f[n] = f[n - 1] + s[n]
    <3>1. f[n - 1] \in Nat
      BY <2>1
    <3> QED BY <1>3, <3>1 DEF Follows
  <2> QED BY <2>1, <2>2
<1>5. f = [n \in D |-> IF n = 0 THEN 0 ELSE f[n - 1] + s[n]]
  BY <1>1, <1>4
<1>6. Totals(s) = [n \in D |-> IF n = 0 THEN 0 ELSE Totals(s)[n - 1] + s[n]]
  <2> HIDE DEF D
  <2> QED BY <1>5, Zenon DEF Totals, D
<1> DEFINE t == Totals(s)
<1>7. t[0] = 0 /\ \A n \in 1 .. L : t[n] = t[n - 1] + s[n]
  BY <1>1, <1>6
<1>8. t = [n \in 0 .. L |-> t[n]]
  BY <1>1, <1>6
<1> HIDE DEF t
<1> DEFINE S == {n \in Nat : n <= L => t[n] \in Nat}
<1>9. Nat \subseteq S
  <2>1. 0 \in S
    BY <1>7
  <2>2. ASSUME NEW n \in Nat, n \in S PROVE n + 1 \in S
    <3>1. CASE n + 1 <= L
      <4>1. n + 1 \in 1 .. L /\ n + 1 - 1 = n
        BY <3>1
      <4> QED BY <1>7, <2>2, <4>1
    <3> QED BY <3>1
  <2> HIDE DEF S
  <2> QED BY <2>1, <2>2, Induction
<1>10. t \in [0 .. L -> Nat]
  BY <1>8, <1>9
<1> QED BY <1>7, <1>10 DEF t

(* So are Positions and Profits.                                            *)
Lots == [quantity : Nat, cost : Int, gain : Int, unit : Int]
IsFill(x) == x.filled \in Nat /\ x.price \in Nat

(* A fill turns a position into a position.                                 *)
LEMMA FillKeepsLots ==
  ASSUME NEW p \in Lots, NEW x, IsFill(x)
  PROVE  AfterFill(p, x) \in Lots
<1>1. p.quantity \in Nat /\ p.cost \in Int /\ p.gain \in Int /\ p.unit \in Int
  BY DEF Lots
<1>2. x.filled \in Nat /\ x.price \in Nat
  BY DEF IsFill
<1>3. Bought(p, x) \in Lots
  <2>1. /\ p.quantity + x.filled \in Nat
        /\ p.cost + x.filled * x.price * p.unit \in Int
    BY <1>1, <1>2
  <2> QED BY <2>1 DEF Bought, Lots
<1>4. Sold(p, x) \in Lots
  <2>1. CASE p.quantity = 0
    <3>1. p.gain + x.filled * x.price * p.unit \in Int
      BY <1>1, <1>2
    <3> QED BY <2>1, <3>1 DEF Sold, Lots
  <2>2. CASE p.quantity # 0
    <3> DEFINE held == p.quantity
               sold == IF x.filled < held THEN x.filled ELSE held
    <3>1. sold \in Nat /\ held - sold \in Nat
      BY <1>1, <1>2
    <3>2. Sold(p, x) = [quantity |-> held - sold,
                        cost |-> p.cost * (held - sold),
                        gain |-> p.gain * held + (x.price * p.unit * held - p.cost) * sold,
                        unit |-> p.unit * held]
      BY <2>2 DEF Sold
    <3> HIDE DEF sold
    <3>3. held \in Int /\ sold \in Int
      BY <1>1, <3>1
    <3>4. /\ p.cost * (held - sold) \in Int
          /\ p.gain * held + (x.price * p.unit * held - p.cost) * sold \in Int
          /\ p.unit * held \in Int
      BY <1>1, <1>2, <3>3
    <3> HIDE DEF held
    <3> QED BY <3>1, <3>2, <3>4 DEF Lots
  <2> QED BY <2>1, <2>2
<1> QED BY <1>3, <1>4 DEF AfterFill

(* Positions is what its definition says: one fill after the other.         *)
LEMMA PositionsDef ==
  ASSUME NEW L \in Nat, NEW fills, DOMAIN fills = 1 .. L, \A i \in 1 .. L : IsFill(fills[i])
  PROVE  /\ Positions(fills) \in [0 .. L -> Lots]
         /\ Positions(fills)[0] = Flat
         /\ \A n \in 1 .. L :
               Positions(fills)[n] = AfterFill(Positions(fills)[n - 1], fills[n])
<1> DEFINE D == {0} \cup DOMAIN fills
           step == [n \in 1 .. L |-> [v \in Lots |-> AfterFill(v, fills[n])]]
<1>1. D = 0 .. L
  OBVIOUS
<1>2. step \in Steps(L, Lots)
  BY FillKeepsLots DEF Steps
<1>3. Flat \in Lots
  BY DEF Flat, Lots
<1>4. PICK f : Follows(f, L, Lots, Flat, step)
  <2> HIDE DEF step
  <2> QED BY <1>2, <1>3, Recursion
<1>5. /\ f \in [0 .. L -> Lots] /\ f[0] = Flat
      /\ \A n \in 1 .. L : f[n] = AfterFill(f[n - 1], fills[n])
  <2>1. f \in [0 .. L -> Lots] /\ f[0] = Flat
    BY <1>4 DEF Follows
  <2>2. ASSUME NEW n \in 1 .. L PROVE f[n] = AfterFill(f[n - 1], fills[n])
    <3>1. f[n - 1] \in Lots
      BY <2>1
    <3> QED BY <1>4, <3>1 DEF Follows
  <2> QED BY <2>1, <2>2
<1>6. f = [n \in D |-> IF n = 0 THEN Flat ELSE AfterFill(f[n - 1], fills[n])]
  BY <1>1, <1>5
<1> DEFINE t == Positions(fills)
<1>7. t = [n \in D |-> IF n = 0 THEN Flat ELSE AfterFill(t[n - 1], fills[n])]
  <2> HIDE DEF D
  <2> QED BY <1>6, Zenon DEF Positions, D
<1>8. t[0] = Flat /\ \A n \in 1 .. L : t[n] = AfterFill(t[n - 1], fills[n])
  <2> HIDE DEF D, t
  <2>1. 0 \in D /\ \A n \in 1 .. L : n \in D /\ n # 0
    BY <1>1
  <2> QED BY <1>7, <2>1
<1>9. t = [n \in 0 .. L |-> t[n]]
  BY <1>1, <1>7
<1> HIDE DEF t
<1> DEFINE S == {n \in Nat : n <= L => t[n] \in Lots}
<1>10. Nat \subseteq S
  <2>1. 0 \in S
    BY <1>3, <1>8
  <2>2. ASSUME NEW n \in Nat, n \in S PROVE n + 1 \in S
    <3>1. CASE n + 1 <= L
      <4>1. n + 1 \in 1 .. L /\ n + 1 - 1 = n
        BY <3>1
      <4> QED BY <1>8, <2>2, <4>1, FillKeepsLots
    <3> QED BY <3>1
  <2> HIDE DEF S
  <2> QED BY <2>1, <2>2, Induction
<1>11. t \in [0 .. L -> Lots]
  BY <1>9, <1>10
<1> QED BY <1>8, <1>11 DEF t

(* And so is Profits.                                                       *)
LEMMA ProfitsDef ==
  ASSUME NEW L \in Nat, NEW fills, DOMAIN fills = 1 .. L, \A i \in 1 .. L : IsFill(fills[i])
  PROVE  /\ Profits(fills) \in [0 .. L -> Int]
         /\ Profits(fills)[0] = 0
         /\ \A n \in 1 .. L :
               Profits(fills)[n] = AfterCash(Profits(fills)[n - 1], fills[n])
<1> DEFINE D == {0} \cup DOMAIN fills
           step == [n \in 1 .. L |-> [v \in Int |-> AfterCash(v, fills[n])]]
<1>0. ASSUME NEW v \in Int, NEW n \in 1 .. L PROVE AfterCash(v, fills[n]) \in Int
  <2>1. fills[n].filled \in Nat /\ fills[n].price \in Nat
    BY DEF IsFill
  <2> QED BY <2>1 DEF AfterCash
<1>1. D = 0 .. L
  OBVIOUS
<1>2. step \in Steps(L, Int) /\ 0 \in Int
  BY <1>0 DEF Steps
<1>3. PICK f : Follows(f, L, Int, 0, step)
  <2> HIDE DEF step
  <2> QED BY <1>2, Recursion
<1>4. /\ f \in [0 .. L -> Int] /\ f[0] = 0
      /\ \A n \in 1 .. L : f[n] = AfterCash(f[n - 1], fills[n])
  <2>1. f \in [0 .. L -> Int] /\ f[0] = 0
    BY <1>3 DEF Follows
  <2>2. ASSUME NEW n \in 1 .. L PROVE f[n] = AfterCash(f[n - 1], fills[n])
    <3>1. f[n - 1] \in Int
      BY <2>1
    <3> QED BY <1>3, <3>1 DEF Follows
  <2> QED BY <2>1, <2>2
<1>5. f = [n \in D |-> IF n = 0 THEN 0 ELSE AfterCash(f[n - 1], fills[n])]
  BY <1>1, <1>4
<1> DEFINE t == Profits(fills)
<1>6. t = [n \in D |-> IF n = 0 THEN 0 ELSE AfterCash(t[n - 1], fills[n])]
  <2> HIDE DEF D
  <2> QED BY <1>5, Zenon DEF Profits, D
<1>7. t[0] = 0 /\ \A n \in 1 .. L : t[n] = AfterCash(t[n - 1], fills[n])
  BY <1>1, <1>6
<1>8. t = [n \in 0 .. L |-> t[n]]
  BY <1>1, <1>6
<1> HIDE DEF t
<1> DEFINE S == {n \in Nat : n <= L => t[n] \in Int}
<1>9. Nat \subseteq S
  <2>1. 0 \in S
    BY <1>7
  <2>2. ASSUME NEW n \in Nat, n \in S PROVE n + 1 \in S
    <3>1. CASE n + 1 <= L
      <4>1. n + 1 \in 1 .. L /\ n + 1 - 1 = n
        BY <3>1
      <4>2. t[n] \in Int /\ t[n + 1] = AfterCash(t[n], fills[n + 1])
        BY <1>7, <2>2, <4>1
      <4>3. AfterCash(t[n], fills[n + 1]) \in Int
        BY <1>0, <4>1, <4>2
      <4> QED BY <4>2, <4>3
    <3> QED BY <3>1
  <2> HIDE DEF S
  <2> QED BY <2>1, <2>2, Induction
<1>10. t \in [0 .. L -> Int]
  BY <1>8, <1>9
<1> QED BY <1>7, <1>10 DEF t

(* Sums of more are more.                                                   *)
LEMMA TotalsGrow ==
  ASSUME NEW L \in Nat, NEW M \in Nat, NEW s \in [1 .. L -> Nat], NEW t \in [1 .. M -> Nat],
         NEW m \in Nat, m <= L, m <= M, \A i \in 1 .. m : s[i] <= t[i]
  PROVE  Totals(s)[m] <= Totals(t)[m]
<1> DEFINE f == Totals(s)
           g == Totals(t)
           S == {n \in Nat : n <= m => f[n] <= g[n]}
<1>1. /\ f \in [0 .. L -> Nat] /\ f[0] = 0 /\ \A n \in 1 .. L : f[n] = f[n - 1] + s[n]
      /\ g \in [0 .. M -> Nat] /\ g[0] = 0 /\ \A n \in 1 .. M : g[n] = g[n - 1] + t[n]
  BY TotalsDef
<1> HIDE DEF f, g
<1>2. 0 \in S
  BY <1>1
<1>3. ASSUME NEW n \in Nat, n \in S PROVE n + 1 \in S
  <2>1. CASE n + 1 <= m
    <3>1. /\ n + 1 \in 1 .. m /\ n + 1 \in 1 .. L /\ n + 1 \in 1 .. M /\ n + 1 - 1 = n
          /\ n \in 0 .. L /\ n \in 0 .. M
      BY <2>1
    <3>2. /\ f[n + 1] = f[n] + s[n + 1] /\ g[n + 1] = g[n] + t[n + 1]
          /\ f[n] \in Nat /\ g[n] \in Nat /\ s[n + 1] \in Nat /\ t[n + 1] \in Nat
          /\ s[n + 1] <= t[n + 1] /\ f[n] <= g[n]
      BY <1>1, <1>3, <3>1
    <3> QED BY <3>2
  <2> QED BY <2>1
<1>4. Nat \subseteq S
  <2> HIDE DEF S
  <2> QED BY <1>2, <1>3, Induction
<1> QED BY <1>4 DEF f, g

(* Sums of the same are the same.                                           *)
LEMMA TotalsAgree ==
  ASSUME NEW L \in Nat, NEW M \in Nat, NEW s \in [1 .. L -> Nat], NEW t \in [1 .. M -> Nat],
         NEW m \in Nat, m <= L, m <= M, \A i \in 1 .. m : s[i] = t[i]
  PROVE  Totals(s)[m] = Totals(t)[m]
<1>1. \A i \in 1 .. m : s[i] \in Nat /\ t[i] \in Nat /\ s[i] <= t[i] /\ t[i] <= s[i]
  OBVIOUS
<1>2. Totals(s)[m] <= Totals(t)[m] /\ Totals(t)[m] <= Totals(s)[m]
  BY <1>1, TotalsGrow
<1>3. Totals(s)[m] \in Nat /\ Totals(t)[m] \in Nat
  BY TotalsDef
<1> QED BY <1>2, <1>3

(* What a row and the exchange's view of it may become while the rows stay: *)
(* fills only grow, and neither a part-filled order that is closed nor an   *)
(* order of an earlier bar moves any more.                                  *)
RowGoesOn(row, truth, newRow, newTruth, old) ==
    /\ newRow.bot = row.bot /\ newRow.bar = row.bar /\ newRow.side = row.side
    /\ newRow.qty = row.qty /\ newRow.paper = row.paper
    /\ newRow.filled <= newRow.qty /\ newTruth.filled <= newRow.qty
    /\ FollowsTheBook(newRow, newTruth)
    /\ ~row.paper =>
          /\ row.filled <= newRow.filled
          /\ ~truth.open /\ truth.filled > 0 => newTruth = truth
          /\ old => newRow.filled = row.filled /\ newTruth = truth

Old(i) == orders[i].bot \in Bots \ lagged /\ orders[i].bar < bar

RowsGoOn ==
    /\ orders' \in Seq(OrderRows) /\ book' \in Seq(Truths)
    /\ Len(orders') = Len(orders) /\ Len(book') = Len(orders)
    /\ \A i \in Rows : RowGoesOn(orders[i], book[i], orders'[i], book'[i], Old(i))

(* A worker goes on as it was, or without a hand; what the others submit is *)
(* left to them; and no bot comes back.                                     *)
WorkersGoOn ==
    \A w \in Workers :
        \/ worker'[w] = worker[w]
        \/ /\ worker'[w] \in [pc : {"idle", "tick"}, queue : SUBSET Bots, hand : {NoHand}]
           /\ worker'[w].queue \subseteq worker[w].queue \cup RunningBots
SendersGoOn ==
    \A w \in Workers : worker'[w].pc = "send" =>
        \A i \in RowFor(worker[w].hand) : book'[i] = book[i]
BotsGoOn ==
    \A b \in Bots : /\ bot'[b].status = "NONE" => bot[b].status = "NONE"
                    /\ Exists(b)' => Exists(b) \/ bot[b].status = "NONE"

TradesGoOn == RowsGoOn /\ WorkersGoOn /\ SendersGoOn /\ BotsGoOn /\ UNCHANGED <<bar, price, lagged>>

-----------------------------------------------------------------------------
(* Types of the rows, and of what they say was filled and held *)

LEMMA RowTypes ==
  ASSUME TradeTypeOK
  PROVE  /\ Rows = 1 .. Len(orders) /\ Len(orders) \in Nat
         /\ DOMAIN book = Rows
         /\ \A i \in Rows : orders[i] \in OrderRows /\ book[i] \in Truths
  BY DEF TradeTypeOK, Rows

LEMMA FilledType ==
  ASSUME TradeTypeOK, NEW b, NEW side
  PROVE  Filled(b, side) \in [1 .. Len(orders) -> Nat]
  BY RowTypes DEF Filled, OrderRows

LEMMA HeldType ==
  ASSUME TradeTypeOK, NEW b, NEW n \in 0 .. Len(orders)
  PROVE  Held(b, n) \in Int
<1>1. Len(orders) \in Nat
  BY RowTypes
<1>2. \A side : Filled(b, side) \in [1 .. Len(orders) -> Nat]
  BY FilledType
<1>3. Totals(Filled(b, "BUY"))[n] \in Nat /\ Totals(Filled(b, "SELL"))[n] \in Nat
  BY <1>1, <1>2, TotalsDef
<1> QED BY <1>3 DEF Held

(* Who bought no less and sold no more holds no less.                       *)
LEMMA HeldGrows ==
  ASSUME TradeTypeOK, TradeTypeOK', NEW b, NEW n \in Nat, n <= Len(orders), n <= Len(orders'),
         \A i \in 1 .. n : /\ Filled(b, "BUY")[i] <= Filled(b, "BUY")'[i]
                           /\ Filled(b, "SELL")'[i] <= Filled(b, "SELL")[i]
  PROVE  Held(b, n) <= Held(b, n)' /\ Held(b, n) \in Int /\ Held(b, n)' \in Int
<1>1. Len(orders) \in Nat /\ Len(orders') \in Nat
  BY RowTypes DEF TradeTypeOK
<1>2. \A side : Filled(b, side) \in [1 .. Len(orders) -> Nat]
  BY FilledType
<1>3. \A side : Filled(b, side)' \in [1 .. Len(orders') -> Nat]
  <2>1. DOMAIN orders' = 1 .. Len(orders') /\ \A i \in DOMAIN orders' : orders'[i] \in OrderRows
    BY DEF TradeTypeOK
  <2>2. \A i \in DOMAIN orders' : orders'[i].filled \in Nat
    BY <2>1 DEF OrderRows
  <2>3. \A side : Filled(b, side)' =
            [i \in DOMAIN orders' |-> IF orders'[i].bot = b /\ orders'[i].side = side
                                       THEN orders'[i].filled ELSE 0]
    BY DEF Filled, Rows
  <2> QED BY <2>1, <2>2, <2>3
<1>4. n \in 0 .. Len(orders) /\ n \in 0 .. Len(orders')
  BY <1>1
<1>5. \A side : /\ Totals(Filled(b, side))[n] \in Nat
                /\ Totals(Filled(b, side)')[n] \in Nat
  BY <1>1, <1>2, <1>3, <1>4, TotalsDef
<1>6. Totals(Filled(b, "BUY"))[n] <= Totals(Filled(b, "BUY")')[n]
  BY <1>1, <1>2, <1>3, TotalsGrow
<1>7. Totals(Filled(b, "SELL")')[n] <= Totals(Filled(b, "SELL"))[n]
  BY <1>1, <1>2, <1>3, TotalsGrow
<1>8. Held(b, n)' = Totals(Filled(b, "BUY")')[n] - Totals(Filled(b, "SELL")')[n]
  BY DEF Held, Totals
<1>9. Held(b, n) = Totals(Filled(b, "BUY"))[n] - Totals(Filled(b, "SELL"))[n]
  BY DEF Held
<1> QED BY <1>5, <1>6, <1>7, <1>8, <1>9

-----------------------------------------------------------------------------
(* Steps that keep the rows *)

(* No row appears, or changes whose it is.                                  *)
LEMMA SameKeys ==
  ASSUME TradeTypeOK, RowsGoOn
  PROVE  /\ Rows' = Rows /\ Len(orders') = Len(orders)
         /\ \A i \in Rows : /\ orders'[i].bot = orders[i].bot /\ orders'[i].bar = orders[i].bar
                           /\ orders'[i].side = orders[i].side /\ orders'[i].qty = orders[i].qty
                           /\ orders'[i].paper = orders[i].paper
         /\ \A b : RowsOf(b)' = RowsOf(b)
         /\ \A hand : RowFor(hand)' = RowFor(hand)
<1>1. Rows' = Rows /\ Len(orders') = Len(orders)
  BY DEF TradeTypeOK, RowsGoOn, Rows
<1>2. \A i \in Rows : /\ orders'[i].bot = orders[i].bot /\ orders'[i].bar = orders[i].bar
                     /\ orders'[i].side = orders[i].side /\ orders'[i].qty = orders[i].qty
                     /\ orders'[i].paper = orders[i].paper
  BY DEF RowsGoOn, RowGoesOn
<1>3. \A b : RowsOf(b)' = RowsOf(b)
  BY <1>1, <1>2 DEF RowsOf
<1>4. \A hand : RowFor(hand)' = RowFor(hand)
  BY <1>1, <1>2 DEF RowFor
<1> QED BY <1>1, <1>2, <1>3, <1>4

LEMMA RowsKeepType ==
  ASSUME TradeTypeOK, RowsGoOn, WorkersGoOn, worker' = [w \in Workers |-> worker'[w]],
         UNCHANGED <<bar, price>>
  PROVE  TradeTypeOK' /\ RowsFollowTheBook'
<1>1. RowsFollowTheBook'
  BY SameKeys DEF RowsGoOn, RowGoesOn, RowsFollowTheBook
<1>2. \A i \in Rows' : orders'[i].filled <= orders'[i].qty /\ book'[i].filled <= orders'[i].qty
  BY SameKeys DEF RowsGoOn, RowGoesOn
<1>3. worker' \in [Workers -> [pc : {"idle", "tick", "place", "send"},
                               queue : SUBSET Bots, hand : Hands]]
  <2>1. ASSUME NEW w \in Workers
        PROVE  worker'[w] \in [pc : {"idle", "tick", "place", "send"},
                                queue : SUBSET Bots, hand : Hands]
    <3>1. NoHand \in Hands
      BY BarsAssumption DEF NoHand, Hands, Sides
    <3> QED BY <3>1 DEF WorkersGoOn, TradeTypeOK
  <2> QED BY <2>1
<1> QED BY <1>1, <1>2, <1>3 DEF RowsGoOn, TradeTypeOK

(* Once unclear, a bot stays so.                                            *)
LEMMA UnclearStays ==
  ASSUME TradeTypeOK, RowsFollowTheBook, RowsGoOn, UNCHANGED lagged, NEW b \in Bots, Unclear(b)
  PROVE  Unclear(b)'
<1>1. CASE PaperCounts(b)
  BY <1>1, SameKeys DEF PaperCounts, Unclear, RowsOf
<1>2. CASE PartFilled(b)
  <2>1. PICK i \in RowsOf(b) : /\ orders[i].state = "CANCELED" \/ ~book[i].open
                             /\ book[i].filled \in 1 .. orders[i].qty - 1
    BY <1>2 DEF PartFilled
  <2>2. i \in Rows /\ FollowsTheBook(orders[i], book[i])
        /\ RowGoesOn(orders[i], book[i], orders'[i], book'[i], Old(i))
    BY <2>1 DEF RowsOf, RowsFollowTheBook, RowsGoOn
  <2>3. CASE orders[i].paper
    BY <1>1, <2>1, <2>3 DEF PaperCounts
  <2>4. CASE ~orders[i].paper
    <3>1. ~book[i].open /\ book[i].filled > 0
      BY <2>1, <2>2, <2>4 DEF FollowsTheBook
    <3>2. book'[i] = book[i]
      BY <2>2, <2>4, <3>1 DEF RowGoesOn
    <3>3. PartFilled(b)'
      BY <2>1, <2>2, <3>1, <3>2, SameKeys DEF PartFilled
    <3> QED BY <3>3 DEF Unclear
  <2> QED BY <2>3, <2>4
<1>3. CASE b \in lagged
  BY <1>3 DEF Unclear
<1> QED BY <1>1, <1>2, <1>3 DEF Unclear

(* The parts of TradeInv under a step that keeps the rows.                  *)
LEMMA DecisionsStayUnique ==
  ASSUME IInv, TradeInv, TradesGoOn
  PROVE  DecisionsAreUnique'
<1> USE DEF TradeInv, TradesGoOn
<1>1. ASSUME NEW i \in Rows', NEW j \in Rows',
             orders'[i].bot \in Bots, Alike(orders'[i], orders'[j])
      PROVE  i = j
  BY <1>1, SameKeys DEF DecisionsAreUnique, Alike
<1>2. ASSUME NEW w \in Workers, worker'[w].pc = "send"
      PROVE  /\ worker'[w] = worker[w]
             /\ \A b \in {worker[w].hand.bot} : Exists(b)' => RowFor(worker[w].hand) # {}
             /\ \A i \in RowFor(worker[w].hand) : ~orders'[i].paper /\ book'[i] = Unsent
  <2>1. worker'[w] = worker[w]
    BY <1>2 DEF WorkersGoOn
  <2> PICK b : b = worker[w].hand.bot
    OBVIOUS
  <2>2. b \in worker[w].queue /\ b \in Bots
    BY <1>2, <2>1 DEF IInv, ControlTypeOK, HandsAreListed
  <2>3. bot[b].status # "NONE"
    BY <2>2 DEF UnbornAreIdle
  <2>4. Exists(b)' => Exists(b)
    BY <2>2, <2>3 DEF BotsGoOn
  <2>5. \A i \in RowFor(worker[w].hand) : i \in Rows
    BY DEF RowFor
  <2> QED BY <1>2, <2>1, <2>4, <2>5, SameKeys DEF DecisionsAreUnique, SendersGoOn
<1>3. \A w \in Workers : RowFor(worker[w].hand)' = {i \in Rows' :
            /\ orders'[i].bot = worker'[w].hand.bot /\ orders'[i].bar = worker'[w].hand.bar
            /\ orders'[i].side = worker'[w].hand.side}
  BY DEF RowFor
<1>4. \A w \in Workers : worker'[w] = worker[w] => RowFor(worker[w].hand)' = RowFor(worker[w].hand)
  <2>1. ASSUME NEW w \in Workers, worker'[w] = worker[w]
        PROVE  RowFor(worker[w].hand)' = RowFor(worker[w].hand)
    BY <1>3, <2>1, SameKeys DEF RowFor
  <2> QED BY <2>1
<1>5. ASSUME NEW w \in Workers, worker'[w].pc = "send"
      PROVE  /\ (Exists(worker[w].hand.bot))' => RowFor(worker[w].hand)' # {}
             /\ \A i \in RowFor(worker[w].hand)' : ~orders'[i].paper /\ book'[i] = Unsent
             /\ \A v \in Workers : worker'[v].pc = "send" /\ Alike(worker'[v].hand, worker'[w].hand)
                                      => v = w
  <2>1. worker'[w] = worker[w]
    BY <1>2, <1>5
  <2>2. (Exists(worker[w].hand.bot))' <=> bot'[worker'[w].hand.bot].status \notin {"NONE", "DELETED"}
    BY DEF Exists
  <2>3. (Exists(worker[w].hand.bot))' => RowFor(worker[w].hand) # {}
    <3>1. PICK c : c = worker[w].hand.bot
      OBVIOUS
    <3>2. Exists(c)' => RowFor(worker[w].hand) # {}
      BY <1>2, <1>5, <3>1
    <3> QED BY <2>1, <2>2, <3>1, <3>2 DEF Exists
  <2>4. \A v \in Workers : worker'[v].pc = "send" => worker'[v] = worker[v]
    BY <1>2
  <2> QED BY <1>2, <1>4, <1>5, <2>1, <2>3, <2>4 DEF DecisionsAreUnique
<1> QED BY <1>1, <1>5 DEF DecisionsAreUnique

LEMMA UnbornStayIdle ==
  ASSUME TradeInv, TradesGoOn
  PROVE  UnbornAreIdle'
<1> SUFFICES ASSUME NEW b \in Bots, bot'[b].status = "NONE"
             PROVE  RowsOf(b)' = {} /\ \A w \in Workers : b \notin worker'[w].queue
  BY DEF UnbornAreIdle
<1>1. bot[b].status = "NONE"
  BY DEF TradesGoOn, BotsGoOn
<1>2. RowsOf(b) = {} /\ \A w \in Workers : b \notin worker[w].queue
  BY <1>1 DEF TradeInv, UnbornAreIdle
<1>3. b \notin RunningBots
  BY <1>1 DEF RunningBots, Running
<1> QED BY <1>2, <1>3, SameKeys DEF TradeInv, TradesGoOn, WorkersGoOn

LEMMA OldStayDone ==
  ASSUME TradeInv, TradesGoOn
  PROVE  OldOrdersAreDone'
<1> SUFFICES ASSUME NEW b \in Bots \ lagged
             PROVE  /\ \A w \in Workers : worker'[w].pc # "idle" /\ worker'[w].hand.bot = b
                                           => worker'[w].hand.bar = bar
                    /\ \A i \in RowsOf(b)' :
                          /\ orders'[i].bar <= bar
                          /\ orders'[i].bar < bar /\ ~orders'[i].paper
                                => ~book'[i].open /\ book'[i].filled = orders'[i].filled
                          /\ \A j \in RowsOf(b)' : j < i => orders'[j].bar <= orders'[i].bar
  BY DEF OldOrdersAreDone, TradesGoOn
<1>1. \A w \in Workers : worker'[w].pc # "idle" /\ worker'[w].hand.bot = b
                          => worker'[w].hand.bar = bar
  <2>1. NoHand.bot # b
    BY BotsAssumption DEF NoHand
  <2> QED BY <2>1 DEF TradeInv, OldOrdersAreDone, TradesGoOn, WorkersGoOn
<1>2. RowsOf(b)' = RowsOf(b) /\ RowsOf(b) \subseteq Rows
  BY SameKeys DEF TradeInv, TradesGoOn, RowsOf
<1>3. ASSUME NEW i \in RowsOf(b), orders[i].bar < bar, ~orders[i].paper
      PROVE  ~book'[i].open /\ book'[i].filled = orders'[i].filled
  <2>1. Old(i)
    BY <1>2, <1>3 DEF Old, RowsOf
  <2>2. RowGoesOn(orders[i], book[i], orders'[i], book'[i], Old(i))
    BY <1>2 DEF TradesGoOn, RowsGoOn
  <2>3. ~book[i].open /\ book[i].filled = orders[i].filled
    BY <1>3 DEF TradeInv, OldOrdersAreDone
  <2> QED BY <1>3, <2>1, <2>2, <2>3 DEF RowGoesOn
<1> QED BY <1>1, <1>2, <1>3, SameKeys DEF TradeInv, OldOrdersAreDone, TradesGoOn

(* For a bot that is clear the buys only add, and of its sells only the     *)
(* last can still move.                                                     *)
LEMMA HeldStays ==
  ASSUME TradeInv, TradesGoOn, TradeTypeOK', NEW b \in Bots, ~Unclear(b),
         NEW n \in 0 .. Len(orders),
         \A i \in RowsOf(b) : i <= n /\ orders[i].side = "SELL" => orders[i].bar < bar
  PROVE  Held(b, n) <= Held(b, n)' /\ Held(b, n) \in Int /\ Held(b, n)' \in Int
<1>1. ASSUME NEW i \in 1 .. n
      PROVE  /\ Filled(b, "BUY")[i] <= Filled(b, "BUY")'[i]
             /\ Filled(b, "SELL")'[i] <= Filled(b, "SELL")[i]
  <2>1. i \in Rows /\ i \in Rows' /\ orders[i] \in OrderRows /\ orders'[i] \in OrderRows
    BY RowTypes, SameKeys DEF TradeInv, TradesGoOn, RowsGoOn, TradeTypeOK
  <2>2. RowGoesOn(orders[i], book[i], orders'[i], book'[i], Old(i))
    BY <2>1 DEF TradesGoOn, RowsGoOn
  <2>3. orders[i].filled \in Nat /\ orders'[i].filled \in Nat
    BY <2>1 DEF OrderRows
  <2>4. \A side : /\ Filled(b, side)[i] = IF orders[i].bot = b /\ orders[i].side = side
                                           THEN orders[i].filled ELSE 0
                  /\ Filled(b, side)'[i] = IF orders'[i].bot = b /\ orders'[i].side = side
                                            THEN orders'[i].filled ELSE 0
    BY <2>1 DEF Filled
  <2>5. orders[i].bot = b => ~orders[i].paper
    BY <2>1 DEF Unclear, PaperCounts, RowsOf
  <2>6. orders[i].bot = b /\ orders[i].side = "SELL" => Old(i)
    BY <2>1 DEF Old, RowsOf, Unclear
  <2> QED BY <2>2, <2>3, <2>4, <2>5, <2>6 DEF RowGoesOn
<1>2. n <= Len(orders) /\ n <= Len(orders') /\ n \in Nat
  BY RowTypes, SameKeys DEF TradeInv, TradesGoOn
<1> QED BY <1>1, <1>2, HeldGrows DEF TradeInv

LEMMA SellsStayCovered ==
  ASSUME IInv, TradeInv, TradesGoOn, TradeTypeOK'
  PROVE  SellsAreCovered'
<1> SUFFICES ASSUME NEW b \in Bots, ~Unclear(b)'
             PROVE  /\ \A i \in RowsOf(b)' : orders'[i].side = "SELL" => orders'[i].qty <= Held(b, i - 1)'
                    /\ \A w \in Workers :
                          ExitToCome(w, b)' => worker'[w].hand.qty <= Held(b, Len(orders))'
  BY DEF SellsAreCovered
<1>1. ~Unclear(b) /\ b \notin lagged
  BY UnclearStays DEF TradeInv, TradesGoOn, Unclear
<1>2. RowsOf(b)' = RowsOf(b) /\ RowsOf(b) \subseteq Rows /\ Rows = 1 .. Len(orders) /\ Len(orders) \in Nat
  BY SameKeys, RowTypes DEF TradeInv, TradesGoOn, RowsOf
<1>3. \A i \in RowsOf(b) : orders[i].bar \in Nat /\ orders[i].bar <= bar /\ orders[i].qty \in Nat
  BY <1>1, <1>2, RowTypes DEF TradeInv, OldOrdersAreDone, OrderRows
<1>4. bar \in Nat
  BY DEF TradeInv, TradeTypeOK
<1>5. ASSUME NEW i \in RowsOf(b), orders[i].side = "SELL"
      PROVE  orders'[i].qty <= Held(b, i - 1)'
  <2>1. orders[i].qty <= Held(b, i - 1)
    BY <1>1, <1>5 DEF TradeInv, SellsAreCovered
  <2>2. ASSUME NEW j \in RowsOf(b), j <= i - 1, orders[j].side = "SELL"
        PROVE  orders[j].bar < bar
    <3>1. orders[j].bar <= orders[i].bar
      BY <1>1, <1>2, <2>2 DEF TradeInv, OldOrdersAreDone
    <3>2. orders[j].bar # orders[i].bar
      BY <1>2, <1>5, <2>2 DEF TradeInv, DecisionsAreUnique, Alike, RowsOf
    <3> QED BY <1>3, <1>4, <3>1, <3>2
  <2>3. i - 1 \in 0 .. Len(orders)
    BY <1>2
  <2>4. PICK n : n = i - 1
    OBVIOUS
  <2>5. Held(b, n) <= Held(b, n)' /\ Held(b, n) \in Int /\ Held(b, n)' \in Int
    BY <1>1, <2>2, <2>3, <2>4, HeldStays
  <2>6. orders'[i].qty = orders[i].qty
    BY <1>2, SameKeys DEF TradeInv, TradesGoOn
  <2> QED BY <1>3, <2>1, <2>4, <2>5, <2>6
<1>6. ASSUME NEW w \in Workers, ExitToCome(w, b)'
      PROVE  worker'[w].hand.qty <= Held(b, Len(orders))'
  <2>1. /\ worker'[w].pc = "place" /\ Exists(b)'
        /\ worker'[w].hand.bot = b /\ worker'[w].hand.side = "SELL"
        /\ RowFor(worker[w].hand)' = {}
    BY <1>6 DEF ExitToCome
  <2>2. worker'[w] = worker[w]
    BY <2>1 DEF TradesGoOn, WorkersGoOn
  <2>3. b \in worker[w].queue
    BY <2>1, <2>2 DEF IInv, HandsAreListed
  <2>4. Exists(b)
    BY <2>1, <2>3 DEF TradeInv, UnbornAreIdle, TradesGoOn, BotsGoOn
  <2>5. RowFor(worker[w].hand) = {}
    <3>1. PICK hand : hand = worker[w].hand
      OBVIOUS
    <3>2. RowFor(worker[w].hand)' = RowFor(hand)'
      BY <2>2, <3>1 DEF RowFor
    <3>3. RowFor(hand)' = RowFor(hand)
      BY SameKeys DEF TradeInv, TradesGoOn
    <3> QED BY <2>1, <3>1, <3>2, <3>3
  <2>6. worker[w].hand.qty <= Held(b, Len(orders))
    BY <1>1, <2>1, <2>2, <2>4, <2>5 DEF TradeInv, SellsAreCovered, ExitToCome
  <2>7. worker[w].hand.bar = bar
    BY <1>1, <2>1, <2>2 DEF TradeInv, OldOrdersAreDone
  <2>8. ASSUME NEW i \in RowsOf(b), orders[i].side = "SELL" PROVE orders[i].bar < bar
    <3>1. orders[i].bar # bar
      BY <2>1, <2>2, <2>5, <2>7, <2>8 DEF RowFor, RowsOf
    <3> QED BY <1>3, <1>4, <3>1
  <2>9. PICK n : n = Len(orders)
    OBVIOUS
  <2>10. Held(b, n) <= Held(b, n)' /\ Held(b, n) \in Int /\ Held(b, n)' \in Int
    BY <1>1, <1>2, <2>8, <2>9, HeldStays
  <2>11. worker[w].hand.qty \in Nat
    BY DEF TradeInv, TradeTypeOK, Hands
  <2>12. Held(b, Len(orders))' = Held(b, n)'
    BY <2>9, SameKeys DEF TradeInv, TradesGoOn
  <2> QED BY <2>2, <2>6, <2>9, <2>10, <2>11, <2>12
<1>7. \A i \in RowsOf(b) : orders'[i].side = orders[i].side
  BY <1>2, SameKeys DEF TradeInv, TradesGoOn
<1>8. \A i \in RowsOf(b)' : orders'[i].side = "SELL" => orders'[i].qty <= Held(b, i - 1)'
  BY <1>2, <1>5, <1>7
<1> QED BY <1>6, <1>8

LEMMA TradesStay ==
  ASSUME IInv, TradeInv, TradesGoOn, worker' = [w \in Workers |-> worker'[w]]
  PROVE  TradeInv'
<1>1. TradeTypeOK' /\ RowsFollowTheBook'
  BY RowsKeepType DEF TradeInv, TradesGoOn
<1> QED BY <1>1, DecisionsStayUnique, UnbornStayIdle, OldStayDone, SellsStayCovered DEF TradeInv

-----------------------------------------------------------------------------
(* What a step does to one row *)

LEMMA RowStays ==
  ASSUME NEW row \in OrderRows, NEW truth \in Truths, FollowsTheBook(row, truth),
         row.filled <= row.qty, truth.filled <= row.qty, NEW old
  PROVE  RowGoesOn(row, truth, row, truth, old)
  BY DEF RowGoesOn, OrderRows

(* A row that is written from the book follows it.                          *)
LEMMA OutcomeRow ==
  ASSUME NEW row \in OrderRows, NEW truth \in Truths, truth.filled <= row.qty, ~row.paper,
         truth.open => truth.filled < row.qty
  PROVE  /\ Outcome(row, truth) \in OrderRows
         /\ Outcome(row, truth).filled = truth.filled
         /\ Outcome(row, truth).bot = row.bot /\ Outcome(row, truth).bar = row.bar
         /\ Outcome(row, truth).side = row.side /\ Outcome(row, truth).qty = row.qty
         /\ ~Outcome(row, truth).paper
         /\ FollowsTheBook(Outcome(row, truth), truth)
<1> DEFINE s == IF truth = Unsent THEN "REJECTED"
                ELSE IF truth.filled = row.qty THEN "FILLED"
                ELSE IF ~truth.open THEN "CANCELED"
                ELSE IF truth.filled = 0 THEN "NEW"
                ELSE "PARTIALLY_FILLED"
           new == Outcome(row, truth)
<1>1. s \in OrderStates
  BY DEF OrderStates, OpenStates
<1>2. truth.filled \in Nat /\ truth.price \in FillPrices \cup {0}
  BY DEF Truths
<1>3. new = [row EXCEPT !.filled = truth.filled, !.price = truth.price, !.state = s]
  BY DEF Outcome
<1>4. /\ new \in OrderRows /\ new.state = s /\ new.filled = truth.filled
      /\ new.bot = row.bot /\ new.bar = row.bar /\ new.side = row.side
      /\ new.qty = row.qty /\ new.paper = row.paper
  <2> HIDE DEF s, new
  <2> QED BY <1>1, <1>2, <1>3 DEF OrderRows
<1>5. row.qty \in Nat
  BY DEF OrderRows
<1>6. truth = Unsent => truth.filled = 0 /\ ~truth.open
  BY DEF Unsent
<1>7. FollowsTheBook(new, truth)
  <2> HIDE DEF new
  <2> QED BY <1>2, <1>4, <1>5, <1>6 DEF FollowsTheBook, FillStates
<1> QED BY <1>4, <1>7

(* A row that is synced.                                                    *)
LEMMA RowResynced ==
  ASSUME NEW row \in OrderRows, NEW truth \in Truths, FollowsTheBook(row, truth),
         row.filled <= row.qty, truth.filled <= row.qty, ~row.paper,
         NEW old, old => truth.filled = row.filled
  PROVE  RowGoesOn(row, truth, Outcome(row, truth), truth, old)
<1>1. truth.open => truth.filled < row.qty
  BY DEF FollowsTheBook
<1>2. PICK new : new = Outcome(row, truth)
  OBVIOUS
<1>3. /\ new.filled = truth.filled /\ new.bot = row.bot /\ new.bar = row.bar
      /\ new.side = row.side /\ new.qty = row.qty /\ ~new.paper
      /\ FollowsTheBook(new, truth)
  BY <1>1, <1>2, OutcomeRow
<1>4. row.paper = FALSE /\ new.paper = FALSE
  <2>1. row.paper \in BOOLEAN /\ new.paper \in BOOLEAN
    BY <1>1, <1>2, OutcomeRow DEF OrderRows
  <2> QED BY <1>3, <2>1
<1>5. row.filled <= truth.filled
  BY DEF FollowsTheBook
<1> QED BY <1>2, <1>3, <1>4, <1>5 DEF RowGoesOn

(* The row of an order just sent, of which nothing was known.               *)
LEMMA TruthTypes ==
  ASSUME NEW q \in Nat, NEW truth \in Executions(q)
  PROVE  truth \in Truths /\ truth.filled <= q /\ (truth.open => truth.filled < q)
<1>1. CASE truth = Unsent
  BY <1>1 DEF Truths, Unsent
<1>2. CASE truth \in [open : {FALSE}, filled : {q}, price : FillPrices]
  <2>1. ~truth.open /\ truth.filled = q
    BY <1>2
  <2>2. [open : {FALSE}, filled : {q}, price : FillPrices] \subseteq Truths
    BY DEF Truths
  <2>3. truth \in Truths
    BY <1>2, <2>2, Zenon
  <2> QED BY <2>1, <2>3
<1>3. CASE truth \in [open : {TRUE}, filled : 0 .. q - 1, price : FillPrices]
  <2>1. truth.filled \in 0 .. q - 1
    BY <1>3
  <2>2. [open : {TRUE}, filled : 0 .. q - 1, price : FillPrices] \subseteq Truths
    <3>1. 0 .. q - 1 \subseteq Nat
      OBVIOUS
    <3> QED BY <3>1 DEF Truths
  <2>3. truth \in Truths
    BY <1>3, <2>2, Zenon
  <2> QED BY <2>1, <2>3
<1> QED BY <1>1, <1>2, <1>3 DEF Executions

LEMMA RowAnswered ==
  ASSUME NEW row \in OrderRows, FollowsTheBook(row, Unsent), ~row.paper,
         NEW truth \in Executions(row.qty), NEW old, ~old
  PROVE  RowGoesOn(row, Unsent, Outcome(row, truth), truth, old)
<1>1. row.qty \in Nat /\ row.filled \in Nat
  BY DEF OrderRows
<1>2. truth \in Truths /\ truth.filled <= row.qty /\ (truth.open => truth.filled < row.qty)
  BY <1>1, TruthTypes
<1>3. row.filled = 0 /\ truth.filled \in Nat
  BY <1>1, <1>2 DEF FollowsTheBook, Unsent, Truths
<1>4. PICK new : new = Outcome(row, truth)
  OBVIOUS
<1>5. /\ new.filled = truth.filled /\ new.bot = row.bot /\ new.bar = row.bar
      /\ new.side = row.side /\ new.qty = row.qty /\ ~new.paper
      /\ FollowsTheBook(new, truth) /\ new \in OrderRows
  BY <1>2, <1>4, OutcomeRow
<1>6. row.paper = FALSE /\ new.paper = FALSE
  BY <1>5 DEF OrderRows
<1>7. Unsent.filled = 0
  BY DEF Unsent
<1>8. /\ new.bot = row.bot /\ new.bar = row.bar /\ new.side = row.side
      /\ new.qty = row.qty /\ new.paper = row.paper
      /\ new.filled <= new.qty /\ truth.filled <= new.qty
      /\ row.filled <= new.filled
  <2>1. new.paper = row.paper
    BY <1>6, Zenon
  <2>2. new.filled <= new.qty /\ truth.filled <= new.qty /\ row.filled <= new.filled
    BY <1>1, <1>2, <1>3, <1>5
  <2> QED BY <1>5, <2>1, <2>2
<1> HIDE DEF Unsent
<1>9. RowGoesOn(row, Unsent, new, truth, old)
  BY <1>5, <1>7, <1>8 DEF RowGoesOn
<1> QED BY <1>4, <1>9

LEMMA RowUnanswered ==
  ASSUME NEW row \in OrderRows, FollowsTheBook(row, Unsent), ~row.paper,
         NEW truth \in Executions(row.qty), NEW old, ~old,
         NEW new \in OrderRows, new.filled = row.filled, new.qty = row.qty, new.paper = row.paper,
         new.bot = row.bot, new.bar = row.bar, new.side = row.side,
         new.state \in {row.state, "PENDING", "REJECTED"}
  PROVE  RowGoesOn(row, Unsent, new, truth, old)
<1>1. row.qty \in Nat /\ row.filled \in Nat
  BY DEF OrderRows
<1>2. truth \in Truths /\ truth.filled <= row.qty /\ (truth.open => truth.filled < row.qty)
  BY <1>1, TruthTypes
<1>3. row.filled = 0 /\ truth.filled \in Nat /\ row.state # "CANCELED"
  BY <1>1, <1>2 DEF FollowsTheBook, Unsent, Truths
<1>4. FollowsTheBook(new, truth)
  BY <1>1, <1>2, <1>3 DEF FollowsTheBook
<1> QED BY <1>1, <1>2, <1>3, <1>4 DEF RowGoesOn, Unsent

(* An order that trades on the exchange, or is closed there.                *)
LEMMA RowTraded ==
  ASSUME NEW row \in OrderRows, NEW truth \in Truths, FollowsTheBook(row, truth),
         row.filled <= row.qty, truth.filled <= row.qty,
         truth.open, NEW old, old => row.paper \/ ~truth.open,
         NEW new,
         \/ new = [[truth EXCEPT !.filled = truth.filled + 1]
                          EXCEPT !.open = truth.filled + 1 < row.qty]
         \/ new = [truth EXCEPT !.open = FALSE]
  PROVE  new \in Truths /\ RowGoesOn(row, truth, row, new, old)
<1>1. row.qty \in Nat /\ row.filled \in Nat /\ truth.filled \in Nat
  BY DEF OrderRows, Truths
<1>2. ~row.paper /\ row.filled <= truth.filled /\ truth.filled < row.qty /\ row.state # "CANCELED"
  BY DEF FollowsTheBook
<1>3. new \in Truths /\ new.filled \in {truth.filled, truth.filled + 1}
      /\ (new.open => new.filled < row.qty)
  <2>1. CASE new = [truth EXCEPT !.open = FALSE]
    BY <1>1, <1>2, <2>1 DEF Truths
  <2>2. CASE new = [[truth EXCEPT !.filled = truth.filled + 1]
                          EXCEPT !.open = truth.filled + 1 < row.qty]
    <3> DEFINE traded == [truth EXCEPT !.filled = truth.filled + 1]
    <3>1. truth.filled + 1 \in Nat
      BY <1>1
    <3>2. traded \in Truths /\ traded.filled = truth.filled + 1
      BY <3>1 DEF Truths
    <3>3. CASE truth.filled + 1 < row.qty
      <4>1. (truth.filled + 1 < row.qty) = TRUE
        BY <3>3
      <4>2. new = [traded EXCEPT !.open = TRUE]
        BY <2>2, <4>1
      <4> HIDE DEF traded
      <4> QED BY <3>2, <3>3, <4>2 DEF Truths
    <3>4. CASE ~(truth.filled + 1 < row.qty)
      <4>1. (truth.filled + 1 < row.qty) = FALSE
        BY <3>4
      <4>2. new = [traded EXCEPT !.open = FALSE]
        BY <2>2, <4>1
      <4> HIDE DEF traded
      <4> QED BY <3>2, <3>4, <4>2 DEF Truths
    <3> QED BY <3>3, <3>4
  <2> QED BY <2>1, <2>2
<1>4. FollowsTheBook(row, new)
  BY <1>1, <1>2, <1>3 DEF FollowsTheBook
<1> QED BY <1>1, <1>2, <1>3, <1>4 DEF RowGoesOn

-----------------------------------------------------------------------------
(* and to all of them *)

LEMMA RowsStay ==
  ASSUME TradeInv, UNCHANGED exchange
  PROVE  RowsGoOn /\ SendersGoOn
<1>1. orders' = orders /\ book' = book
  BY DEF exchange
<1>2. ASSUME NEW i \in Rows PROVE RowGoesOn(orders[i], book[i], orders'[i], book'[i], Old(i))
  <2>1. orders[i] \in OrderRows /\ book[i] \in Truths /\ FollowsTheBook(orders[i], book[i])
        /\ orders[i].filled <= orders[i].qty /\ book[i].filled <= orders[i].qty
    BY RowTypes DEF TradeInv, TradeTypeOK, RowsFollowTheBook
  <2> QED BY <1>1, <2>1, RowStays
<1>3. RowsGoOn
  BY <1>1, <1>2 DEF RowsGoOn, TradeInv, TradeTypeOK
<1> QED BY <1>1, <1>3 DEF SendersGoOn

LEMMA OneRowGoes ==
  ASSUME TradeInv, NEW i \in Rows, NEW new \in OrderRows, NEW truth \in Truths,
         orders' = [orders EXCEPT ![i] = new], book' = [book EXCEPT ![i] = truth],
         RowGoesOn(orders[i], book[i], new, truth, Old(i))
  PROVE  RowsGoOn
<1>1. /\ orders \in Seq(OrderRows) /\ book \in Seq(Truths) /\ Len(book) = Len(orders)
      /\ DOMAIN book = Rows /\ DOMAIN orders = Rows
  BY RowTypes DEF TradeInv, TradeTypeOK, Rows
<1>2. /\ orders' \in Seq(OrderRows) /\ book' \in Seq(Truths)
      /\ Len(orders') = Len(orders) /\ Len(book') = Len(orders)
  BY <1>1
<1>3. ASSUME NEW j \in Rows PROVE RowGoesOn(orders[j], book[j], orders'[j], book'[j], Old(j))
  <2>1. CASE j = i
    <3>1. orders'[j] = new /\ book'[j] = truth
      BY <1>1, <2>1
    <3> QED BY <2>1, <3>1
  <2>2. CASE j # i
    <3>1. orders[j] \in OrderRows /\ book[j] \in Truths /\ FollowsTheBook(orders[j], book[j])
          /\ orders[j].filled <= orders[j].qty /\ book[j].filled <= orders[j].qty
      BY RowTypes DEF TradeInv, TradeTypeOK, RowsFollowTheBook
    <3>2. orders'[j] = orders[j] /\ book'[j] = book[j]
      BY <1>1, <2>2
    <3> QED BY <3>1, <3>2, RowStays
  <2> QED BY <2>1, <2>2
<1> QED BY <1>2, <1>3 DEF RowsGoOn

(* A row of a state of TradeInv.                                            *)
LEMMA RowFacts ==
  ASSUME TradeInv, NEW i \in Rows
  PROVE  /\ orders[i] \in OrderRows /\ book[i] \in Truths
         /\ FollowsTheBook(orders[i], book[i])
         /\ orders[i].filled <= orders[i].qty /\ book[i].filled <= orders[i].qty
         /\ Old(i) /\ ~orders[i].paper => ~book[i].open /\ book[i].filled = orders[i].filled
<1>1. Old(i) /\ ~orders[i].paper => ~book[i].open /\ book[i].filled = orders[i].filled
  BY DEF TradeInv, OldOrdersAreDone, Old, RowsOf
<1> QED BY <1>1, RowTypes DEF TradeInv, TradeTypeOK, RowsFollowTheBook

LEMMA ResyncGoes ==
  ASSUME TradeInv, NEW i \in Rows, ~orders[i].paper,
         orders' = [orders EXCEPT ![i] = Outcome(@, book[i])], book' = book
  PROVE  RowsGoOn /\ SendersGoOn
<1>1. PICK row, truth, new, old : /\ row = orders[i] /\ truth = book[i]
                                  /\ new = Outcome(row, truth) /\ old = Old(i)
  OBVIOUS
<1>2. /\ row \in OrderRows /\ truth \in Truths /\ FollowsTheBook(row, truth)
      /\ row.filled <= row.qty /\ truth.filled <= row.qty /\ ~row.paper
      /\ old => truth.filled = row.filled
  BY <1>1, RowFacts
<1>3. RowGoesOn(row, truth, new, truth, old)
  BY <1>1, <1>2, RowResynced
<1>4. new \in OrderRows
  <2>1. truth.open => truth.filled < row.qty
    BY <1>2 DEF FollowsTheBook
  <2> QED BY <1>1, <1>2, <2>1, OutcomeRow
<1>5. orders' = [orders EXCEPT ![i] = new]
  BY <1>1
<1>6. book' = [book EXCEPT ![i] = truth]
  BY <1>1, RowTypes DEF TradeInv, TradeTypeOK
<1>7. RowGoesOn(orders[i], book[i], new, truth, Old(i))
  BY <1>1, <1>3
<1> QED BY <1>2, <1>4, <1>5, <1>6, <1>7, OneRowGoes DEF SendersGoOn

LEMMA TradeGoes ==
  ASSUME TradeInv, NEW i \in Rows, Trade(i)
  PROVE  RowsGoOn /\ SendersGoOn
<1>0. worker' = worker /\ orders' = orders /\ book[i].open
  BY DEF Trade
<1>1. PICK row, truth, old : row = orders[i] /\ truth = book[i] /\ old = Old(i)
  OBVIOUS
<1>2. /\ row \in OrderRows /\ truth \in Truths /\ FollowsTheBook(row, truth)
      /\ row.filled <= row.qty /\ truth.filled <= row.qty /\ truth.open
      /\ old => row.paper \/ ~truth.open
  BY <1>0, <1>1, RowFacts
<1>3. DOMAIN book = Rows /\ DOMAIN orders = Rows
  BY RowTypes DEF TradeInv, Rows
<1>4. PICK new : /\ book' = [book EXCEPT ![i] = new]
                 /\ \/ new = [[truth EXCEPT !.filled = truth.filled + 1]
                                     EXCEPT !.open = truth.filled + 1 < row.qty]
                    \/ new = [truth EXCEPT !.open = FALSE]
  <2>1. CASE book' = [book EXCEPT ![i].filled = @ + 1,
                                  ![i].open = book[i].filled + 1 < orders[i].qty]
    <3>1. book' = [book EXCEPT ![i] = [[truth EXCEPT !.filled = truth.filled + 1]
                                     EXCEPT !.open = truth.filled + 1 < row.qty]]
      BY <1>1, <1>3, <2>1
    <3> QED BY <3>1
  <2>2. CASE book' = [book EXCEPT ![i].open = FALSE]
    BY <1>1, <1>3, <2>2
  <2> QED BY <2>1, <2>2 DEF Trade
<1>5. new \in Truths /\ RowGoesOn(row, truth, row, new, old)
  BY <1>2, <1>4, RowTraded
<1>6. orders' = [orders EXCEPT ![i] = row]
  BY <1>0, <1>1, <1>3 DEF TradeInv, TradeTypeOK
<1>7. RowsGoOn
  BY <1>1, <1>2, <1>4, <1>5, <1>6, OneRowGoes
<1>8. \A w \in Workers : worker[w].pc = "send" => i \notin RowFor(worker[w].hand)
  BY <1>0 DEF TradeInv, DecisionsAreUnique, Unsent
<1>9. SendersGoOn
  BY <1>0, <1>3, <1>4, <1>8 DEF SendersGoOn
<1> QED BY <1>7, <1>9

(* The row of the order w is submitting.                                    *)
LEMMA SentGoes ==
  ASSUME TradeInv, NEW w \in Workers, worker[w].pc = "send", NEW i \in RowFor(worker[w].hand),
         worker[w].hand.bot \in Bots,
         NEW truth \in Executions(orders[i].qty), book' = [book EXCEPT ![i] = truth],
         \/ orders' = [orders EXCEPT ![i] = Outcome(@, truth)]
         \/ \E state \in {"PENDING", "REJECTED"} : orders' = [orders EXCEPT ![i].state = state]
         \/ orders' = orders,
         WorkersGoOn, worker'[w].pc # "send"
  PROVE  RowsGoOn /\ SendersGoOn
<1>0. i \in Rows /\ DOMAIN book = Rows /\ DOMAIN orders = Rows
  BY RowTypes DEF TradeInv, RowFor, Rows
<1>1. PICK row, old : row = orders[i] /\ old = Old(i)
  OBVIOUS
<1>2. row \in OrderRows /\ FollowsTheBook(row, Unsent) /\ ~row.paper /\ book[i] = Unsent
  BY <1>0, <1>1, RowFacts DEF TradeInv, DecisionsAreUnique
<1>3. ~old
  <2>1. ASSUME Old(i) PROVE FALSE
    <3>1. orders[i].bot \in Bots \ lagged /\ orders[i].bar < bar
      BY <2>1 DEF Old
    <3>2. worker[w].hand.bot = orders[i].bot /\ worker[w].hand.bar = orders[i].bar
      BY DEF RowFor
    <3>3. worker[w].hand.bar = bar
      BY <3>1, <3>2 DEF TradeInv, OldOrdersAreDone
    <3>4. bar \in Int
      BY DEF TradeInv, TradeTypeOK
    <3> QED BY <3>1, <3>2, <3>3, <3>4
  <2> QED BY <1>1, <2>1
<1>4. row.qty \in Nat /\ truth \in Executions(row.qty)
  BY <1>1, <1>2 DEF OrderRows
<1>5. truth \in Truths /\ truth.filled <= row.qty /\ (truth.open => truth.filled < row.qty)
  BY <1>4, TruthTypes
<1>6. PICK new \in OrderRows : /\ orders' = [orders EXCEPT ![i] = new]
                               /\ RowGoesOn(row, Unsent, new, truth, old)
  <2>1. CASE orders' = [orders EXCEPT ![i] = Outcome(@, truth)]
    <3>1. Outcome(row, truth) \in OrderRows /\ RowGoesOn(row, Unsent, Outcome(row, truth), truth, old)
      BY <1>2, <1>3, <1>4, <1>5, OutcomeRow, RowAnswered
    <3>2. orders' = [orders EXCEPT ![i] = Outcome(row, truth)]
      BY <1>1, <2>1
    <3> QED BY <3>1, <3>2
  <2>2. CASE \E state \in {"PENDING", "REJECTED"} : orders' = [orders EXCEPT ![i].state = state]
    <3>1. PICK state \in {"PENDING", "REJECTED"} : orders' = [orders EXCEPT ![i].state = state]
      BY <2>2
    <3>2. PICK new : new = [row EXCEPT !.state = state]
      OBVIOUS
    <3>3. state \in OrderStates
      BY DEF OrderStates, OpenStates
    <3>4. /\ new \in OrderRows /\ new.filled = row.filled /\ new.qty = row.qty /\ new.paper = row.paper
          /\ new.bot = row.bot /\ new.bar = row.bar /\ new.side = row.side
          /\ new.state = state
      BY <1>2, <3>2, <3>3 DEF OrderRows
    <3>5. new.state \in {row.state, "PENDING", "REJECTED"}
      BY <3>4
    <3>6. RowGoesOn(row, Unsent, new, truth, old)
      BY <1>2, <1>3, <1>4, <3>4, <3>5, RowUnanswered
    <3>7. orders' = [orders EXCEPT ![i] = new]
      BY <1>0, <1>1, <3>1, <3>2
    <3> QED BY <3>4, <3>6, <3>7
  <2>3. CASE orders' = orders
    <3>1. RowGoesOn(row, Unsent, row, truth, old)
      BY <1>2, <1>3, <1>4, RowUnanswered
    <3>2. orders' = [orders EXCEPT ![i] = row]
      BY <1>0, <1>1, <2>3 DEF TradeInv, TradeTypeOK
    <3> QED BY <1>2, <3>1, <3>2
  <2> QED BY <2>1, <2>2, <2>3
<1>7. RowGoesOn(orders[i], book[i], new, truth, Old(i))
  BY <1>1, <1>2, <1>6
<1>8. RowsGoOn
  BY <1>0, <1>5, <1>6, <1>7, OneRowGoes
<1>9. ASSUME NEW v \in Workers, worker'[v].pc = "send", NEW j \in RowFor(worker[v].hand)
      PROVE  book'[j] = book[j]
  <2>1. worker'[v] = worker[v] /\ v # w
    BY <1>9 DEF WorkersGoOn
  <2>2. ~Alike(worker[v].hand, worker[w].hand)
    BY <1>9, <2>1 DEF TradeInv, DecisionsAreUnique
  <2>3. j # i
    BY <2>2 DEF Alike, RowFor
  <2> QED BY <1>0, <2>3
<1> QED BY <1>8, <1>9 DEF SendersGoOn

-----------------------------------------------------------------------------
(* Actions that keep the rows *)

LEMMA BotsSame ==
  ASSUME bot' = bot
  PROVE  BotsGoOn
  BY DEF BotsGoOn, Exists

LEMMA BotsGo ==
  ASSUME IInv, NEW b \in Bots, Exists(b), NEW status \in Statuses \ {"NONE"},
         bot' = [bot EXCEPT ![b].status = status]
  PROVE  BotsGoOn
<1>1. bot[b] \in BotRows
  BY DEF IInv, ControlTypeOK
<1>2. bot' = [bot EXCEPT ![b] = [bot[b] EXCEPT !.status = status]]
  OBVIOUS
<1>3. [bot[b] EXCEPT !.status = status].status = status
  BY <1>1 DEF BotRows
<1>4. bot'[b].status = status /\ \A c \in Bots \ {b} : bot'[c] = bot[c]
  BY <1>2, <1>3 DEF IInv, ControlTypeOK
<1> QED BY <1>4 DEF BotsGoOn, Exists

LEMMA WorkersSame ==
  ASSUME worker' = worker
  PROVE  WorkersGoOn
  BY DEF WorkersGoOn

LEMMA WorkersGo ==
  ASSUME TradeInv, NEW w \in Workers,
         worker' = [worker EXCEPT ![w] = Resting] \/ \E b \in Bots : NextBot(w, b)
  PROVE  WorkersGoOn /\ worker'[w].pc # "send"
<1> DEFINE Free == [pc : {"idle", "tick"}, queue : SUBSET Bots, hand : {NoHand}]
<1>0. worker[w].queue \in SUBSET Bots /\ DOMAIN worker = Workers
  BY DEF TradeInv, TradeTypeOK
<1>1. PICK new \in Free : worker' = [worker EXCEPT ![w] = new] /\ new.queue \subseteq worker[w].queue
  <2>1. CASE worker' = [worker EXCEPT ![w] = Resting]
    <3>1. Resting \in Free /\ Resting.queue = {}
      BY DEF Resting
    <3> QED BY <2>1, <3>1
  <2>2. ASSUME NEW b \in Bots, NextBot(w, b)
        PROVE \E new \in Free : worker' = [worker EXCEPT ![w] = new] /\ new.queue \subseteq worker[w].queue
    <3> DEFINE rest == worker[w].queue \ {b}
               new == IF rest = {} THEN Resting ELSE [pc |-> "tick", queue |-> rest, hand |-> NoHand]
    <3>1. worker' = [worker EXCEPT ![w] = new]
      BY <2>2 DEF NextBot
    <3>2. new \in Free /\ new.queue \subseteq worker[w].queue
      BY <1>0 DEF Resting
    <3> HIDE DEF new, Free
    <3> QED BY <3>1, <3>2
  <2> QED BY <2>1, <2>2
<1>2. worker'[w] = new /\ \A v \in Workers \ {w} : worker'[v] = worker[v]
  BY <1>0, <1>1
<1>3. new.pc # "send"
  BY <1>1
<1>4. worker'[w] \in Free /\ worker'[w].queue \subseteq worker[w].queue \cup RunningBots
  <2> HIDE DEF Free
  <2> QED BY <1>1, <1>2
<1> QED BY <1>2, <1>3, <1>4 DEF WorkersGoOn

LEMMA RunOverGoes ==
  ASSUME IInv, TradeInv, NEW w \in Workers, NEW b \in Bots, RunEnds(w, b) \/ RunFails(w, b)
  PROVE  BotsGoOn /\ WorkersGoOn /\ worker'[w].pc # "send"
<1>1. WorkersGoOn /\ worker'[w].pc # "send"
  <2>1. worker' = [worker EXCEPT ![w] = Resting] \/ NextBot(w, b)
    BY DEF RunEnds, RunFails
  <2> QED BY <2>1, WorkersGo
<1>2. BotsGoOn
  <2>1. bot' = bot \/ (Exists(b) /\ bot' = [bot EXCEPT ![b].status = "ERROR"])
    BY DEF RunEnds, RunFails, Ended
  <2>2. "ERROR" \in Statuses \ {"NONE"}
    BY DEF Statuses
  <2> QED BY <2>1, <2>2, BotsSame, BotsGo
<1> QED BY <1>1, <1>2

LEMMA WorkersAreFunctions ==
  ASSUME IInv'
  PROVE  worker' = [w \in Workers |-> worker'[w]]
  BY DEF IInv, ControlTypeOK

LEMMA QuietUsers ==
  ASSUME IInv, IInv', TradeInv, UserNext,
         \A r \in requests : Write(r) => r.op # "remove" \/ ~Exists(r.bot)
  PROVE  TradeInv'
<1>1. UNCHANGED <<orders, book, worker, bar, price, lagged>> => RowsGoOn /\ SendersGoOn /\ WorkersGoOn
  BY RowsStay, WorkersSame DEF exchange
<1>2. ASSUME UNCHANGED <<orders, book, worker, bar, price, lagged>>, BotsGoOn
      PROVE  TradeInv'
  BY <1>1, <1>2, WorkersAreFunctions, TradesStay DEF TradesGoOn
<1>4. ASSUME NEW r \in requests, Write(r) PROVE TradeInv'
  <2>1. UNCHANGED <<orders, book, worker, bar, price, lagged>>
    BY <1>4 DEF Write, market
  <2>2. r \in Requests /\ r.bot \in Bots
    BY DEF IInv, ControlTypeOK, Requests
  <2>3. BotsGoOn
    <3>1. CASE bot' = bot
      BY <3>1, BotsSame
    <3>2. CASE /\ r.op = "create"
               /\ bot' = [bot EXCEPT ![r.bot] =
                            [status |-> "DRAFT", paper |-> r.paper, limit |-> r.limit]]
      <4>1. bot[r.bot].status = "NONE"
        BY <3>2 DEF IInv, CreationsAreAlone
      <4>2. bot'[r.bot].status = "DRAFT" /\ \A c \in Bots \ {r.bot} : bot'[c] = bot[c]
        BY <2>2, <3>2 DEF IInv, ControlTypeOK
      <4> QED BY <4>1, <4>2 DEF BotsGoOn, Exists
    <3>3. CASE bot' = [bot EXCEPT ![r.bot].paper = r.paper, ![r.bot].limit = r.limit]
      <4>1. bot[r.bot] \in BotRows
        BY <2>2 DEF IInv, ControlTypeOK
      <4> DEFINE row == [[bot[r.bot] EXCEPT !.paper = r.paper] EXCEPT !.limit = r.limit]
      <4>2. row.status = bot[r.bot].status
        BY <4>1 DEF BotRows
      <4>3. bot' = [bot EXCEPT ![r.bot] = row]
        BY <2>2, <3>3 DEF IInv, ControlTypeOK
      <4>4. \A c \in Bots : bot'[c].status = bot[c].status
        BY <2>2, <4>2, <4>3 DEF IInv, ControlTypeOK
      <4> QED BY <4>4 DEF BotsGoOn, Exists
    <3> QED BY <1>4, <3>1, <3>2, <3>3 DEF Write
  <2> QED BY <1>2, <2>1, <2>3
<1>5. ASSUME NEW b \in Bots, NEW status \in {"RUNNING", "PAUSED", "STOPPED"}, setStatus(b, status)
      PROVE  TradeInv'
  <2>1. UNCHANGED <<orders, book, worker, bar, price, lagged>> /\ Exists(b)
        /\ bot' = [bot EXCEPT ![b].status = status]
    BY <1>5 DEF setStatus, NotUsers, exchange, market, Ended
  <2>2. status \in Statuses \ {"NONE"}
    BY DEF Statuses
  <2> QED BY <1>2, <2>1, <2>2, BotsGo
<1>6. CASE \/ \E b \in Bots, paper \in BOOLEAN, limit \in Limits \cup {NoLimit} :
                 CheckCreate(b, paper, limit) \/ CheckUpdate(b, paper, limit)
           \/ \E b \in Bots : CheckRemove(b)
           \/ PauseTrading
  <2>1. UNCHANGED <<bot, orders, book, worker, bar, price, lagged>>
    BY <1>6 DEF CheckCreate, CheckUpdate, CheckRemove, Accept, NotUsers, PauseTrading, exchange, market
  <2> QED BY <1>2, <2>1, BotsSame
<1> QED BY <1>4, <1>5, <1>6 DEF UserNext

LEMMA QuietTick ==
  ASSUME IInv, IInv', TradeInv, NEW w \in Workers, Tick(w)
  PROVE  TradeInv'
<1>1. PICK queue \in SUBSET RunningBots :
        worker' = [worker EXCEPT ![w] = [pc |-> "tick", queue |-> queue, hand |-> NoHand]]
  BY DEF Tick
<1>2. UNCHANGED <<bot, exchange, bar, price, lagged>>
  BY DEF Tick, users, market
<1>3. queue \in SUBSET Bots /\ queue \subseteq RunningBots
  BY DEF RunningBots
<1>4. /\ worker'[w] = [pc |-> "tick", queue |-> queue, hand |-> NoHand]
      /\ \A v \in Workers \ {w} : worker'[v] = worker[v]
  BY <1>1 DEF TradeInv, TradeTypeOK
<1>5. WorkersGoOn
  BY <1>3, <1>4 DEF WorkersGoOn
<1> QED BY <1>2, <1>5, BotsSame, RowsStay, WorkersAreFunctions, TradesStay DEF TradesGoOn

(* The end of a runBot that leaves the rows alone, or re-reads one.         *)
LEMMA QuietRun ==
  ASSUME IInv, IInv', TradeInv, NEW w \in Workers, NEW b \in Bots, RunEnds(w, b) \/ RunFails(w, b),
         UNCHANGED <<bar, price, lagged>>, RowsGoOn /\ SendersGoOn
  PROVE  TradeInv'
  BY RunOverGoes, WorkersAreFunctions, TradesStay DEF TradesGoOn

LEMMA QuietReplay ==
  ASSUME IInv, IInv', TradeInv, NEW w \in Workers, PlaceReplayed(w)
  PROVE  TradeInv'
<1>1. PICK b \in Bots : b = worker[w].hand.bot
  BY DEF PlaceReplayed, IInv, ControlTypeOK, HandsAreListed
<1>2. RunEnds(w, b) /\ UNCHANGED <<bar, price, lagged, book>>
  BY <1>1 DEF PlaceReplayed, NotRun, market
<1>3. RowsGoOn /\ SendersGoOn
  <2>1. CASE orders' = orders
    BY <1>2, <2>1, RowsStay DEF exchange
  <2>2. CASE \E i \in RowFor(worker[w].hand) : /\ ~orders[i].paper
                                               /\ orders' = [orders EXCEPT ![i] = Outcome(@, book[i])]
    BY <1>2, <2>2, ResyncGoes DEF RowFor
  <2> QED BY <2>1, <2>2 DEF PlaceReplayed
<1> QED BY <1>2, <1>3, QuietRun

LEMMA QuietSubmit ==
  ASSUME IInv, IInv', TradeInv, NEW w \in Workers, Submit(w)
  PROVE  TradeInv'
<1>1. PICK i \in Rows : \E truth \in Executions(orders[i].qty) :
                           Answered(w, i, truth) \/ SendFails(w, i, truth)
  BY DEF Submit
<1>2. PICK truth \in Executions(orders[i].qty) : Answered(w, i, truth) \/ SendFails(w, i, truth)
  BY <1>1
<1>3. /\ worker[w].pc = "send" /\ i \in RowFor(worker[w].hand)
      /\ book' = [book EXCEPT ![i] = truth] /\ UNCHANGED <<bar, price, lagged>>
      /\ \/ orders' = [orders EXCEPT ![i] = Outcome(@, truth)]
         \/ \E state \in {"PENDING", "REJECTED"} : orders' = [orders EXCEPT ![i].state = state]
      /\ \/ RunEnds(w, worker[w].hand.bot)
         \/ RunFails(w, worker[w].hand.bot)
  BY <1>2 DEF Answered, SendFails, Sent, NotRun, market
<1>4. PICK b \in Bots : b = worker[w].hand.bot
  BY <1>3 DEF IInv, ControlTypeOK, HandsAreListed
<1>5. RunEnds(w, b) \/ RunFails(w, b)
  BY <1>3, <1>4
<1>6. WorkersGoOn /\ worker'[w].pc # "send"
  BY <1>5, RunOverGoes
<1>7. RowsGoOn /\ SendersGoOn
  BY <1>3, <1>4, <1>6, SentGoes
<1> QED BY <1>3, <1>5, <1>7, QuietRun

LEMMA QuietReconciler ==
  ASSUME IInv, IInv', TradeInv, ReconcilerNext
  PROVE  TradeInv'
<1>1. ASSUME NEW i \in Rows, Reconcile(i) PROVE TradeInv'
  <2>1. /\ UNCHANGED <<bot, worker, book, bar, price, lagged>> /\ ~orders[i].paper
        /\ orders' = [orders EXCEPT ![i] = Outcome(@, book[i])]
    BY <1>1 DEF Reconcile, users, market
  <2> QED BY <2>1, ResyncGoes, BotsSame, WorkersSame, WorkersAreFunctions, TradesStay DEF TradesGoOn
<1>2. ASSUME NEW r \in review, Enforce(r) PROVE TradeInv'
  <2>1. UNCHANGED <<worker, exchange, bar, price, lagged>> /\ r.bot \in Bots
    BY <1>2 DEF Enforce, NotReview, market, IInv, ControlTypeOK
  <2>2. bot' = bot \/ (Exists(r.bot) /\ bot' = [bot EXCEPT ![r.bot].status = "STOPPED"])
    BY <1>2 DEF Enforce, Ended
  <2>3. "STOPPED" \in Statuses \ {"NONE"}
    BY DEF Statuses
  <2>4. BotsGoOn
    BY <2>1, <2>2, <2>3, BotsSame, BotsGo
  <2> QED BY <2>1, <2>4, RowsStay, WorkersSame, WorkersAreFunctions, TradesStay DEF TradesGoOn
<1>3. ASSUME ReviewBots PROVE TradeInv'
  <2>1. UNCHANGED <<bot, worker, exchange, bar, price, lagged>>
    BY <1>3 DEF ReviewBots, NotReview, market
  <2> QED BY <2>1, BotsSame, RowsStay, WorkersSame, WorkersAreFunctions, TradesStay DEF TradesGoOn
<1> QED BY <1>1, <1>2, <1>3 DEF ReconcilerNext

LEMMA QuietRestart ==
  ASSUME IInv, IInv', TradeInv, NEW w \in Workers, Restart(w)
  PROVE  TradeInv'
<1>1. /\ worker' = [worker EXCEPT ![w] = Resting]
      /\ UNCHANGED <<bot, orders, bar, price, lagged>>
  BY DEF Restart, market
<1>2. WorkersGoOn /\ worker'[w].pc # "send"
  BY <1>1, WorkersGo
<1>3. RowsGoOn /\ SendersGoOn
  <2>1. CASE book' = book
    BY <1>1, <2>1, RowsStay DEF exchange
  <2>2. ASSUME worker[w].pc = "send", NEW i \in RowFor(worker[w].hand),
               NEW truth \in Executions(orders[i].qty), book' = [book EXCEPT ![i] = truth]
        PROVE  RowsGoOn /\ SendersGoOn
    <3>1. worker[w].hand.bot \in Bots
      BY <2>2 DEF IInv, ControlTypeOK, HandsAreListed
    <3> QED BY <1>1, <1>2, <2>2, <3>1, SentGoes
  <2> QED BY <2>1, <2>2 DEF Restart
<1> QED BY <1>1, <1>2, <1>3, BotsSame, WorkersAreFunctions, TradesStay DEF TradesGoOn

LEMMA QuietTrade ==
  ASSUME IInv, IInv', TradeInv, NEW i \in Rows, Trade(i)
  PROVE  TradeInv'
<1>1. UNCHANGED <<bot, worker, bar, price, lagged>>
  BY DEF Trade, users, market
<1> QED BY <1>1, TradeGoes, BotsSame, WorkersSame, WorkersAreFunctions, TradesStay DEF TradesGoOn

-----------------------------------------------------------------------------
(* A bar closes: its bots with an order under way are lagged from here on.  *)
LEMMA BarStep ==
  ASSUME IInv, TradeInv, NextBar
  PROVE  TradeInv'
<1>1. /\ bar' = bar + 1 /\ bar < MaxBar /\ price' \in Prices
      /\ lagged' = lagged \cup {b \in Bots : Underway(b)}
      /\ UNCHANGED <<bot, orders, book, worker>>
  BY DEF NextBar, users, exchange
<1>2. bar \in 1 .. MaxBar /\ MaxBar \in Nat
  BY BarsAssumption DEF TradeInv, TradeTypeOK
<1>3. Rows' = Rows /\ \A b : RowsOf(b)' = RowsOf(b)
  BY <1>1 DEF Rows, RowsOf
<1>4. TradeTypeOK' /\ RowsFollowTheBook'
  <2>1. bar' \in 1 .. MaxBar
    BY <1>1, <1>2
  <2> QED BY <1>1, <1>3, <2>1 DEF TradeInv, TradeTypeOK, RowsFollowTheBook
<1>5. DecisionsAreUnique' /\ UnbornAreIdle'
  BY <1>1, <1>3 DEF TradeInv, DecisionsAreUnique, UnbornAreIdle, RowFor, Rows, Exists
<1>6. OldOrdersAreDone'
  <2> SUFFICES ASSUME NEW b \in Bots, b \notin lagged'
               PROVE  /\ \A w \in Workers : worker[w].pc # "idle" /\ worker[w].hand.bot = b
                                            => worker[w].hand.bar = bar'
                      /\ \A i \in RowsOf(b) :
                            /\ orders[i].bar <= bar'
                            /\ orders[i].bar < bar' /\ ~orders[i].paper
                                  => ~book[i].open /\ book[i].filled = orders[i].filled
                            /\ \A j \in RowsOf(b) : j < i => orders[j].bar <= orders[i].bar
    BY <1>1, <1>3 DEF OldOrdersAreDone
  <2>1. b \notin lagged /\ ~Underway(b)
    BY <1>1
  <2>2. \A i \in RowsOf(b) : orders[i].bar \in Nat
    BY RowTypes DEF TradeInv, RowsOf, OrderRows
  <2> QED BY <1>1, <1>2, <2>1, <2>2 DEF Underway, TradeInv, OldOrdersAreDone
<1>7. SellsAreCovered'
  <2> SUFFICES ASSUME NEW b \in Bots, ~Unclear(b)'
               PROVE  /\ \A i \in RowsOf(b)' : orders'[i].side = "SELL" => orders'[i].qty <= Held(b, i - 1)'
                      /\ \A w \in Workers :
                            ExitToCome(w, b)' => worker'[w].hand.qty <= Held(b, Len(orders))'
    BY DEF SellsAreCovered
  <2>1. ~Unclear(b)
    BY <1>1, <1>3 DEF Unclear, PaperCounts, PartFilled
  <2>2. \A n : Held(b, n)' = Held(b, n)
    BY <1>1 DEF Held, Totals, Filled, Rows
  <2>3. \A w \in Workers : ExitToCome(w, b)' => ExitToCome(w, b)
    BY <1>1 DEF ExitToCome, RowFor, Rows, Exists
  <2>4. Held(b, Len(orders))' = Held(b, Len(orders))
    BY <1>1 DEF Held, Totals, Filled, Rows
  <2>5. \A i \in RowsOf(b)' : orders'[i].side = "SELL" => orders'[i].qty <= Held(b, i - 1)'
    BY <1>1, <1>3, <2>1, <2>2 DEF TradeInv, SellsAreCovered
  <2> QED BY <1>1, <2>1, <2>3, <2>4, <2>5 DEF TradeInv, SellsAreCovered
<1> QED BY <1>4, <1>5, <1>6, <1>7 DEF TradeInv

-----------------------------------------------------------------------------
(* A bot is deleted: its orders stay, without it.                           *)
LEMMA RemoveStep ==
  ASSUME IInv, TradeInv, NEW r \in requests, Write(r), r.op = "remove", Exists(r.bot)
  PROVE  TradeInv'
<1> USE DEF TradeInv
<1>0. r.bot \in Bots
  BY DEF IInv, ControlTypeOK, Requests
<1>1. PICK d \in Bots : d = r.bot
  BY <1>0
<1>2. /\ orders' = [i \in Rows |-> IF orders[i].bot = d
                                   THEN [orders[i] EXCEPT !.bot = NoBot] ELSE orders[i]]
      /\ bot' = [bot EXCEPT ![d].status = "DELETED"]
      /\ UNCHANGED <<book, worker, bar, price, lagged>>
  BY <1>1 DEF Write, Ended, market
<1>3. /\ bot'[d].status = "DELETED" /\ \A c \in Bots \ {d} : bot'[c] = bot[c]
  <2>1. bot[d] \in BotRows
    BY DEF IInv, ControlTypeOK
  <2>2. bot' = [bot EXCEPT ![d] = [bot[d] EXCEPT !.status = "DELETED"]]
    BY <1>2
  <2>3. [bot[d] EXCEPT !.status = "DELETED"].status = "DELETED"
    BY <2>1 DEF BotRows
  <2> QED BY <2>2, <2>3 DEF IInv, ControlTypeOK
<1>4. /\ Rows = 1 .. Len(orders) /\ Len(orders) \in Nat /\ DOMAIN book = Rows
      /\ \A i \in Rows : orders[i] \in OrderRows /\ book[i] \in Truths
  BY RowTypes
<1>5. ASSUME NEW i \in Rows
      PROVE  /\ orders'[i] \in OrderRows
             /\ orders'[i].bot = IF orders[i].bot = d THEN NoBot ELSE orders[i].bot
             /\ orders'[i].bar = orders[i].bar /\ orders'[i].side = orders[i].side
             /\ orders'[i].qty = orders[i].qty /\ orders'[i].paper = orders[i].paper
             /\ orders'[i].filled = orders[i].filled /\ orders'[i].state = orders[i].state
  <2>1. PICK row : row = orders[i]
    OBVIOUS
  <2>2. orders'[i] = IF row.bot = d THEN [row EXCEPT !.bot = NoBot] ELSE row
    BY <1>2, <2>1
  <2>3. row \in OrderRows
    BY <1>4, <2>1
  <2> QED BY <2>1, <2>2, <2>3 DEF OrderRows
<1>6. Rows' = Rows /\ orders' \in Seq(OrderRows) /\ Len(orders') = Len(orders)
  <2>1. orders' \in [1 .. Len(orders) -> OrderRows]
    BY <1>2, <1>4, <1>5
  <2>2. orders' \in Seq(OrderRows) /\ Len(orders') = Len(orders)
    BY <1>4, <2>1
  <2> QED BY <1>4, <2>1, <2>2 DEF Rows
<1>7. /\ RowsOf(d)' = {} /\ \A c \in Bots \ {d} : RowsOf(c)' = RowsOf(c)
  BY <1>5, <1>6, BotsAssumption DEF RowsOf
<1>8. TradeTypeOK' /\ RowsFollowTheBook'
  <2>1. RowsFollowTheBook'
    BY <1>2, <1>5, <1>6 DEF RowsFollowTheBook, FollowsTheBook
  <2>2. \A i \in Rows' : orders'[i].filled <= orders'[i].qty /\ book'[i].filled <= orders'[i].qty
    BY <1>2, <1>5, <1>6 DEF TradeTypeOK
  <2> QED BY <1>2, <1>6, <2>1, <2>2 DEF TradeTypeOK
<1>9. \A w \in Workers : worker[w].pc = "send" => worker[w].hand.bot \in Bots
  BY DEF IInv, ControlTypeOK, HandsAreListed
<1>10. ASSUME NEW w \in Workers
       PROVE  /\ worker[w].hand.bot \in Bots =>
                    RowFor(worker[w].hand)' \subseteq RowFor(worker[w].hand)
              /\ worker[w].hand.bot \in Bots \ {d} =>
                    RowFor(worker[w].hand)' = RowFor(worker[w].hand)
  <2>1. PICK h : h = worker[w].hand
    OBVIOUS
  <2>2. RowFor(worker[w].hand) = {i \in Rows : /\ orders[i].bot = h.bot /\ orders[i].bar = h.bar
                                              /\ orders[i].side = h.side}
    BY <2>1 DEF RowFor
  <2>3. RowFor(worker[w].hand)' = {i \in Rows' : /\ orders'[i].bot = h.bot /\ orders'[i].bar = h.bar
                                                /\ orders'[i].side = h.side}
    BY <1>2, <2>1 DEF RowFor
  <2> QED BY <1>5, <1>6, <2>1, <2>2, <2>3, BotsAssumption
<1>11. DecisionsAreUnique'
  <2>1. ASSUME NEW i \in Rows', NEW j \in Rows',
               orders'[i].bot \in Bots, Alike(orders'[i], orders'[j])
        PROVE  i = j
    BY <1>5, <1>6, <2>1, BotsAssumption DEF DecisionsAreUnique, Alike
  <2>2. ASSUME NEW w \in Workers, worker'[w].pc = "send"
        PROVE  /\ (Exists(worker[w].hand.bot))' => RowFor(worker[w].hand)' # {}
               /\ \A i \in RowFor(worker[w].hand)' : ~orders'[i].paper /\ book'[i] = Unsent
               /\ \A v \in Workers : worker'[v].pc = "send" /\ Alike(worker'[v].hand, worker'[w].hand)
                                        => v = w
    <3>1. worker[w].pc = "send" /\ worker[w].hand.bot \in Bots
      BY <1>2, <1>9, <2>2
    <3>2. \A i \in RowFor(worker[w].hand)' : ~orders'[i].paper /\ book'[i] = Unsent
      <4>1. RowFor(worker[w].hand)' \subseteq RowFor(worker[w].hand)
        BY <1>10, <3>1
      <4>2. RowFor(worker[w].hand) \subseteq Rows
        BY DEF RowFor
      <4> QED BY <1>2, <1>5, <3>1, <4>1, <4>2 DEF DecisionsAreUnique
    <3>3. (Exists(worker[w].hand.bot))' => RowFor(worker[w].hand)' # {}
      <4>1. (Exists(worker[w].hand.bot))' => worker[w].hand.bot # d /\ Exists(worker[w].hand.bot)
        BY <1>2, <1>3, <3>1 DEF Exists
      <4> QED BY <1>10, <3>1, <4>1 DEF DecisionsAreUnique
    <3> QED BY <1>2, <3>1, <3>2, <3>3 DEF DecisionsAreUnique
  <2> QED BY <2>1, <2>2 DEF DecisionsAreUnique
<1>12. UnbornAreIdle'
  BY <1>2, <1>3, <1>7 DEF UnbornAreIdle
<1>13. OldOrdersAreDone'
  <2> SUFFICES ASSUME NEW b \in Bots \ lagged
               PROVE  /\ \A w \in Workers : worker[w].pc # "idle" /\ worker[w].hand.bot = b
                                            => worker[w].hand.bar = bar
                      /\ \A i \in RowsOf(b)' :
                            /\ orders'[i].bar <= bar
                            /\ orders'[i].bar < bar /\ ~orders'[i].paper
                                  => ~book[i].open /\ book[i].filled = orders'[i].filled
                            /\ \A j \in RowsOf(b)' : j < i => orders'[j].bar <= orders'[i].bar
    BY <1>2 DEF OldOrdersAreDone
  <2>1. CASE b = d
    BY <1>7, <2>1 DEF OldOrdersAreDone
  <2>2. CASE b # d
    <3>1. RowsOf(b)' = RowsOf(b) /\ RowsOf(b) \subseteq Rows
      BY <1>7, <2>2 DEF RowsOf
    <3> QED BY <1>5, <3>1 DEF OldOrdersAreDone
  <2> QED BY <2>1, <2>2
<1>14. SellsAreCovered'
  <2> SUFFICES ASSUME NEW b \in Bots, ~Unclear(b)'
               PROVE  /\ \A i \in RowsOf(b)' : orders'[i].side = "SELL" => orders'[i].qty <= Held(b, i - 1)'
                      /\ \A w \in Workers :
                            ExitToCome(w, b)' => worker'[w].hand.qty <= Held(b, Len(orders))'
    BY DEF SellsAreCovered
  <2>1. CASE b = d
    BY <1>3, <1>7, <2>1 DEF ExitToCome, Exists
  <2>2. CASE b # d
    <3>1. RowsOf(b)' = RowsOf(b) /\ RowsOf(b) \subseteq Rows
      BY <1>7, <2>2 DEF RowsOf
    <3>2. ~Unclear(b)
      BY <1>2, <1>5, <3>1 DEF Unclear, PaperCounts, PartFilled
    <3>3. \A side : Filled(b, side)' = Filled(b, side)
      BY <1>5, <1>6, <2>2, BotsAssumption DEF Filled
    <3>4. \A n : Held(b, n)' = Held(b, n)
      <4>1. \A n : Held(b, n)' = Totals(Filled(b, "BUY")')[n] - Totals(Filled(b, "SELL")')[n]
        BY DEF Held, Totals
      <4> QED BY <3>3, <4>1 DEF Held
    <3>5. Held(b, Len(orders))' = Held(b, Len(orders))
      <4>1. PICK n : n = Len(orders)
        OBVIOUS
      <4>2. Held(b, Len(orders))' = Held(b, n)'
        BY <1>6, <4>1
      <4> QED BY <3>4, <4>1, <4>2
    <3>6. ASSUME NEW w \in Workers, ExitToCome(w, b)'
          PROVE  worker'[w].hand.qty <= Held(b, Len(orders))'
      <4>1. ExitToCome(w, b)
        BY <1>2, <1>3, <1>10, <2>2, <3>6 DEF ExitToCome, Exists
      <4> QED BY <1>2, <3>2, <3>5, <4>1 DEF SellsAreCovered
    <3>7. \A i \in RowsOf(b)' : orders'[i].side = "SELL" => orders'[i].qty <= Held(b, i - 1)'
      BY <1>5, <3>1, <3>2, <3>4 DEF SellsAreCovered
    <3> QED BY <3>6, <3>7
  <2> QED BY <2>1, <2>2
<1> QED BY <1>8, <1>11, <1>12, <1>13, <1>14

-----------------------------------------------------------------------------
(* What a bot that is clear holds is what its rows say.                     *)

LEMMA FillsType ==
  ASSUME TradeInv, NEW b
  PROVE  /\ DOMAIN Fills(b) = 1 .. Len(orders) /\ Len(Fills(b)) = Len(orders)
         /\ \A k \in 1 .. Len(orders) :
               /\ IsFill(Fills(b)[k])
               /\ Fills(b)[k].side = orders[k].side
               /\ Fills(b)[k].filled =
                     IF orders[k].bot = b /\ orders[k].state \in FillStates THEN orders[k].filled ELSE 0
<1>1. Rows = 1 .. Len(orders) /\ Len(orders) \in Nat /\ \A i \in Rows : orders[i] \in OrderRows
  BY RowTypes DEF TradeInv
<1>2. ASSUME NEW k \in Rows
      PROVE  /\ IsFill(Fills(b)[k])
             /\ Fills(b)[k].side = orders[k].side
             /\ Fills(b)[k].filled =
                   IF orders[k].bot = b /\ orders[k].state \in FillStates THEN orders[k].filled ELSE 0
  <2>1. PICK row : row = orders[k]
    OBVIOUS
  <2>2. Fills(b)[k] = IF row.bot = b /\ row.state \in FillStates THEN row
                      ELSE [row EXCEPT !.filled = 0]
    BY <2>1 DEF Fills
  <2>3. row \in OrderRows /\ row.filled \in Nat /\ row.price \in Nat
    <3>1. row \in OrderRows
      BY <1>1, <2>1
    <3>2. row.filled \in Nat
      BY <3>1 DEF OrderRows
    <3>3. row.price \in FillPrices \cup {0}
      BY <3>1 DEF OrderRows
    <3>4. row.price \in Nat
      <4>1. \A z \in FillPrices : z \in Nat
        BY MarketAssumption
      <4>2. CASE row.price \in FillPrices
        BY <4>1, <4>2
      <4>3. CASE row.price = 0
        BY <4>3
      <4> QED BY <3>3, <4>2, <4>3
    <3> QED BY <3>1, <3>2, <3>4
  <2>4. /\ [row EXCEPT !.filled = 0].filled = 0 /\ [row EXCEPT !.filled = 0].price = row.price
        /\ [row EXCEPT !.filled = 0].side = row.side
    BY <2>3 DEF OrderRows
  <2> QED BY <2>1, <2>2, <2>3, <2>4 DEF IsFill
<1>3. DOMAIN Fills(b) = 1 .. Len(orders) /\ Len(Fills(b)) = Len(orders)
  BY <1>1 DEF Fills
<1> QED BY <1>1, <1>2, <1>3

(* Its rows are for real, and all that filled counts.                       *)
LEMMA ClearRows ==
  ASSUME TradeInv, NEW b \in Bots, ~Unclear(b), NEW k \in 1 .. Len(orders)
  PROVE  /\ Fills(b)[k].filled = IF orders[k].bot = b THEN orders[k].filled ELSE 0
         /\ Filled(b, "BUY")[k] = IF orders[k].side = "BUY" THEN Fills(b)[k].filled ELSE 0
         /\ Filled(b, "SELL")[k] = IF orders[k].side = "SELL" THEN Fills(b)[k].filled ELSE 0
<1>1. k \in Rows /\ orders[k] \in OrderRows /\ book[k] \in Truths /\ FollowsTheBook(orders[k], book[k])
  BY RowFacts, RowTypes DEF TradeInv
<1>2. ASSUME orders[k].bot = b, orders[k].filled > 0, orders[k].state \notin FillStates
      PROVE  FALSE
  <2>1. k \in RowsOf(b) /\ ~orders[k].paper
    BY <1>1, <1>2 DEF RowsOf, Unclear, PaperCounts
  <2>2. /\ orders[k].state = "CANCELED" /\ orders[k].filled <= book[k].filled
        /\ book[k].filled < orders[k].qty
    BY <1>1, <1>2, <2>1 DEF FollowsTheBook
  <2>3. orders[k].filled \in Nat /\ orders[k].qty \in Nat /\ book[k].filled \in Nat
    BY <1>1 DEF OrderRows, Truths
  <2>4. book[k].filled \in 1 .. orders[k].qty - 1
    BY <1>2, <2>2, <2>3
  <2> QED BY <2>1, <2>2, <2>4 DEF Unclear, PartFilled
<1>3. orders[k].filled \in Nat
  BY <1>1 DEF OrderRows
<1>4. Fills(b)[k].filled = IF orders[k].bot = b THEN orders[k].filled ELSE 0
  BY <1>2, <1>3, FillsType
<1>5. \A side : Filled(b, side)[k] = IF orders[k].bot = b /\ orders[k].side = side
                                     THEN orders[k].filled ELSE 0
  BY <1>1 DEF Filled
<1> QED BY <1>4, <1>5

(* The position of position.ts is what the rows say is held.                *)
LEMMA PositionHeld ==
  ASSUME TradeInv, NEW b \in Bots, ~Unclear(b), NEW n \in 0 .. Len(orders)
  PROVE  Positions(Fills(b))[n].quantity = Held(b, n)
<1>1. PICK L \in Nat : L = Len(orders)
  BY RowTypes DEF TradeInv
<1> DEFINE fills == Fills(b)
           pos == Positions(fills)
           buys == Totals(Filled(b, "BUY"))
           sells == Totals(Filled(b, "SELL"))
           S == {m \in Nat : m <= L => pos[m].quantity = buys[m] - sells[m]}
<1>2. DOMAIN fills = 1 .. L /\ \A k \in 1 .. L : IsFill(fills[k])
  BY <1>1, FillsType
<1>3. /\ pos \in [0 .. L -> Lots] /\ pos[0] = Flat
      /\ \A k \in 1 .. L : pos[k] = AfterFill(pos[k - 1], fills[k])
  <2> HIDE DEF fills
  <2> QED BY <1>2, PositionsDef
<1>4. Filled(b, "BUY") \in [1 .. L -> Nat] /\ Filled(b, "SELL") \in [1 .. L -> Nat]
  BY <1>1, FilledType DEF TradeInv
<1>5. /\ buys \in [0 .. L -> Nat] /\ buys[0] = 0
      /\ \A k \in 1 .. L : buys[k] = buys[k - 1] + Filled(b, "BUY")[k]
      /\ sells \in [0 .. L -> Nat] /\ sells[0] = 0
      /\ \A k \in 1 .. L : sells[k] = sells[k - 1] + Filled(b, "SELL")[k]
  BY <1>4, TotalsDef
<1>6. \A m : Held(b, m) = buys[m] - sells[m]
  BY DEF Held
<1> HIDE DEF fills, pos, buys, sells
<1>7. 0 \in S
  BY <1>3, <1>5 DEF Flat
<1>8. ASSUME NEW m \in Nat, m \in S PROVE m + 1 \in S
  <2> SUFFICES ASSUME m + 1 <= L PROVE pos[m + 1].quantity = buys[m + 1] - sells[m + 1]
    OBVIOUS
  <2>1. PICK k \in 1 .. L : k = m + 1 /\ k - 1 = m
    OBVIOUS
  <2>2. PICK p \in Lots, x \in {fills[k]} : p = pos[m] /\ x = fills[k]
    BY <1>3
  <2>3. p.quantity = buys[m] - sells[m] /\ p.quantity \in Nat
    BY <1>8, <2>2 DEF Lots
  <2>4. pos[k] = AfterFill(p, x)
    BY <1>3, <2>1, <2>2
  <2>5. /\ buys[k] = buys[m] + Filled(b, "BUY")[k] /\ sells[k] = sells[m] + Filled(b, "SELL")[k]
        /\ buys[m] \in Nat /\ sells[m] \in Nat
    BY <1>5, <2>1
  <2>6. orders[k] \in OrderRows /\ k \in Rows /\ orders[k].filled \in Nat
        /\ orders[k].filled <= orders[k].qty /\ orders[k].qty \in Nat /\ orders[k].side \in Sides
    BY <1>1, <2>1, RowFacts, RowTypes DEF TradeInv, OrderRows
  <2>7. /\ x.filled = IF orders[k].bot = b THEN orders[k].filled ELSE 0
        /\ x.side = orders[k].side /\ x.filled \in Nat
        /\ Filled(b, "BUY")[k] = IF orders[k].side = "BUY" THEN x.filled ELSE 0
        /\ Filled(b, "SELL")[k] = IF orders[k].side = "SELL" THEN x.filled ELSE 0
    BY <1>1, <2>1, <2>2, <2>6, ClearRows, FillsType DEF fills
  <2>8. CASE x.filled = 0
    <3>1. pos[k] = p
      BY <2>4, <2>8 DEF AfterFill
    <3> QED BY <2>1, <2>3, <2>5, <2>7, <2>8, <3>1
  <2>9. CASE x.filled # 0 /\ x.side = "BUY"
    <3>1. pos[k] = Bought(p, x)
      BY <2>4, <2>9 DEF AfterFill
    <3>2. pos[k].quantity = p.quantity + x.filled
      BY <3>1 DEF Bought, Lots
    <3> QED BY <2>1, <2>3, <2>5, <2>7, <2>9, <3>2
  <2>10. CASE x.filled # 0 /\ x.side = "SELL"
    <3>1. k \in RowsOf(b) /\ orders[k].side = "SELL"
      BY <2>6, <2>7, <2>10 DEF RowsOf
    <3>2. orders[k].qty <= Held(b, k - 1)
      BY <3>1 DEF TradeInv, SellsAreCovered
    <3>3. x.filled <= p.quantity /\ p.quantity # 0
      BY <1>6, <2>1, <2>3, <2>6, <2>7, <2>10, <3>2
    <3>4. pos[k] = Sold(p, x)
      BY <2>4, <2>10 DEF AfterFill
    <3>5. pos[k].quantity = p.quantity - (IF x.filled < p.quantity THEN x.filled ELSE p.quantity)
      BY <3>3, <3>4 DEF Sold
    <3> QED BY <2>1, <2>3, <2>5, <2>7, <2>10, <3>3, <3>5
  <2> QED BY <2>6, <2>7, <2>8, <2>9, <2>10 DEF Sides
<1>9. Nat \subseteq S
  <2> HIDE DEF S
  <2> QED BY <1>7, <1>8, Induction
<1> QED BY <1>1, <1>6, <1>9 DEF pos, fills

(* The two profits agree after every fill.                                  *)
LEMMA CashAgrees ==
  ASSUME TradeInv, NEW b \in Bots, ~Unclear(b), NEW n \in 0 .. Len(orders)
  PROVE  LET p == Positions(Fills(b))[n] IN Profits(Fills(b))[n] * p.unit = p.gain - p.cost
<1>1. PICK L \in Nat : L = Len(orders)
  BY RowTypes DEF TradeInv
<1> DEFINE fills == Fills(b)
           pos == Positions(fills)
           cash == Profits(fills)
           S == {m \in Nat : m <= L => cash[m] * pos[m].unit = pos[m].gain - pos[m].cost}
<1>2. DOMAIN fills = 1 .. L /\ \A k \in 1 .. L : IsFill(fills[k])
  BY <1>1, FillsType
<1>3. /\ pos \in [0 .. L -> Lots] /\ pos[0] = Flat
      /\ \A k \in 1 .. L : pos[k] = AfterFill(pos[k - 1], fills[k])
      /\ cash \in [0 .. L -> Int] /\ cash[0] = 0
      /\ \A k \in 1 .. L : cash[k] = AfterCash(cash[k - 1], fills[k])
  <2> HIDE DEF fills
  <2> QED BY <1>2, PositionsDef, ProfitsDef
<1>4. \A m \in 0 .. L : pos[m].quantity = Held(b, m)
  BY <1>1, PositionHeld
<1> HIDE DEF fills, pos, cash
<1>5. 0 \in S
  BY <1>3 DEF Flat
<1>6. ASSUME NEW m \in Nat, m \in S PROVE m + 1 \in S
  <2> SUFFICES ASSUME m + 1 <= L
               PROVE  cash[m + 1] * pos[m + 1].unit = pos[m + 1].gain - pos[m + 1].cost
    OBVIOUS
  <2>1. PICK k \in 1 .. L : k = m + 1 /\ k - 1 = m
    OBVIOUS
  <2>2. PICK p, x, c : p = pos[m] /\ x = fills[k] /\ c = cash[m]
    OBVIOUS
  <2> p \in Lots /\ c \in Int
    BY <1>3, <2>2
  <2>3. PICK f \in Nat, r \in Nat : f = x.filled /\ r = x.price
    BY <1>2, <2>2 DEF IsFill
  <2>4. PICK q \in Nat, o \in Int, g \in Int, u \in Int :
            q = p.quantity /\ o = p.cost /\ g = p.gain /\ u = p.unit
    BY DEF Lots
  <2>5. c * u = g - o
    BY <1>6, <2>2, <2>4
  <2>6. pos[k] = AfterFill(p, x) /\ cash[k] = AfterCash(c, x)
    BY <1>3, <2>1, <2>2
  <2>7. orders[k] \in OrderRows /\ k \in Rows /\ orders[k].filled \in Nat
        /\ orders[k].filled <= orders[k].qty /\ orders[k].qty \in Nat /\ orders[k].side \in Sides
    BY <1>1, <2>1, RowFacts, RowTypes DEF TradeInv, OrderRows
  <2>8. x.side = orders[k].side /\ f = IF orders[k].bot = b THEN orders[k].filled ELSE 0
    BY <1>1, <2>1, <2>2, <2>3, ClearRows, FillsType DEF fills
  <2>9. CASE f = 0
    <3>1. pos[k] = p /\ cash[k] = c
      BY <2>3, <2>6, <2>9 DEF AfterFill, AfterCash
    <3> QED BY <2>1, <2>4, <2>5, <3>1
  <2>10. CASE f # 0 /\ x.side = "BUY"
    <3>1. pos[k] = Bought(p, x) /\ cash[k] = c - f * r
      BY <2>3, <2>6, <2>10 DEF AfterFill, AfterCash
    <3>2. pos[k].unit = u /\ pos[k].gain = g /\ pos[k].cost = o + f * r * u
      BY <2>3, <2>4, <3>1 DEF Bought, Lots
    <3>3. (c - f * r) * u = c * u - f * r * u
      OBVIOUS
    <3> QED BY <2>1, <2>5, <3>1, <3>2, <3>3
  <2>11. CASE f # 0 /\ x.side = "SELL"
    <3>1. k \in RowsOf(b) /\ orders[k].side = "SELL"
      BY <2>7, <2>8, <2>11 DEF RowsOf
    <3>2. orders[k].qty <= Held(b, k - 1)
      BY <3>1 DEF TradeInv, SellsAreCovered
    <3>3. Held(b, k - 1) = q
      BY <1>4, <2>1, <2>2, <2>4
    <3>4. f <= q /\ q # 0
      BY <2>7, <2>8, <2>11, <3>2, <3>3
    <3>5. pos[k] = Sold(p, x) /\ cash[k] = c + f * r
      BY <2>3, <2>6, <2>11 DEF AfterFill, AfterCash
    <3>6. pos[k] = [quantity |-> q - f, cost |-> o * (q - f),
                    gain |-> g * q + (r * u * q - o) * f, unit |-> u * q]
      <4>1. (IF x.filled < p.quantity THEN x.filled ELSE p.quantity) = f
        BY <2>3, <2>4, <3>4
      <4> QED BY <2>3, <2>4, <3>4, <3>5, <4>1 DEF Sold
    <3>7. pos[k].cost = o * (q - f) /\ pos[k].unit = u * q
          /\ pos[k].gain = g * q + (r * u * q - o) * f
      BY <3>6
    <3>8. (c + f * r) * (u * q) = g * q + (r * u * q - o) * f - o * (q - f)
      <4>1. (c + f * r) * (u * q) = (c * u) * q + f * r * u * q
        OBVIOUS
      <4>2. (c * u) * q = g * q - o * q
        BY <2>5
      <4>3. (r * u * q - o) * f = f * r * u * q - o * f
        OBVIOUS
      <4>4. o * (q - f) = o * q - o * f
        OBVIOUS
      <4> QED BY <4>1, <4>2, <4>3, <4>4
    <3> QED BY <2>1, <3>5, <3>7, <3>8
  <2> QED BY <2>7, <2>8, <2>9, <2>10, <2>11 DEF Sides
<1>7. Nat \subseteq S
  <2> HIDE DEF S
  <2> QED BY <1>5, <1>6, Induction
<1> QED BY <1>1, <1>7 DEF pos, cash, fills

(* So they agree at the end.                                                *)
LEMMA ProfitsMatch ==
  ASSUME TradeInv
  PROVE  ProfitsAgree
<1> SUFFICES ASSUME NEW b \in Bots, ~Unclear(b)
             PROVE  ProfitOf(b) * PositionOf(b).unit = PositionOf(b).gain - PositionOf(b).cost
  BY DEF ProfitsAgree
<1>1. Len(Fills(b)) = Len(orders) /\ Len(orders) \in 0 .. Len(orders)
  BY FillsType, RowTypes DEF TradeInv
<1> QED BY <1>1, CashAgrees DEF ProfitOf, PositionOf, computePosition, realisedPnl

LEMMA ExecutedType ==
  ASSUME TradeInv, NEW b, NEW side
  PROVE  Executed(b, side) \in [1 .. Len(orders) -> Nat]
  BY RowTypes DEF TradeInv, Executed, Truths

(* The last sell may still fill, but only what its rows covered.            *)
LEMMA SalesAreCovered ==
  ASSUME TradeInv
  PROVE  OnlyHoldingsAreSold
<1> SUFFICES ASSUME NEW b \in Bots, ~Unclear(b) PROVE NetOf(b, "SELL") <= NetOf(b, "BUY")
  BY DEF OnlyHoldingsAreSold
<1>1. PICK L \in Nat : L = Len(orders) /\ Rows = 1 .. L
  BY RowTypes DEF TradeInv
<1> DEFINE S == {n \in Nat : n <= L => Totals(Executed(b, "SELL"))[n] <= Totals(Filled(b, "BUY"))[n]}
<1>2. \A side : Filled(b, side) \in [1 .. L -> Nat] /\ Executed(b, side) \in [1 .. L -> Nat]
  BY <1>1, FilledType, ExecutedType DEF TradeInv
<1>3. ASSUME NEW side
      PROVE  /\ Totals(Filled(b, side)) \in [0 .. L -> Nat] /\ Totals(Filled(b, side))[0] = 0
             /\ \A k \in 1 .. L :
                   Totals(Filled(b, side))[k] = Totals(Filled(b, side))[k - 1] + Filled(b, side)[k]
             /\ Totals(Executed(b, side)) \in [0 .. L -> Nat] /\ Totals(Executed(b, side))[0] = 0
             /\ \A k \in 1 .. L :
                   Totals(Executed(b, side))[k] = Totals(Executed(b, side))[k - 1] + Executed(b, side)[k]
  BY <1>2, TotalsDef
<1>4. ASSUME NEW i \in 1 .. L
      PROVE  /\ orders[i] \in OrderRows /\ book[i] \in Truths
             /\ orders[i].bot = b => ~orders[i].paper
             /\ orders[i].filled \in Nat /\ book[i].filled \in Nat /\ orders[i].qty \in Nat
             /\ book[i].filled <= orders[i].qty /\ orders[i].bar \in Nat
             /\ \A side : /\ Filled(b, side)[i] = IF orders[i].bot = b /\ orders[i].side = side
                                                 THEN orders[i].filled ELSE 0
                          /\ Executed(b, side)[i] = IF orders[i].bot = b /\ orders[i].side = side
                                                    THEN book[i].filled ELSE 0
  <2>1. orders[i] \in OrderRows /\ book[i] \in Truths /\ book[i].filled <= orders[i].qty
    BY <1>1, RowFacts
  <2>2. orders[i].bot = b => ~orders[i].paper
    BY <1>1 DEF Unclear, PaperCounts, RowsOf
  <2> QED BY <1>1, <2>1, <2>2 DEF OrderRows, Truths, Filled, Executed
<1>5. 0 \in S
  BY <1>3
<1>6. ASSUME NEW m \in Nat, m \in S PROVE m + 1 \in S
  <2> SUFFICES ASSUME m + 1 <= L
               PROVE  Totals(Executed(b, "SELL"))[m + 1] <= Totals(Filled(b, "BUY"))[m + 1]
    OBVIOUS
  <2>1. PICK k \in 1 .. L : k = m + 1 /\ k - 1 = m
    OBVIOUS
  <2>2. PICK sold \in Nat, bought \in Nat, settled \in Nat :
          /\ sold = Totals(Executed(b, "SELL"))[m] /\ bought = Totals(Filled(b, "BUY"))[m]
          /\ settled = Totals(Filled(b, "SELL"))[m]
    <3>1. m \in 0 .. L
      BY <2>1
    <3>2. \A side : Totals(Executed(b, side))[m] \in Nat /\ Totals(Filled(b, side))[m] \in Nat
      BY <1>3, <3>1
    <3> QED BY <3>2
  <2>3. /\ Totals(Executed(b, "SELL"))[k] = sold + Executed(b, "SELL")[k]
        /\ Totals(Filled(b, "BUY"))[k] = bought + Filled(b, "BUY")[k]
    BY <1>3, <2>1, <2>2
  <2>4. sold <= bought
    BY <1>6, <2>2
  <2>5. CASE orders[k].bot = b /\ orders[k].side = "SELL"
    <3>1. k \in RowsOf(b)
      BY <1>1, <2>5 DEF RowsOf
    <3>2. orders[k].qty <= bought - settled
      BY <2>1, <2>2, <2>5, <3>1 DEF TradeInv, SellsAreCovered, Held
    <3>3. ASSUME NEW j \in 1 .. m PROVE Executed(b, "SELL")[j] = Filled(b, "SELL")[j]
      <4>1. j \in 1 .. L /\ j \in Rows /\ j < k
        BY <1>1, <2>1
      <4>2. CASE orders[j].bot = b /\ orders[j].side = "SELL"
        <5>1. j \in RowsOf(b) /\ b \in Bots \ lagged
          BY <4>1, <4>2 DEF RowsOf, Unclear
        <5>2. orders[j].bar <= orders[k].bar /\ orders[k].bar <= bar
          BY <3>1, <4>1, <5>1 DEF TradeInv, OldOrdersAreDone
        <5>3. orders[j].bar # orders[k].bar
          BY <1>1, <2>5, <4>1, <4>2 DEF TradeInv, DecisionsAreUnique, Alike
        <5>4. orders[j].bar < bar
          <6>1. bar \in Nat /\ orders[j].bar \in Nat /\ orders[k].bar \in Nat
            BY <1>4, <4>1 DEF TradeInv, TradeTypeOK
          <6> QED BY <5>2, <5>3, <6>1
        <5>5. book[j].filled = orders[j].filled
          BY <1>4, <4>1, <4>2, <5>1, <5>4 DEF TradeInv, OldOrdersAreDone
        <5> QED BY <1>4, <4>1, <5>5
      <4>3. CASE ~(orders[j].bot = b /\ orders[j].side = "SELL")
        BY <1>4, <4>1, <4>3
      <4> QED BY <4>2, <4>3
    <3>4. sold = settled
      <4>1. m <= L /\ L \in Nat
        BY <2>1
      <4>2. PICK s \in [1 .. L -> Nat], t \in [1 .. L -> Nat] :
               s = Executed(b, "SELL") /\ t = Filled(b, "SELL")
        BY <1>2
      <4>3. \A i \in 1 .. m : s[i] = t[i]
        BY <3>3, <4>2
      <4>4. Totals(s)[m] = Totals(t)[m]
        BY <4>1, <4>3, TotalsAgree
      <4> QED BY <2>2, <4>2, <4>4
    <3>5. Executed(b, "SELL")[k] = book[k].filled /\ Filled(b, "BUY")[k] = 0
      BY <1>4, <2>5
    <3>6. book[k].filled \in Nat /\ book[k].filled <= orders[k].qty /\ orders[k].qty \in Nat
      BY <1>4
    <3> QED BY <2>1, <2>3, <3>2, <3>4, <3>5, <3>6
  <2>6. CASE ~(orders[k].bot = b /\ orders[k].side = "SELL")
    <3>1. Executed(b, "SELL")[k] = 0 /\ Filled(b, "BUY")[k] \in Nat
      BY <1>4, <2>6
    <3> QED BY <2>1, <2>3, <2>4, <3>1
  <2> QED BY <2>5, <2>6
<1>7. Nat \subseteq S
  <2> HIDE DEF S
  <2> QED BY <1>5, <1>6, Induction
<1>8. Totals(Executed(b, "SELL"))[L] <= Totals(Filled(b, "BUY"))[L]
  BY <1>7
<1>9. Totals(Filled(b, "BUY"))[L] <= Totals(Executed(b, "BUY"))[L]
  <2>1. ASSUME NEW i \in 1 .. L PROVE Filled(b, "BUY")[i] <= Executed(b, "BUY")[i]
    <3>1. FollowsTheBook(orders[i], book[i])
      BY <1>1, RowFacts
    <3>2. orders[i].bot = b => orders[i].filled <= book[i].filled
      BY <1>4, <3>1 DEF FollowsTheBook
    <3> QED BY <1>4, <3>2
  <2> QED BY <1>2, <2>1, TotalsGrow
<1>10. /\ Totals(Executed(b, "SELL"))[L] \in Nat /\ Totals(Filled(b, "BUY"))[L] \in Nat
       /\ Totals(Executed(b, "BUY"))[L] \in Nat
  BY <1>3
<1> QED BY <1>1, <1>8, <1>9, <1>10 DEF NetOf

(* A decision is of a side and a quantity, and an exit is of all that the   *)
(* position holds.                                                          *)
LEMMA DecisionType ==
  ASSUME TradeInv, NEW b \in Bots
  PROVE  /\ decide(b).side \in Sides /\ decide(b).qty \in Nat
         /\ decide(b).side = "SELL" => decide(b).qty = PositionOf(b).quantity
<1>1. PositionOf(b).quantity \in Nat
  <2>1. Len(orders) \in Nat /\ Len(Fills(b)) = Len(orders) /\ Len(orders) \in 0 .. Len(orders)
    BY FillsType, RowTypes DEF TradeInv
  <2>2. Positions(Fills(b)) \in [0 .. Len(orders) -> Lots]
    BY <2>1, FillsType, PositionsDef
  <2> QED BY <2>1, <2>2 DEF PositionOf, computePosition, Lots
<1>2. Nothing.side = "BUY" /\ Nothing.qty = 0
  BY DEF Nothing
<1>3. Exit(b).side = "SELL" /\ Exit(b).qty = PositionOf(b).quantity
  BY DEF Exit
<1>4. Entry.side = "BUY" /\ Entry.qty \in Nat
  <2>1. price \in Nat
    BY MarketAssumption DEF TradeInv, TradeTypeOK
  <2>2. sizeFromBudget(OrderSize, price) \in Nat
    BY <2>1, MarketAssumption DEF sizeFromBudget
  <2> QED BY <1>2, <2>2 DEF Entry
<1>5. AsSignalled(b) = Entry \/ AsSignalled(b) = Exit(b) \/ AsSignalled(b) = Nothing
  <2>1. CASE signal[b] = "BUY"
    BY <2>1 DEF AsSignalled
  <2>2. CASE signal[b] # "BUY" /\ signal[b] = "SELL" /\ Allowed("SELL")
    BY <2>2 DEF AsSignalled
  <2>3. CASE signal[b] # "BUY" /\ ~(signal[b] = "SELL" /\ Allowed("SELL"))
    BY <2>3 DEF AsSignalled
  <2> QED BY <2>1, <2>2, <2>3
<1>6. decide(b) = Entry \/ decide(b) = Exit(b) \/ decide(b) = Nothing
  BY <1>5 DEF decide
<1> QED BY <1>1, <1>2, <1>3, <1>4, <1>6 DEF Sides

LEMMA DecideStep ==
  ASSUME IInv, TradeInv, NEW w \in Workers, NEW b \in Bots, RunBot(w, b),
         ~RunFails(w, b), ~RunEnds(w, b)
  PROVE  TradeInv'
<1> USE DEF TradeInv
<1>1. PICK choice : choice = decide(b)
  OBVIOUS
<1> DEFINE hand == [bot |-> b, bar |-> bar, side |-> choice.side, qty |-> choice.qty]
           new == [pc |-> "place", queue |-> worker[w].queue, hand |-> hand]
<1>2. /\ Exists(b) /\ worker' = [worker EXCEPT ![w] = new]
      /\ UNCHANGED <<bot, orders, book, bar, price, lagged>>
  BY <1>1 DEF RunBot, NotRun, exchange, market
<1>3. /\ choice.side \in Sides /\ choice.qty \in Nat
      /\ choice.side = "SELL" => choice.qty = PositionOf(b).quantity
  BY <1>1, DecisionType
<1>4. hand \in Hands
  <2>1. bar \in 0 .. MaxBar
    BY BarsAssumption DEF TradeTypeOK
  <2> QED BY <1>3, <2>1 DEF Hands
<1>5. /\ worker'[w] = new /\ \A v \in Workers \ {w} : worker'[v] = worker[v]
  BY <1>2 DEF TradeTypeOK
<1>6. new \in [pc : {"idle", "tick", "place", "send"}, queue : SUBSET Bots, hand : Hands]
  <2>1. worker[w].queue \in SUBSET Bots
    BY DEF TradeTypeOK
  <2> HIDE DEF hand
  <2> QED BY <1>4, <2>1
<1>7. /\ new.pc = "place" /\ new.hand = hand /\ hand.bot = b /\ hand.bar = bar
      /\ hand.side = choice.side /\ hand.qty = choice.qty /\ new.queue = worker[w].queue
  OBVIOUS
<1> HIDE DEF hand, new
<1>8. Rows' = Rows /\ \A c : RowsOf(c)' = RowsOf(c)
  BY <1>2 DEF Rows, RowsOf
<1>9. TradeTypeOK' /\ RowsFollowTheBook'
  <2>1. worker' \in [Workers -> [pc : {"idle", "tick", "place", "send"},
                               queue : SUBSET Bots, hand : Hands]]
    BY <1>2, <1>6 DEF TradeTypeOK
  <2> QED BY <1>2, <1>8, <2>1 DEF TradeTypeOK, RowsFollowTheBook
<1>10. DecisionsAreUnique'
  <2>1. ASSUME NEW v \in Workers, worker'[v].pc = "send"
        PROVE  v # w /\ worker'[v] = worker[v]
    BY <1>5, <1>7, <2>1
  <2>2. ASSUME NEW v \in Workers, worker'[v].pc = "send"
        PROVE  /\ RowFor(worker[v].hand)' = RowFor(worker[v].hand)
               /\ Exists(worker[v].hand.bot)' <=> Exists(worker[v].hand.bot)
    BY <1>2, <2>1, <2>2 DEF RowFor, Rows, Exists
  <2> QED BY <1>2, <1>8, <2>1, <2>2 DEF DecisionsAreUnique
<1>11. UnbornAreIdle'
  BY <1>2, <1>5, <1>7, <1>8 DEF UnbornAreIdle
<1>12. OldOrdersAreDone'
  BY <1>2, <1>5, <1>7, <1>8 DEF OldOrdersAreDone
<1>13. SellsAreCovered'
  <2> SUFFICES ASSUME NEW c \in Bots, ~Unclear(c)'
               PROVE  /\ \A i \in RowsOf(c)' : orders'[i].side = "SELL" => orders'[i].qty <= Held(c, i - 1)'
                      /\ \A v \in Workers :
                            ExitToCome(v, c)' => worker'[v].hand.qty <= Held(c, Len(orders))'
    BY DEF SellsAreCovered
  <2>1. ~Unclear(c)
    BY <1>2, <1>8 DEF Unclear, PaperCounts, PartFilled
  <2>2. (\A n : Held(c, n)' = Held(c, n)) /\ Held(c, Len(orders))' = Held(c, Len(orders))
    BY <1>2 DEF Held, Totals, Filled, Rows
  <2>3. ASSUME NEW v \in Workers, ExitToCome(v, c)'
        PROVE  worker'[v].hand.qty <= Held(c, Len(orders))
    <3>1. CASE v = w
      <4>1. c = b /\ choice.side = "SELL"
        BY <1>5, <1>7, <2>3, <3>1 DEF ExitToCome
      <4>2. choice.qty = Positions(Fills(b))[Len(orders)].quantity
        BY <1>3, <4>1, FillsType DEF PositionOf, computePosition
      <4>3. Len(orders) \in 0 .. Len(orders)
        BY RowTypes
      <4>4. choice.qty = Held(b, Len(orders))
        BY <2>1, <4>1, <4>2, <4>3, PositionHeld
      <4>5. worker'[v].hand.qty = choice.qty /\ Held(b, Len(orders)) \in Int
        BY <1>5, <1>7, <3>1, <4>3, HeldType
      <4> QED BY <4>1, <4>4, <4>5
    <3>2. CASE v # w
      <4>1. worker'[v] = worker[v]
        BY <1>5, <3>2
      <4>2. ExitToCome(v, c)
        BY <1>2, <2>3, <4>1 DEF ExitToCome, RowFor, Rows, Exists
      <4> QED BY <2>1, <4>1, <4>2 DEF SellsAreCovered
    <3> QED BY <3>1, <3>2
  <2>4. \A i \in RowsOf(c)' : orders'[i].side = "SELL" => orders'[i].qty <= Held(c, i - 1)'
    BY <1>2, <1>8, <2>1, <2>2 DEF SellsAreCovered
  <2> QED BY <2>2, <2>3, <2>4
<1> QED BY <1>9, <1>10, <1>11, <1>12, <1>13

(* A new row, of a decision that had none.                                  *)
LEMMA NewRowStep ==
  ASSUME IInv, IInv', TradeInv, NEW w \in Workers, PlaceRow(w)
  PROVE  TradeInv'
<1> USE DEF TradeInv
<1>1. PICK L \in Nat : L = Len(orders) /\ Rows = 1 .. L /\ DOMAIN book = 1 .. L
  BY RowTypes
<1>2. PICK hand \in Hands : hand = worker[w].hand
  BY DEF TradeTypeOK
<1>3. PICK b \in Bots : b = hand.bot
  BY <1>2 DEF PlaceRow, IInv, ControlTypeOK, HandsAreListed
<1>4. /\ worker[w].pc = "place" /\ Exists(b) /\ RowFor(hand) = {}
      /\ book' = Append(book, Unsent) /\ UNCHANGED <<bot, bar, price, lagged>>
  BY <1>2, <1>3 DEF PlaceRow, NotRun, market
<1>5. PICK new :
        /\ orders' = Append(orders, new)
        /\ \/ NextBot(w, b) /\ new = PaperFilled(NewRow(hand)) /\ NewRow(hand).paper
           \/ /\ worker' = [worker EXCEPT ![w] =
                               [pc |-> "send", queue |-> worker[w].queue, hand |-> hand]]
              /\ new = NewRow(hand) /\ ~NewRow(hand).paper
  BY <1>2, <1>3 DEF PlaceRow
<1>6. /\ new \in OrderRows /\ new.bot = b /\ new.bar = hand.bar /\ new.side = hand.side
      /\ new.qty = hand.qty /\ new.filled <= new.qty
      /\ ~new.paper => new.filled = 0 /\ new.state = "PENDING"
  <2>1. PICK row : row = NewRow(hand)
    OBVIOUS
  <2>2. bot[b].paper \in BOOLEAN
    BY DEF IInv, ControlTypeOK, BotRows
  <2>3. /\ hand.bot \in Bots \cup {NoBot} /\ hand.bar \in 0 .. MaxBar /\ hand.side \in Sides
        /\ hand.qty \in Nat
    BY DEF Hands
  <2>4. /\ row \in OrderRows /\ row.bot = b /\ row.bar = hand.bar /\ row.side = hand.side
        /\ row.qty = hand.qty /\ row.filled = 0 /\ row.state = "PENDING"
    BY <1>3, <2>1, <2>2, <2>3 DEF NewRow, OrderRows, OrderStates, OpenStates
  <2>5. CASE new = row
    BY <2>3, <2>4, <2>5
  <2>6. CASE new = PaperFilled(row) /\ row.paper
    <3>1. new = [row EXCEPT !.filled = row.qty, !.state = "FILLED"]
      BY <2>6 DEF PaperFilled
    <3>2. "FILLED" \in OrderStates
      BY DEF OrderStates
    <3>3. /\ new \in OrderRows /\ new.bot = row.bot /\ new.bar = row.bar /\ new.side = row.side
          /\ new.qty = row.qty /\ new.filled = row.qty /\ new.paper = row.paper
      BY <2>4, <3>1, <3>2 DEF OrderRows
    <3> QED BY <2>3, <2>4, <2>6, <3>3
  <2> QED BY <1>5, <2>1, <2>5, <2>6
<1>7. /\ orders' \in Seq(OrderRows) /\ Len(orders') = L + 1 /\ Rows' = 1 .. L + 1
      /\ orders'[L + 1] = new /\ \A i \in 1 .. L : orders'[i] = orders[i]
  BY <1>1, <1>5, <1>6 DEF TradeTypeOK, Rows
<1>8. /\ book' \in Seq(Truths) /\ Len(book') = L + 1
      /\ book'[L + 1] = Unsent /\ \A i \in 1 .. L : book'[i] = book[i]
  <2>1. Unsent \in Truths
    BY DEF Unsent, Truths
  <2> QED BY <1>1, <1>4, <2>1 DEF TradeTypeOK
<1>9. /\ worker' = [v \in Workers |-> worker'[v]]
      /\ \A v \in Workers \ {w} : worker'[v] = worker[v]
      /\ \/ worker'[w] = [pc |-> "send", queue |-> worker[w].queue, hand |-> hand] /\ ~new.paper
         \/ /\ worker'[w] \in [pc : {"idle", "tick"}, queue : SUBSET Bots, hand : {NoHand}]
            /\ worker'[w].queue \subseteq worker[w].queue
  <2>1. CASE NextBot(w, b)
    <3> DEFINE rest == worker[w].queue \ {b}
               after == IF rest = {} THEN Resting ELSE [pc |-> "tick", queue |-> rest, hand |-> NoHand]
    <3>1. worker' = [worker EXCEPT ![w] = after] /\ worker[w].queue \in SUBSET Bots
      BY <2>1 DEF NextBot, TradeTypeOK
    <3>2. /\ after \in [pc : {"idle", "tick"}, queue : SUBSET Bots, hand : {NoHand}]
          /\ after.queue \subseteq worker[w].queue
      BY <3>1 DEF Resting
    <3> HIDE DEF after
    <3>3. worker'[w] = after /\ \A v \in Workers \ {w} : worker'[v] = worker[v]
      BY <3>1 DEF TradeTypeOK
    <3> QED BY <3>2, <3>3, WorkersAreFunctions
  <2>2. CASE /\ worker' = [worker EXCEPT ![w] =
                               [pc |-> "send", queue |-> worker[w].queue, hand |-> hand]]
             /\ new = NewRow(hand) /\ ~NewRow(hand).paper
    BY <2>2, WorkersAreFunctions DEF TradeTypeOK
  <2> QED BY <1>5, <2>1, <2>2
<1>10. ASSUME NEW v \in Workers
       PROVE  \/ worker'[v] = worker[v] /\ v # w
              \/ /\ v = w /\ ~new.paper
                 /\ worker'[v] = [pc |-> "send", queue |-> worker[w].queue, hand |-> hand]
              \/ /\ worker'[v].pc \in {"idle", "tick"} /\ worker'[v].hand = NoHand
                 /\ worker'[v].queue \subseteq worker[v].queue
  BY <1>9
<1>11. L + 1 \in Rows' /\ L + 1 \notin Rows /\ Rows \subseteq Rows' /\ Rows' = Rows \cup {L + 1}
  BY <1>1, <1>7
<1>12. /\ RowsOf(b)' = RowsOf(b) \cup {L + 1}
       /\ \A c \in Bots \ {b} : RowsOf(c)' = RowsOf(c)
       /\ \A c : RowsOf(c) \subseteq 1 .. L
  BY <1>1, <1>6, <1>7, <1>11 DEF RowsOf
<1>13. /\ \A h : ~Alike(new, h) => RowFor(h)' = RowFor(h)
       /\ \A h : Alike(new, h) => RowFor(h)' = RowFor(h) \cup {L + 1}
       /\ \A h : RowFor(h) \subseteq 1 .. L
  BY <1>1, <1>7, <1>11 DEF RowFor, Alike
<1>14. Alike(new, hand)
  BY <1>3, <1>6 DEF Alike
<1>15. TradeTypeOK' /\ RowsFollowTheBook'
  <2>1. worker' \in [Workers -> [pc : {"idle", "tick", "place", "send"},
                               queue : SUBSET Bots, hand : Hands]]
    <3>1. NoHand \in Hands
      BY BarsAssumption DEF NoHand, Hands, Sides
    <3>2. ASSUME NEW v \in Workers
          PROVE  worker'[v] \in [pc : {"idle", "tick", "place", "send"},
                                 queue : SUBSET Bots, hand : Hands]
      <4>1. worker[v] \in [pc : {"idle", "tick", "place", "send"}, queue : SUBSET Bots, hand : Hands]
            /\ worker[w].queue \in SUBSET Bots
        BY DEF TradeTypeOK
      <4> QED BY <1>9, <3>1, <4>1
    <3> QED BY <1>9, <3>2
  <2>2. /\ Unsent.filled = 0 /\ ~Unsent.open /\ new.qty \in Nat /\ hand.qty \in Nat
    BY <1>6 DEF Unsent, OrderRows
  <2>3. \A i \in Rows' : orders'[i].filled <= orders'[i].qty /\ book'[i].filled <= orders'[i].qty
    BY <1>1, <1>6, <1>7, <1>8, <1>11, <2>2 DEF TradeTypeOK
  <2>4. RowsFollowTheBook'
    <3>1. FollowsTheBook(new, Unsent)
      BY <1>6, <2>2 DEF FollowsTheBook
    <3>2. \A i \in 1 .. L : FollowsTheBook(orders[i], book[i])
      BY <1>1 DEF RowsFollowTheBook
    <3> QED BY <1>1, <1>7, <1>8, <1>11, <3>1, <3>2 DEF RowsFollowTheBook
  <2> QED BY <1>4, <1>7, <1>8, <2>1, <2>3, <2>4 DEF TradeTypeOK
<1>16. UnbornAreIdle'
  <2>1. bot[b].status # "NONE"
    BY <1>4 DEF Exists
  <2>2. \A v \in Workers : worker'[v].queue \subseteq worker[v].queue
    BY <1>10
  <2> QED BY <1>4, <1>12, <2>1, <2>2 DEF UnbornAreIdle
(* Whoever submits an order of this bot and side has its row already.       *)
<1>17. ASSUME NEW v \in Workers, worker[v].pc = "send"
       PROVE  ~Alike(new, worker[v].hand)
  <2>1. SUFFICES ASSUME Alike(new, worker[v].hand) PROVE FALSE
    OBVIOUS
  <2>2. worker[v].hand.bot = b
    BY <1>6, <2>1 DEF Alike
  <2>3. RowFor(worker[v].hand) # {}
    BY <1>4, <1>17, <2>2 DEF DecisionsAreUnique
  <2>4. RowFor(worker[v].hand) = RowFor(hand)
    BY <1>14, <2>1 DEF Alike, RowFor
  <2> QED BY <1>4, <2>3, <2>4
<1>18. DecisionsAreUnique'
  <2>1. ASSUME NEW i \in Rows', NEW j \in Rows', orders'[i].bot \in Bots, Alike(orders'[i], orders'[j])
        PROVE  i = j
    <3>1. \A k \in 1 .. L : ~Alike(orders[k], new)
      BY <1>1, <1>4, <1>14 DEF RowFor, Alike
    <3>2. CASE i \in 1 .. L /\ j \in 1 .. L
      BY <1>1, <1>7, <2>1, <3>2 DEF DecisionsAreUnique
    <3>3. CASE i = L + 1 /\ j \in 1 .. L
      BY <1>7, <2>1, <3>1, <3>3 DEF Alike
    <3>4. CASE i \in 1 .. L /\ j = L + 1
      BY <1>7, <2>1, <3>1, <3>4
    <3> QED BY <1>1, <1>11, <3>2, <3>3, <3>4
  <2>2. ASSUME NEW v \in Workers, worker'[v].pc = "send"
        PROVE  /\ (Exists(worker[v].hand.bot))' => RowFor(worker[v].hand)' # {}
               /\ \A i \in RowFor(worker[v].hand)' : ~orders'[i].paper /\ book'[i] = Unsent
               /\ \A u \in Workers : worker'[u].pc = "send" /\ Alike(worker'[u].hand, worker'[v].hand)
                                        => u = v
    <3>1. PICK h : h = worker'[v].hand
      OBVIOUS
    <3>2. RowFor(worker[v].hand)' = RowFor(h)'
      BY <3>1 DEF RowFor
    <3>3. CASE worker'[v] = worker[v] /\ v # w
      <4>1. h = worker[v].hand /\ ~Alike(new, h) /\ worker[v].pc = "send"
        BY <1>17, <2>2, <3>1, <3>3
      <4>2. RowFor(h)' = RowFor(worker[v].hand)
        BY <1>13, <4>1
      <4>3. (Exists(worker[v].hand.bot))' => RowFor(worker[v].hand)' # {}
        <5>1. (Exists(worker[v].hand.bot))' => Exists(worker[v].hand.bot)
          BY <1>4, <3>3 DEF Exists
        <5> QED BY <3>2, <4>1, <4>2, <5>1 DEF DecisionsAreUnique
      <4>4. \A i \in RowFor(worker[v].hand)' : ~orders'[i].paper /\ book'[i] = Unsent
        BY <1>7, <1>8, <1>13, <3>2, <4>1, <4>2 DEF DecisionsAreUnique
      <4>5. ASSUME NEW u \in Workers, worker'[u].pc = "send", Alike(worker'[u].hand, worker'[v].hand)
            PROVE  u = v
        <5>1. CASE worker'[u] = worker[u]
          BY <3>3, <4>1, <4>5, <5>1 DEF DecisionsAreUnique
        <5>2. CASE worker'[u].hand = hand
          BY <1>14, <3>1, <4>1, <4>5, <5>2 DEF Alike
        <5> QED BY <1>10, <4>5, <5>1, <5>2
      <4> QED BY <4>3, <4>4, <4>5
    <3>4. CASE v = w /\ ~new.paper /\ worker'[v].hand = hand
      <4>1. RowFor(worker[v].hand)' = {L + 1}
        BY <1>4, <1>13, <1>14, <3>1, <3>2, <3>4
      <4>2. \A i \in RowFor(worker[v].hand)' : ~orders'[i].paper /\ book'[i] = Unsent
        BY <1>7, <1>8, <3>4, <4>1
      <4>3. ASSUME NEW u \in Workers, worker'[u].pc = "send", Alike(worker'[u].hand, worker'[v].hand)
            PROVE  u = v
        <5>1. CASE worker'[u] = worker[u] /\ u # w
          <6>1. ~Alike(new, worker[u].hand)
            BY <1>17, <4>3, <5>1
          <6> QED BY <1>14, <3>4, <4>3, <5>1, <6>1 DEF Alike
        <5>2. CASE u = w
          BY <3>4, <5>2
        <5> QED BY <1>10, <4>3, <5>1, <5>2
      <4> QED BY <4>1, <4>2, <4>3
    <3> QED BY <1>10, <2>2, <3>3, <3>4
  <2> QED BY <2>1, <2>2 DEF DecisionsAreUnique
<1>19. b \notin lagged => new.bar = bar
  BY <1>2, <1>3, <1>4, <1>6 DEF OldOrdersAreDone
<1>20. OldOrdersAreDone'
  <2> SUFFICES ASSUME NEW c \in Bots \ lagged
               PROVE  /\ \A v \in Workers : worker'[v].pc # "idle" /\ worker'[v].hand.bot = c
                                            => worker'[v].hand.bar = bar
                      /\ \A i \in RowsOf(c)' :
                            /\ orders'[i].bar <= bar
                            /\ orders'[i].bar < bar /\ ~orders'[i].paper
                                  => ~book'[i].open /\ book'[i].filled = orders'[i].filled
                            /\ \A j \in RowsOf(c)' : j < i => orders'[j].bar <= orders'[i].bar
    BY <1>4 DEF OldOrdersAreDone
  <2>1. \A v \in Workers : worker'[v].pc # "idle" /\ worker'[v].hand.bot = c => worker'[v].hand.bar = bar
    <3>1. NoHand.bot # c
      BY BotsAssumption DEF NoHand
    <3>2. hand.bot = c => hand.bar = bar
      BY <1>2, <1>4 DEF OldOrdersAreDone
    <3> QED BY <1>10, <3>1, <3>2 DEF OldOrdersAreDone
  <2>2. ASSUME NEW i \in RowsOf(c)
        PROVE  /\ orders'[i] = orders[i] /\ book'[i] = book[i] /\ orders[i].bar <= bar /\ i \in 1 .. L
               /\ orders[i].bar < bar /\ ~orders[i].paper
                      => ~book[i].open /\ book[i].filled = orders[i].filled
               /\ \A j \in RowsOf(c) : j < i => orders[j].bar <= orders[i].bar
    BY <1>7, <1>8, <1>12 DEF OldOrdersAreDone
  <2>3. CASE c # b
    BY <1>12, <2>1, <2>2, <2>3
  <2>4. CASE c = b
    <3>1. new.bar = bar /\ bar \in Nat
      BY <1>19, <2>4 DEF TradeTypeOK
    <3>2. ASSUME NEW i \in RowsOf(c)'
          PROVE  /\ orders'[i].bar <= bar
                 /\ orders'[i].bar < bar /\ ~orders'[i].paper
                       => ~book'[i].open /\ book'[i].filled = orders'[i].filled
                 /\ \A j \in RowsOf(c)' : j < i => orders'[j].bar <= orders'[i].bar
      <4>1. CASE i \in RowsOf(c)
        <5>1. \A j \in RowsOf(c)' : j < i => j \in RowsOf(c)
          BY <1>12, <2>2, <2>4, <4>1
        <5> QED BY <2>2, <4>1, <5>1
      <4>2. CASE i = L + 1
        <5>1. \A j \in RowsOf(c)' : j < i => j \in RowsOf(c)
          BY <1>12, <2>4, <4>2
        <5>2. orders'[i] = new
          BY <1>7, <4>2
        <5> QED BY <2>2, <3>1, <5>1, <5>2
      <4> QED BY <1>12, <2>4, <4>1, <4>2
    <3> QED BY <2>1, <3>2
  <2> QED BY <2>3, <2>4
<1>21. SellsAreCovered'
  <2> SUFFICES ASSUME NEW c \in Bots, ~Unclear(c)'
               PROVE  /\ \A i \in RowsOf(c)' : orders'[i].side = "SELL" => orders'[i].qty <= Held(c, i - 1)'
                      /\ \A v \in Workers :
                            ExitToCome(v, c)' => worker'[v].hand.qty <= Held(c, Len(orders))'
    BY DEF SellsAreCovered
  <2>1. ~Unclear(c) /\ c \notin lagged
    <3>1. ASSUME NEW i \in RowsOf(c)
          PROVE  i \in RowsOf(c)' /\ orders'[i] = orders[i] /\ book'[i] = book[i]
      BY <1>7, <1>8, <1>12
    <3>2. PaperCounts(c) => PaperCounts(c)'
      BY <3>1 DEF PaperCounts
    <3>3. PartFilled(c) => PartFilled(c)'
      BY <3>1 DEF PartFilled
    <3> QED BY <1>4, <3>2, <3>3 DEF Unclear
  <2>2. \A side : Filled(c, side) \in [1 .. L -> Nat]
    BY <1>1, FilledType
  <2>3. \A side : /\ Filled(c, side)' \in [1 .. L + 1 -> Nat]
                  /\ \A i \in 1 .. L : Filled(c, side)'[i] = Filled(c, side)[i]
                  /\ Filled(c, side)'[L + 1] = IF c = b /\ new.side = side THEN new.filled ELSE 0
    <3>1. \A side : /\ Filled(c, side)' =
                         [i \in 1 .. L + 1 |-> IF orders'[i].bot = c /\ orders'[i].side = side
                                               THEN orders'[i].filled ELSE 0]
                    /\ Filled(c, side) =
                         [i \in 1 .. L |-> IF orders[i].bot = c /\ orders[i].side = side
                                           THEN orders[i].filled ELSE 0]
      BY <1>1, <1>7 DEF Filled
    <3>2. \A i \in 1 .. L + 1 : orders'[i].filled \in Nat
      <4>1. \A i \in 1 .. L : orders[i].filled \in Nat
        BY <1>1, RowTypes DEF OrderRows
      <4>2. new.filled \in Nat
        BY <1>6 DEF OrderRows
      <4> QED BY <1>7, <4>1, <4>2
    <3>3. L + 1 \in 1 .. L + 1 /\ \A i \in 1 .. L : i \in 1 .. L + 1
      OBVIOUS
    <3> QED BY <1>6, <1>7, <3>1, <3>2, <3>3
  <2>4. \A n : /\ Held(c, n) = Totals(Filled(c, "BUY"))[n] - Totals(Filled(c, "SELL"))[n]
               /\ Held(c, n)' = Totals(Filled(c, "BUY")')[n] - Totals(Filled(c, "SELL")')[n]
    BY DEF Held, Totals
  <2>5. ASSUME NEW n \in 0 .. L, NEW side
        PROVE  /\ Totals(Filled(c, side)')[n] = Totals(Filled(c, side))[n]
               /\ Totals(Filled(c, side))[n] \in Nat
    <3>1. PICK s \in [1 .. L -> Nat], t \in [1 .. L + 1 -> Nat] :
             s = Filled(c, side) /\ t = Filled(c, side)' /\ \A i \in 1 .. L : s[i] = t[i]
      BY <2>2, <2>3
    <3>2. Totals(s)[n] = Totals(t)[n]
      <4>1. n \in Nat /\ n <= L /\ n <= L + 1 /\ L + 1 \in Nat /\ \A i \in 1 .. n : s[i] = t[i]
        BY <3>1
      <4> QED BY <4>1, TotalsAgree
    <3>3. Totals(s)[n] \in Nat
      BY TotalsDef
    <3> QED BY <3>1, <3>2, <3>3
  <2>6. \A n \in 0 .. L : Held(c, n)' = Held(c, n) /\ Held(c, n) \in Int
    BY <2>4, <2>5
  <2>7. Held(c, L + 1)' = Held(c, L) + Filled(c, "BUY")'[L + 1] - Filled(c, "SELL")'[L + 1]
    <3>1. ASSUME NEW side
          PROVE  Totals(Filled(c, side)')[L + 1] = Totals(Filled(c, side))[L] + Filled(c, side)'[L + 1]
      <4>1. PICK t \in [1 .. L + 1 -> Nat] : t = Filled(c, side)'
        BY <2>3
      <4>2. Totals(t)[L + 1] = Totals(t)[L] + t[L + 1]
        <5>1. PICK M \in Nat : M = L + 1
          OBVIOUS
        <5>2. t \in [1 .. M -> Nat] /\ M \in 1 .. M /\ M - 1 = L
          BY <4>1, <5>1
        <5>3. \A k \in 1 .. M : Totals(t)[k] = Totals(t)[k - 1] + t[k]
          BY <5>1, <5>2, TotalsDef
        <5> QED BY <5>1, <5>2, <5>3
      <4> QED BY <2>5, <4>1, <4>2
    <3>2. \A side : Totals(Filled(c, side))[L] \in Nat /\ Filled(c, side)'[L + 1] \in Nat
      BY <2>3, <2>5
    <3> QED BY <2>4, <3>1, <3>2
  <2>8. ASSUME NEW i \in RowsOf(c)', orders'[i].side = "SELL"
        PROVE  orders'[i].qty <= Held(c, i - 1)'
    <3>1. CASE i \in RowsOf(c)
      <4>1. i \in 1 .. L /\ i - 1 \in 0 .. L /\ orders'[i] = orders[i]
        BY <1>7, <1>12, <3>1
      <4>2. orders[i].qty <= Held(c, i - 1)
        BY <2>1, <2>8, <3>1, <4>1 DEF SellsAreCovered
      <4> QED BY <2>6, <4>1, <4>2
    <3>2. CASE i = L + 1 /\ c = b
      <4>1. orders'[i] = new /\ i - 1 = L
        BY <1>7, <3>2
      <4>2. ExitToCome(w, b)
        BY <1>2, <1>3, <1>4, <1>6, <2>8, <4>1 DEF ExitToCome
      <4>3. hand.qty <= Held(b, L)
        BY <1>1, <1>2, <2>1, <3>2, <4>2 DEF SellsAreCovered
      <4> QED BY <1>6, <2>6, <3>2, <4>1, <4>3
    <3> QED BY <1>12, <3>1, <3>2
  <2>9. ASSUME NEW v \in Workers, ExitToCome(v, c)'
        PROVE  worker'[v].hand.qty <= Held(c, L + 1)'
    <3>1. worker'[v] = worker[v] /\ worker[v].pc = "place"
      BY <1>10, <2>9 DEF ExitToCome
    <3>2. PICK h \in Hands : h = worker[v].hand
      BY DEF TradeTypeOK
    <3>3. RowFor(h)' = {} /\ h.bot = c /\ h.side = "SELL" /\ Exists(c)
      <4>1. RowFor(worker[v].hand)' = RowFor(h)'
        BY <3>1, <3>2 DEF RowFor
      <4> QED BY <1>4, <2>9, <3>1, <3>2, <4>1 DEF ExitToCome, Exists
    <3>4. RowFor(h) = {} /\ ~Alike(new, h)
      BY <1>13, <3>3
    <3>5. h.qty <= Held(c, L)
      BY <1>1, <2>1, <3>1, <3>2, <3>3, <3>4 DEF SellsAreCovered, ExitToCome
    <3>6. ~(c = b /\ new.side = "SELL")
      <4>1. h.bar = bar
        BY <2>1, <3>1, <3>2, <3>3 DEF OldOrdersAreDone
      <4> QED BY <1>6, <1>19, <2>1, <3>3, <3>4, <4>1 DEF Alike
    <3>7. Filled(c, "SELL")'[L + 1] = 0 /\ Filled(c, "BUY")'[L + 1] \in Nat
      BY <2>3, <3>6
    <3>8. h.qty \in Nat /\ Held(c, L) \in Int
      BY <2>6 DEF Hands
    <3> QED BY <2>7, <3>1, <3>2, <3>5, <3>7, <3>8
  <2>10. Held(c, Len(orders))' = Held(c, L + 1)'
    BY <1>7
  <2> QED BY <2>8, <2>9, <2>10
<1> QED BY <1>15, <1>16, <1>18, <1>20, <1>21

-----------------------------------------------------------------------------
(* Together *)

LEMMA TradeInit == Init => TradeInv
<1> SUFFICES ASSUME Init PROVE TradeInv
  OBVIOUS
<1> USE DEF Init
<1>1. /\ orders = <<>> /\ book = <<>> /\ Rows = {} /\ DOMAIN book = {}
      /\ \A b : RowsOf(b) = {}
  BY DEF Rows, RowsOf
<1>2. NoHand \in Hands
  BY BarsAssumption DEF NoHand, Hands, Sides
<1>3. \A w \in Workers : worker[w] = Resting /\ worker[w].pc = "idle" /\ worker[w].queue = {}
  BY DEF Resting
<1>4. TradeTypeOK
  <2>1. Resting \in [pc : {"idle", "tick", "place", "send"}, queue : SUBSET Bots, hand : Hands]
    BY <1>2 DEF Resting
  <2>2. worker \in [Workers -> [pc : {"idle", "tick", "place", "send"},
                                queue : SUBSET Bots, hand : Hands]]
    BY <2>1
  <2>3. orders \in Seq(OrderRows) /\ book \in Seq(Truths) /\ Len(book) = Len(orders)
    BY <1>1
  <2> QED BY <1>1, <2>2, <2>3, BarsAssumption DEF TradeTypeOK
<1>5. RowsFollowTheBook /\ DecisionsAreUnique /\ UnbornAreIdle
  BY <1>1, <1>3 DEF RowsFollowTheBook, DecisionsAreUnique, UnbornAreIdle
<1>6. OldOrdersAreDone /\ SellsAreCovered
  BY <1>1, <1>3 DEF OldOrdersAreDone, SellsAreCovered, ExitToCome
<1> QED BY <1>4, <1>5, <1>6 DEF TradeInv

LEMMA RunnerTrades ==
  ASSUME IInv, IInv', TradeInv, NEW w \in Workers, RunnerStep(w)
  PROVE  TradeInv'
<1>1. ASSUME NEW b \in Bots, UNCHANGED <<NotRun, exchange>>, RunEnds(w, b) \/ RunFails(w, b)
      PROVE  TradeInv'
  <2>1. UNCHANGED <<bar, price, lagged>>
    BY <1>1 DEF NotRun, market
  <2> QED BY <1>1, <2>1, RowsStay, QuietRun
<1>2. ASSUME NEW b \in Bots, RunBot(w, b) PROVE TradeInv'
  <2>1. UNCHANGED <<NotRun, exchange>>
    BY <1>2 DEF RunBot
  <2> QED BY <1>1, <1>2, <2>1, DecideStep
<1>3. CASE PlaceFails(w)
  <2>1. worker[w].hand.bot \in Bots
    BY <1>3 DEF PlaceFails, IInv, ControlTypeOK, HandsAreListed
  <2> QED BY <1>1, <1>3, <2>1 DEF PlaceFails
<1> QED BY <1>2, <1>3, QuietReplay, NewRowStep, QuietSubmit DEF RunnerStep

LEMMA TradeNext == IInv /\ IInv' /\ TradeInv /\ [Next]_vars => TradeInv'
<1> SUFFICES ASSUME IInv, IInv', TradeInv, [Next]_vars PROVE TradeInv'
  OBVIOUS
<1>1. CASE UNCHANGED vars
  <2>1. UNCHANGED <<bot, worker, exchange, bar, price, lagged>>
    BY <1>1 DEF vars, users, market
  <2> QED BY <2>1, RowsStay, BotsSame, WorkersSame, WorkersAreFunctions, TradesStay DEF TradesGoOn
<1>2. CASE UserNext
  <2>1. CASE \E r \in requests : Write(r) /\ r.op = "remove" /\ Exists(r.bot)
    BY <2>1, RemoveStep
  <2>2. CASE ~\E r \in requests : Write(r) /\ r.op = "remove" /\ Exists(r.bot)
    BY <1>2, <2>2, QuietUsers
  <2> QED BY <2>1, <2>2
<1>3. CASE \E w \in Workers : Tick(w) \/ RunnerStep(w) \/ Restart(w)
  BY <1>3, QuietTick, RunnerTrades, QuietRestart
<1>4. CASE NextBar \/ ReconcilerNext \/ \E i \in Rows : Trade(i)
  BY <1>4, BarStep, QuietReconciler, QuietTrade
<1> QED BY <1>1, <1>2, <1>3, <1>4 DEF Next

(* At every moment the orders table tells no more of a live order than the  *)
(* exchange did, a bar, a bot and a side have one row however often the     *)
(* runner is restarted or replays, and every sell was covered by the rows   *)
(* before it.                                                               *)
THEOREM TradesInvariance == Spec => []TradeInv
<1>1. Init => IInv /\ TradeInv
  BY InitStep, TradeInit
<1>2. (IInv /\ TradeInv) /\ [Next]_vars => (IInv /\ TradeInv)'
  BY NextStep, TradeNext
<1> QED BY <1>1, <1>2, PTL DEF Spec

(* The platform does not open shorts: a bot that trades for real from the   *)
(* start, and all of whose orders are recorded and closed in full before    *)
(* the next bar, never sells more on the exchange than it bought there, for *)
(* any number of bots, workers, bars, prices, failures and restarts.        *)
THEOREM HoldingsOnly == Spec => []OnlyHoldingsAreSold
<1> QED BY TradesInvariance, SalesAreCovered, PTL

(* The reconciler's profit, by which a bot is stopped, and the profit of    *)
(* position.ts, which the user is shown, differ by nothing but the cost of  *)
(* what the bot still holds.                                                *)
THEOREM ProfitsDoAgree == Spec => []ProfitsAgree
<1> QED BY TradesInvariance, ProfitsMatch, PTL
=============================================================================
