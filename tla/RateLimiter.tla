---------------------------- MODULE RateLimiter ----------------------------
(***************************************************************************)
(* RateLimiterService: one token bucket, the one of an API key, and the    *)
(* calls that consume from it.  tryConsume is synchronous, so it is one    *)
(* step; a call that is refused sleeps on a timer and tries again.         *)
(*                                                                         *)
(* The clock ticks Scale times per second (1000 in the code) and tokens    *)
(* are counted in units of 1/Scale, which makes the refill of a tick, and  *)
(* all of the arithmetic, whole numbers.  Rounding of doubles is left out. *)
(***************************************************************************)
EXTENDS Integers

CONSTANTS
    Callers,      \* slots for concurrent consume calls
    Capacity,     \* capacity, in tokens
    Rate,         \* refillPerSecond: units per tick
    Scale,        \* ticks per second, units per token
    Weights,      \* weights of calls
    Late,         \* bound: ticks a timer may be late
    MaxTime,      \* bound: ticks
    LastCall,     \* bound: no call is made after this tick
    MaxCalls,     \* bound: consume calls
    MaxRestarts   \* bound: restarts

ASSUME BucketAssumption ==
    /\ Capacity \in Nat \ {0} /\ Rate \in Nat \ {0} /\ Scale \in Nat \ {0}
    /\ Weights \subseteq 1 .. Capacity
ASSUME LimiterBoundsAssumption ==
    /\ Late \in Nat /\ MaxTime \in Nat /\ LastCall \in Nat
    /\ MaxCalls \in Nat /\ MaxRestarts \in Nat

VARIABLES
    now,        \* Date.now()
    bucket,     \* the bucket of the key
    caller,     \* the continuation of each call
    spent,      \* units consumed so far
    calls,      \* consume calls so far
    restarts,   \* restarts so far
    before      \* units and restarts before each tick

count == <<calls, restarts>>
vars == <<now, bucket, caller, spent, count, before>>

Full == Scale * Capacity
Cost(weight) == Scale * weight
CeilDiv(a, b) == (a + b - 1) \div b

Returned == [pc |-> "idle", weight |-> 0, wake |-> 0, since |-> 0]

TypeOK ==
    /\ now \in 0 .. MaxTime
    /\ bucket \in [tokens : 0 .. Full, lastRefill : 0 .. now]
    /\ caller \in [Callers -> [pc : {"idle", "asleep"}, weight : Weights \cup {0},
                               wake : Nat, since : 0 .. spent]]
    /\ spent \in Nat /\ calls \in Nat /\ restarts \in Nat
    /\ before \in [0 .. MaxTime -> [spent : 0 .. spent, restarts : 0 .. restarts]]
    /\ \A c \in Callers : caller[c].pc = "asleep" => caller[c].weight \in Weights

(* A key without a bucket starts with a full one at its first call.         *)
Init ==
    /\ now = 0
    /\ bucket = [tokens |-> Full, lastRefill |-> 0]
    /\ caller = [c \in Callers |-> Returned]
    /\ spent = 0 /\ calls = 0 /\ restarts = 0
    /\ before = [t \in 0 .. MaxTime |-> [spent |-> 0, restarts |-> 0]]

(* The tokens in the bucket at a time that is not before lastRefill.        *)
TokensAt(t) ==
    LET tokens == bucket.tokens + Rate * (t - bucket.lastRefill)
    IN  IF tokens > Full THEN Full ELSE tokens

-----------------------------------------------------------------------------
(* Mutant: a call that is granted does not store the time of the refill.    *)
TryConsume_RefillAgain(c, weight) ==
    LET tokens == TokensAt(now) IN
    IF tokens >= Cost(weight)
    THEN /\ bucket' = [bucket EXCEPT !.tokens = tokens - Cost(weight)]
         /\ spent' = spent + Cost(weight)
         /\ caller' = [caller EXCEPT ![c] = Returned]
    ELSE /\ bucket' = [tokens |-> tokens, lastRefill |-> now]
         /\ caller' = [caller EXCEPT ![c] =
                           [pc |-> "asleep", weight |-> weight, since |-> spent,
                            wake |-> now + CeilDiv(Cost(weight) - tokens, Rate)]]
         /\ UNCHANGED spent

(* Mutant: a refused call empties the bucket.                               *)
TryConsume_Empties(c, weight) ==
    LET tokens == TokensAt(now) IN
    IF tokens >= Cost(weight)
    THEN /\ bucket' = [tokens |-> tokens - Cost(weight), lastRefill |-> now]
         /\ spent' = spent + Cost(weight)
         /\ caller' = [caller EXCEPT ![c] = Returned]
    ELSE /\ bucket' = [tokens |-> 0, lastRefill |-> now]
         /\ caller' = [caller EXCEPT ![c] =
                           [pc |-> "asleep", weight |-> weight, since |-> spent,
                            wake |-> now + CeilDiv(Cost(weight) - tokens, Rate)]]
         /\ UNCHANGED spent

(* tryConsume: refills the bucket, and takes the weight or tells how long   *)
(* to wait.                                                                 *)
TryConsume(c, weight) ==
    LET tokens == TokensAt(now) IN
    IF tokens >= Cost(weight)
    THEN /\ bucket' = [tokens |-> tokens - Cost(weight), lastRefill |-> now]
         /\ spent' = spent + Cost(weight)
         /\ caller' = [caller EXCEPT ![c] = Returned]
    ELSE /\ bucket' = [tokens |-> tokens, lastRefill |-> now]
         /\ caller' = [caller EXCEPT ![c] =
                           [pc |-> "asleep", weight |-> weight, since |-> spent,
                            wake |-> now + CeilDiv(Cost(weight) - tokens, Rate)]]
         /\ UNCHANGED spent

(* A request of an adapter calls consume.                                   *)
Consume(c, weight) ==
    /\ caller[c].pc = "idle"
    /\ calls < MaxCalls /\ now <= LastCall
    /\ calls' = calls + 1
    /\ TryConsume(c, weight)
    /\ UNCHANGED <<now, restarts, before>>

(* The timer of a refused call fires, on time or late: it tries again.      *)
Wake(c) ==
    /\ caller[c].pc = "asleep"
    /\ caller[c].wake <= now
    /\ TryConsume(c, caller[c].weight)
    /\ UNCHANGED <<now, count, before>>

Tick ==
    /\ now < MaxTime
    /\ \A c \in Callers : caller[c].pc = "asleep" => now < caller[c].wake + Late
    /\ now' = now + 1
    /\ before' = [before EXCEPT ![now + 1] = [spent |-> spent, restarts |-> restarts]]
    /\ UNCHANGED <<bucket, caller, spent, count>>

(* The buckets live in the process: a restart forgets them and the calls.   *)
Restart ==
    /\ restarts < MaxRestarts
    /\ restarts' = restarts + 1
    /\ bucket' = [tokens |-> Full, lastRefill |-> now]
    /\ caller' = [c \in Callers |-> Returned]
    /\ UNCHANGED <<now, spent, calls, before>>

Next ==
    \/ \E c \in Callers, weight \in Weights : Consume(c, weight)
    \/ \E c \in Callers : Wake(c)
    \/ Tick \/ Restart

Spec == Init /\ [][Next]_vars

-----------------------------------------------------------------------------
(* In every window of time a key sends at most one burst and what was       *)
(* refilled since, and one more burst per restart in the window, however    *)
(* many calls wake at once (the class comment: no tenant burns the budget   *)
(* of the account).                                                         *)
WindowBudget ==
    \A t \in 0 .. MaxTime : t <= now =>
        spent - before[t].spent
            <= Full * (1 + restarts - before[t].restarts) + Rate * (now - t)

(* A refused call sleeps exactly as long as it must: if nobody else is      *)
(* served meanwhile its tokens are there when it wakes, and were not one    *)
(* tick before (tryConsume's delay).                                        *)
SleepIsExact ==
    \A c \in Callers :
        caller[c].pc = "asleep" /\ spent = caller[c].since /\ now <= caller[c].wake =>
            /\ TokensAt(caller[c].wake) >= Cost(caller[c].weight)
            /\ now < caller[c].wake => TokensAt(caller[c].wake - 1) < Cost(caller[c].weight)

(* What the window budget rests on: tokens in the bucket are budget that    *)
(* was not spent yet.                                                       *)
BudgetLeft ==
    \A t \in 0 .. MaxTime : t <= now =>
        spent - before[t].spent + TokensAt(now)
            <= Full * (1 + restarts - before[t].restarts) + Rate * (now - t)

IInv == TypeOK /\ BudgetLeft
=============================================================================
