------------------------- MODULE RateLimiterProofs -------------------------
(***************************************************************************)
(* Proofs about RateLimiter for every bucket, any number of calls of any   *)
(* weights, any lateness of timers and any number of restarts.             *)
(***************************************************************************)
EXTENDS Adapters, TLAPS

(* Arithmetic of the refill *)

LEMMA ProductType == \A a, b \in Nat : a * b \in Nat
OBVIOUS

LEMMA OneMore == \A a, b \in Int : a * (b + 1) = a * b + a
OBVIOUS

LEMMA Split == \A a, b, c \in Int : a * (b - c) = a * b - a * c
OBVIOUS

LEMMA FullType == Full \in Nat
BY ProductType, BucketAssumption DEF Full

LEMMA CostType == \A weight \in Weights : Cost(weight) \in Nat \ {0} /\ Cost(weight) <= Full
<1> SUFFICES ASSUME NEW weight \in Weights
             PROVE  Cost(weight) \in Nat \ {0} /\ Cost(weight) <= Full
    OBVIOUS
<1>1. /\ weight \in Nat /\ weight >= 1 /\ weight <= Capacity /\ Capacity \in Nat
      /\ Scale \in Nat /\ Scale >= 1
    BY BucketAssumption
<1>2. Scale * weight >= weight /\ Scale * weight \in Nat
    BY <1>1
<1>3. Scale * weight <= Scale * Capacity
    BY <1>1
<1> QED BY <1>1, <1>2, <1>3 DEF Cost, Full

(* At and after lastRefill the bucket holds between nothing and its         *)
(* capacity, and a tick adds at most Rate.                                  *)
LEMMA TokensType ==
    ASSUME TypeOK, NEW t \in Nat, t >= bucket.lastRefill
    PROVE  /\ TokensAt(t) \in 0 .. Full
           /\ TokensAt(t + 1) \in 0 .. Full
           /\ TokensAt(t + 1) <= TokensAt(t) + Rate
           /\ TokensAt(bucket.lastRefill) = bucket.tokens
<1>1. /\ bucket.tokens \in Nat /\ bucket.tokens <= Full /\ bucket.lastRefill \in Nat
      /\ Full \in Nat /\ Rate \in Nat
    BY FullType, BucketAssumption, LimiterBoundsAssumption DEF TypeOK
<1> DEFINE gap == t - bucket.lastRefill
<1>2. gap \in Nat /\ (t + 1) - bucket.lastRefill = gap + 1
    BY <1>1
<1>3. Rate * gap \in Nat /\ Rate * (gap + 1) = Rate * gap + Rate
    BY <1>1, <1>2, ProductType, OneMore
<1>4. Rate * (bucket.lastRefill - bucket.lastRefill) = 0
  <2>1. bucket.lastRefill - bucket.lastRefill = 0
      BY <1>1
  <2> QED BY <1>1, <2>1
<1> HIDE DEF gap
<1>5. TokensAt(t) = IF bucket.tokens + Rate * gap > Full THEN Full ELSE bucket.tokens + Rate * gap
    BY DEF TokensAt, gap
<1>6. TokensAt(t + 1) = IF bucket.tokens + Rate * (gap + 1) > Full
                        THEN Full ELSE bucket.tokens + Rate * (gap + 1)
    BY <1>2 DEF TokensAt
<1> QED BY <1>1, <1>3, <1>4, <1>5, <1>6 DEF TokensAt

(* The delay of a refused call: the whole ticks that refill the deficit.    *)
LEMMA CeilDivIsCeiling ==
    ASSUME NEW a \in Nat \ {0}, NEW b \in Nat \ {0}
    PROVE  /\ CeilDiv(a, b) \in Nat \ {0}
           /\ b * CeilDiv(a, b) >= a
           /\ b * (CeilDiv(a, b) - 1) < a
<1> DEFINE q == (a + b - 1) \div b
           m == (a + b - 1) % b
<1>1. /\ q \in Int /\ m \in 0 .. b - 1 /\ a + b - 1 = b * q + m
    OBVIOUS
<1> HIDE DEF q, m
<1>2. b * (q - 1) = b * q - b
    BY <1>1
<1>3. b * q >= a /\ b * (q - 1) < a
    BY <1>1, <1>2
<1>4. q >= 1
  <2>1. SUFFICES ASSUME q <= 0 PROVE FALSE
      BY <1>1
  <2>2. b * q <= 0 /\ b * q \in Int
      BY <1>1, <2>1
  <2> QED BY <1>3, <2>2
<1> QED BY <1>1, <1>3, <1>4 DEF CeilDiv, q

-----------------------------------------------------------------------------
(* The two outcomes of tryConsume *)

LEMMA ConsumeOutcome ==
    ASSUME TypeOK, NEW c \in Callers, NEW weight \in Weights, TryConsume(c, weight)
    PROVE  LET tokens == TokensAt(now)
               need == Cost(weight)
           IN  \/ /\ tokens >= need
                  /\ bucket' = [tokens |-> tokens - need, lastRefill |-> now]
                  /\ spent' = spent + need
                  /\ caller' = [caller EXCEPT ![c] = Returned]
               \/ /\ tokens < need
                  /\ bucket' = [tokens |-> tokens, lastRefill |-> now]
                  /\ spent' = spent
                  /\ caller' = [caller EXCEPT ![c] =
                         [pc |-> "asleep", weight |-> weight, since |-> spent,
                          wake |-> now + CeilDiv(need - tokens, Rate)]]
<1>1. TokensAt(now) \in Nat /\ Cost(weight) \in Nat
    BY TokensType, CostType, FullType, LimiterBoundsAssumption DEF TypeOK
<1> QED BY <1>1 DEF TryConsume

LEMMA ConsumeType ==
    ASSUME TypeOK, NEW c \in Callers, NEW weight \in Weights, TryConsume(c, weight)
    PROVE  /\ bucket' \in [tokens : 0 .. Full, lastRefill : 0 .. now]
           /\ spent' \in Nat /\ spent' >= spent
           /\ caller' \in [Callers -> [pc : {"idle", "asleep"}, weight : Weights \cup {0},
                                       wake : Nat, since : 0 .. spent']]
           /\ \A d \in Callers : caller'[d].pc = "asleep" => caller'[d].weight \in Weights
<1>1. /\ TokensAt(now) \in 0 .. Full /\ Cost(weight) \in Nat \ {0} /\ now \in Nat
      /\ Full \in Nat /\ spent \in Nat
    BY TokensType, CostType, FullType, LimiterBoundsAssumption DEF TypeOK
<1> DEFINE Row(top) == [pc : {"idle", "asleep"}, weight : Weights \cup {0},
                        wake : Nat, since : 0 .. top]
<1>2. ASSUME NEW top \in Nat, top >= spent, NEW row \in Row(top),
             row.pc = "asleep" => row.weight \in Weights,
             caller' = [caller EXCEPT ![c] = row]
      PROVE  /\ caller' \in [Callers -> Row(top)]
             /\ \A d \in Callers : caller'[d].pc = "asleep" => caller'[d].weight \in Weights
  <2>1. 0 .. spent \subseteq 0 .. top
      BY <1>1, <1>2
  <2>2. \A d \in Callers : caller[d] \in Row(top)
      BY <2>1 DEF TypeOK
  <2>3. caller' \in [Callers -> Row(top)]
      BY <1>2, <2>2 DEF TypeOK
  <2> QED BY <1>2, <2>3 DEF TypeOK
<1>3. CASE /\ TokensAt(now) >= Cost(weight)
           /\ bucket' = [tokens |-> TokensAt(now) - Cost(weight), lastRefill |-> now]
           /\ spent' = spent + Cost(weight)
           /\ caller' = [caller EXCEPT ![c] = Returned]
  <2>1. Returned \in Row(spent') /\ Returned.pc = "idle"
      BY <1>1, <1>3 DEF Returned
  <2>2. spent' \in Nat /\ spent' >= spent
      BY <1>1, <1>3
  <2>3. TokensAt(now) - Cost(weight) \in 0 .. Full /\ now \in 0 .. now
      BY <1>1, <1>3
  <2> QED BY <1>2, <1>3, <2>1, <2>2, <2>3
<1>4. CASE /\ TokensAt(now) < Cost(weight)
           /\ bucket' = [tokens |-> TokensAt(now), lastRefill |-> now]
           /\ spent' = spent
           /\ caller' = [caller EXCEPT ![c] =
                  [pc |-> "asleep", weight |-> weight, since |-> spent,
                   wake |-> now + CeilDiv(Cost(weight) - TokensAt(now), Rate)]]
  <2>1. CeilDiv(Cost(weight) - TokensAt(now), Rate) \in Nat
    <3>1. Cost(weight) - TokensAt(now) \in Nat \ {0}
        BY <1>1, <1>4
    <3> QED BY <3>1, CeilDivIsCeiling, BucketAssumption
  <2> DEFINE row == [pc |-> "asleep", weight |-> weight, since |-> spent,
                     wake |-> now + CeilDiv(Cost(weight) - TokensAt(now), Rate)]
  <2>2. row \in Row(spent') /\ row.weight \in Weights
      BY <1>1, <1>4, <2>1
  <2>3. now \in 0 .. now /\ spent' \in Nat /\ spent' >= spent
      BY <1>1, <1>4
  <2> HIDE DEF row
  <2>4. caller' = [caller EXCEPT ![c] = row]
      BY <1>4 DEF row
  <2> QED BY <1>1, <1>2, <1>4, <2>2, <2>3, <2>4
<1> QED BY <1>3, <1>4, ConsumeOutcome

-----------------------------------------------------------------------------
(* Types *)

LEMMA InitOK == Init => IInv
<1> SUFFICES ASSUME Init PROVE IInv
    OBVIOUS
<1>1. TypeOK
    BY FullType, LimiterBoundsAssumption DEF Init, TypeOK, Returned
<1>2. BudgetLeft
  <2> SUFFICES ASSUME NEW t \in 0 .. MaxTime, t <= now
               PROVE  spent - before[t].spent + TokensAt(now)
                          <= Full * (1 + restarts - before[t].restarts) + Rate * (now - t)
      BY DEF BudgetLeft
  <2>1. t = 0 /\ now = 0 /\ spent = 0 /\ restarts = 0 /\ before[t] = [spent |-> 0, restarts |-> 0]
      BY LimiterBoundsAssumption DEF Init
  <2>2. TokensAt(now) \in 0 .. Full
      BY <1>1, <2>1, TokensType DEF Init
  <2>3. Full * 1 = Full /\ Rate * 0 = 0
      BY FullType, BucketAssumption
  <2> QED BY <2>1, <2>2, <2>3, FullType
<1> QED BY <1>1, <1>2 DEF IInv

LEMMA TypeStep ==
    ASSUME TypeOK, [Next]_vars
    PROVE  TypeOK'
<1> USE LimiterBoundsAssumption
<1>1. ASSUME NEW c \in Callers, NEW weight \in Weights, Consume(c, weight)
      PROVE  TypeOK'
  <2>1. before' \in [0 .. MaxTime -> [spent : 0 .. spent', restarts : 0 .. restarts']]
    <3>1. spent' \in Nat /\ spent' >= spent /\ before' = before /\ restarts' = restarts
        BY <1>1, ConsumeType DEF Consume
    <3>2. 0 .. spent \subseteq 0 .. spent'
        BY <3>1 DEF TypeOK
    <3> QED BY <3>1, <3>2 DEF TypeOK
  <2>2. now' = now /\ restarts' = restarts /\ calls' \in Nat /\ TryConsume(c, weight)
      BY <1>1 DEF Consume, TypeOK
  <2> QED BY <2>1, <2>2, ConsumeType DEF TypeOK
<1>2. ASSUME NEW c \in Callers, Wake(c)
      PROVE  TypeOK'
  <2>0. caller[c].weight \in Weights /\ TryConsume(c, caller[c].weight)
      BY <1>2 DEF Wake, TypeOK
  <2>1. before' \in [0 .. MaxTime -> [spent : 0 .. spent', restarts : 0 .. restarts']]
    <3>1. spent' \in Nat /\ spent' >= spent /\ before' = before /\ restarts' = restarts
        BY <1>2, <2>0, ConsumeType DEF Wake, count
    <3>2. 0 .. spent \subseteq 0 .. spent'
        BY <3>1 DEF TypeOK
    <3> QED BY <3>1, <3>2 DEF TypeOK
  <2> QED BY <1>2, <2>0, <2>1, ConsumeType DEF Wake, count, TypeOK
<1>3. CASE Tick
  <2>1. now' \in 0 .. MaxTime /\ now' = now + 1 /\ UNCHANGED <<bucket, caller, spent, count>>
      BY <1>3 DEF Tick, TypeOK
  <2>2. bucket' \in [tokens : 0 .. Full, lastRefill : 0 .. now']
      BY <2>1 DEF TypeOK
  <2>3. before' \in [0 .. MaxTime -> [spent : 0 .. spent, restarts : 0 .. restarts]]
    <3>1. [spent |-> spent, restarts |-> restarts] \in [spent : 0 .. spent, restarts : 0 .. restarts]
        BY DEF TypeOK
    <3> QED BY <1>3, <3>1 DEF Tick, TypeOK
  <2> QED BY <2>1, <2>2, <2>3 DEF count, TypeOK
<1>4. CASE Restart
  <2>1. /\ bucket' = [tokens |-> Full, lastRefill |-> now] /\ caller' = [c \in Callers |-> Returned]
        /\ restarts' = restarts + 1 /\ UNCHANGED <<now, spent, calls, before>>
      BY <1>4 DEF Restart
  <2>2. bucket' \in [tokens : 0 .. Full, lastRefill : 0 .. now]
      BY <2>1, FullType DEF TypeOK
  <2>3. 0 .. restarts \subseteq 0 .. restarts' /\ restarts' \in Nat
      BY <2>1 DEF TypeOK
  <2>4. before' \in [0 .. MaxTime -> [spent : 0 .. spent, restarts : 0 .. restarts']]
      BY <2>1, <2>3 DEF TypeOK
  <2>5. caller' \in [Callers -> [pc : {"idle", "asleep"}, weight : Weights \cup {0},
                                wake : Nat, since : 0 .. spent]]
      BY <2>1 DEF Returned, TypeOK
  <2> QED BY <2>1, <2>2, <2>3, <2>4, <2>5 DEF TypeOK, Returned
<1>5. CASE UNCHANGED vars
    BY <1>5 DEF vars, count, TypeOK
<1> QED BY <1>1, <1>2, <1>3, <1>4, <1>5 DEF Next

-----------------------------------------------------------------------------
(* The budget *)

LEMMA BudgetTypes ==
    ASSUME TypeOK, NEW t \in 0 .. MaxTime, t <= now
    PROVE  /\ spent \in Nat /\ restarts \in Nat /\ now \in Nat /\ t \in Nat /\ now - t \in Nat
           /\ before[t].spent \in Nat /\ before[t].restarts \in Nat
           /\ before[t].restarts <= restarts
           /\ TokensAt(now) \in 0 .. Full /\ bucket.lastRefill \in Nat /\ bucket.lastRefill <= now
BY TokensType, LimiterBoundsAssumption DEF TypeOK

(* A bucket that was refilled just now holds what was stored.               *)
LEMMA TokensAfterRefill ==
    ASSUME NEW tokens \in 0 .. Full, now \in Nat, now' = now,
           bucket' = [tokens |-> tokens, lastRefill |-> now]
    PROVE  TokensAt(now)' = tokens
<1>1. bucket'.tokens = tokens /\ now' - bucket'.lastRefill = 0
    OBVIOUS
<1>2. Rate * 0 = 0
    BY BucketAssumption
<1> QED BY <1>1, <1>2, FullType DEF TokensAt

(* Taking tokens moves them from the bucket to what was spent.              *)
LEMMA ConsumeConserves ==
    ASSUME TypeOK, NEW c \in Callers, NEW weight \in Weights, TryConsume(c, weight),
           now' = now
    PROVE  spent' + TokensAt(now)' = spent + TokensAt(now)
<1>1. /\ TokensAt(now) \in 0 .. Full /\ Cost(weight) \in Nat \ {0} /\ now \in Nat
      /\ Full \in Nat /\ spent \in Nat
    BY TokensType, CostType, FullType, LimiterBoundsAssumption DEF TypeOK
<1>2. CASE /\ TokensAt(now) >= Cost(weight) /\ spent' = spent + Cost(weight)
           /\ bucket' = [tokens |-> TokensAt(now) - Cost(weight), lastRefill |-> now]
  <2>1. TokensAt(now) - Cost(weight) \in 0 .. Full
      BY <1>1, <1>2
  <2>2. TokensAt(now)' = TokensAt(now) - Cost(weight)
      BY <1>1, <1>2, <2>1, TokensAfterRefill
  <2> QED BY <1>1, <1>2, <2>2
<1>3. CASE /\ spent' = spent /\ bucket' = [tokens |-> TokensAt(now), lastRefill |-> now]
    BY <1>1, <1>3, TokensAfterRefill
<1> QED BY <1>2, <1>3, ConsumeOutcome

LEMMA BudgetStep ==
    ASSUME TypeOK, BudgetLeft, [Next]_vars
    PROVE  BudgetLeft'
<1> SUFFICES ASSUME NEW t \in 0 .. MaxTime, t <= now'
             PROVE  spent' - before'[t].spent + TokensAt(now)'
                        <= Full * (1 + restarts' - before'[t].restarts) + Rate * (now' - t)
    BY DEF BudgetLeft
<1> USE FullType, BucketAssumption
<1>1. t <= now => spent - before[t].spent + TokensAt(now)
                      <= Full * (1 + restarts - before[t].restarts) + Rate * (now - t)
    BY DEF BudgetLeft
<1>2. ASSUME now' = now, before' = before, restarts' = restarts,
             spent' + TokensAt(now)' = spent + TokensAt(now)
      PROVE  spent' - before'[t].spent + TokensAt(now)'
                 <= Full * (1 + restarts' - before'[t].restarts) + Rate * (now' - t)
  <2>1. /\ before[t].spent \in Nat /\ spent \in Nat /\ TokensAt(now) \in Nat
        /\ spent' \in Nat /\ TokensAt(now)' \in Nat
    <3>1. TypeOK'
        BY TypeStep
    <3>2. bucket'.lastRefill \in 0 .. now' /\ bucket'.tokens \in 0 .. Full /\ now' \in Nat
        BY <3>1, LimiterBoundsAssumption DEF TypeOK
    <3>3. Rate * (now' - bucket'.lastRefill) \in Nat
        BY <3>2, ProductType
    <3>4. TokensAt(now)' \in Nat
        BY <3>2, <3>3 DEF TokensAt
    <3> QED BY <1>2, <3>1, <3>4, BudgetTypes DEF TypeOK
  <2> DEFINE Right == Full * (1 + restarts - before[t].restarts) + Rate * (now - t)
  <2>2. Right \in Int
      BY <1>2, BudgetTypes
  <2>3. spent - before[t].spent + TokensAt(now) <= Right
      BY <1>1, <1>2
  <2> HIDE DEF Right
  <2>4. spent' - before[t].spent + TokensAt(now)' <= Right
      BY <1>2, <2>1, <2>2, <2>3
  <2> QED BY <1>2, <2>4 DEF Right
<1>3. ASSUME NEW c \in Callers, NEW weight \in Weights, Consume(c, weight)
      PROVE  spent' - before'[t].spent + TokensAt(now)'
                 <= Full * (1 + restarts' - before'[t].restarts) + Rate * (now' - t)
      BY <1>2, <1>3, ConsumeConserves DEF Consume
<1>4. ASSUME NEW c \in Callers, Wake(c)
      PROVE  spent' - before'[t].spent + TokensAt(now)'
                 <= Full * (1 + restarts' - before'[t].restarts) + Rate * (now' - t)
      BY <1>2, <1>4, ConsumeConserves DEF Wake, count, TypeOK
<1>5. CASE Tick
  <2>1. /\ now' = now + 1 /\ UNCHANGED <<bucket, spent, restarts>> /\ now < MaxTime /\ now \in Nat
        /\ before' = [before EXCEPT ![now + 1] = [spent |-> spent, restarts |-> restarts]]
      BY <1>5 DEF Tick, count, TypeOK
  <2>2. TokensAt(now)' = TokensAt(now + 1)
      BY <2>1 DEF TokensAt
  <2>3. /\ TokensAt(now + 1) \in 0 .. Full /\ TokensAt(now + 1) <= TokensAt(now) + Rate
        /\ TokensAt(now) \in 0 .. Full
      BY <2>1, TokensType DEF TypeOK
  <2>4. CASE t <= now
    <3>1. before'[t] = before[t]
        BY <2>1, <2>4 DEF TypeOK
    <3>2. /\ now - t \in Nat /\ before[t].spent \in Nat /\ spent \in Nat
          /\ 1 + restarts - before[t].restarts \in Nat
        BY <2>4, BudgetTypes
    <3>3. (now + 1) - t = (now - t) + 1
        BY <2>1
    <3>4. Rate * ((now - t) + 1) = Rate * (now - t) + Rate
        BY <3>2, OneMore
    <3>5. Full * (1 + restarts - before[t].restarts) \in Nat /\ Rate * (now - t) \in Nat
        BY <3>2, ProductType
    <3> DEFINE Bursts == Full * (1 + restarts - before[t].restarts)
               Refills == Rate * (now - t)
    <3>6. spent - before[t].spent + TokensAt(now) <= Bursts + Refills
        BY <1>1, <2>4
    <3>7. Bursts \in Nat /\ Refills \in Nat
        BY <3>5
    <3> HIDE DEF Bursts, Refills
    <3>8. spent - before[t].spent + TokensAt(now + 1) <= Bursts + (Refills + Rate)
        BY <2>3, <3>2, <3>6, <3>7
    <3>9. Rate * ((now + 1) - t) = Refills + Rate
        BY <3>3, <3>4 DEF Refills
    <3> QED BY <2>1, <2>2, <3>1, <3>8, <3>9 DEF Bursts
  <2>5. CASE t = now + 1
    <3>1. before'[t] = [spent |-> spent, restarts |-> restarts] /\ spent \in Nat /\ restarts \in Nat
        BY <2>1, <2>5 DEF TypeOK
    <3>2. Full * 1 = Full /\ Rate * 0 = 0
        OBVIOUS
    <3>3. now' - t = 0 /\ 1 + restarts' - before'[t].restarts = 1 /\ spent' - before'[t].spent = 0
        BY <2>1, <2>5, <3>1
    <3> QED BY <2>2, <2>3, <3>2, <3>3
  <2> QED BY <2>1, <2>4, <2>5
<1>6. CASE Restart
  <2>1. /\ bucket' = [tokens |-> Full, lastRefill |-> now]
        /\ restarts' = restarts + 1 /\ UNCHANGED <<now, spent, before>>
      BY <1>6 DEF Restart
  <2>2. TokensAt(now)' = Full
      BY <2>1, TokensAfterRefill, LimiterBoundsAssumption DEF TypeOK
  <2>3. /\ TokensAt(now) \in 0 .. Full /\ spent \in Nat /\ before[t].spent \in Nat
        /\ 1 + restarts - before[t].restarts \in Nat /\ now - t \in Nat
        /\ before[t].restarts \in Nat /\ restarts \in Nat
      BY <2>1, BudgetTypes
  <2>4. 1 + (restarts + 1) - before[t].restarts = (1 + restarts - before[t].restarts) + 1
      BY <2>3
  <2>5. Full * ((1 + restarts - before[t].restarts) + 1)
            = Full * (1 + restarts - before[t].restarts) + Full
      BY <2>3, OneMore
  <2> DEFINE Bursts == Full * (1 + restarts - before[t].restarts)
             Refills == Rate * (now - t)
  <2>6. Bursts \in Nat /\ Refills \in Nat
      BY <2>3, ProductType
  <2>7. spent - before[t].spent + TokensAt(now) <= Bursts + Refills
      BY <1>1, <2>1
  <2> HIDE DEF Bursts, Refills
  <2>8. spent - before[t].spent + Full <= (Bursts + Full) + Refills
      BY <2>3, <2>6, <2>7
  <2>9. Full * (1 + restarts' - before'[t].restarts) = Bursts + Full
      BY <2>1, <2>4, <2>5 DEF Bursts
  <2> QED BY <2>1, <2>2, <2>8, <2>9 DEF Refills
<1>7. CASE UNCHANGED vars
    BY <1>2, <1>7 DEF vars, count, TokensAt
<1> QED BY <1>3, <1>4, <1>5, <1>6, <1>7 DEF Next

(* The bucket is well formed, and what it holds is budget that no window    *)
(* has spent (tryConsume).                                                  *)
THEOREM Invariance == Spec => []IInv
<1>1. IInv /\ [Next]_vars => IInv'
    BY TypeStep, BudgetStep DEF IInv
<1> QED BY InitOK, <1>1, PTL DEF Spec

(* No window of time sees more calls than one burst and its refill, plus a  *)
(* burst for every restart in it (consume, tryConsume).                     *)
THEOREM BudgetHolds == Spec => []WindowBudget
<1>1. IInv => WindowBudget
  <2> SUFFICES ASSUME IInv, NEW t \in 0 .. MaxTime, t <= now
               PROVE  spent - before[t].spent
                          <= Full * (1 + restarts - before[t].restarts) + Rate * (now - t)
      BY DEF WindowBudget
  <2> DEFINE Right == Full * (1 + restarts - before[t].restarts) + Rate * (now - t)
  <2>1. /\ spent \in Nat /\ before[t].spent \in Nat /\ TokensAt(now) \in 0 .. Full
        /\ 1 + restarts - before[t].restarts \in Nat /\ now - t \in Nat
      BY BudgetTypes DEF IInv
  <2>2. Right \in Nat
      BY <2>1, ProductType, FullType, BucketAssumption
  <2>3. spent - before[t].spent + TokensAt(now) <= Right
      BY DEF IInv, BudgetLeft
  <2> HIDE DEF Right
  <2>4. spent - before[t].spent <= Right
      BY <2>1, <2>2, <2>3, FullType
  <2> QED BY <2>4 DEF Right
<1> QED BY <1>1, Invariance, PTL

-----------------------------------------------------------------------------
(* The delay *)

LEMMA Distribute == \A a, b, c \in Nat : a * (b + c) = a * b + a * c
OBVIOUS

(* Refilling now and again later gives what one later refill gives.         *)
LEMMA RefillTwice ==
    ASSUME TypeOK, NEW t \in Nat, t >= now,
           bucket' = [tokens |-> TokensAt(now), lastRefill |-> now]
    PROVE  TokensAt(t)' = TokensAt(t)
<1>1. /\ now \in Nat /\ bucket.lastRefill \in Nat /\ bucket.lastRefill <= now
      /\ bucket.tokens \in Nat /\ bucket.tokens <= Full /\ Full \in Nat /\ Rate \in Nat
    BY FullType, BucketAssumption, LimiterBoundsAssumption DEF TypeOK
<1> DEFINE x == t - now
           y == now - bucket.lastRefill
<1>2. x \in Nat /\ y \in Nat /\ t - bucket.lastRefill = y + x
    BY <1>1
<1>3. Rate * (y + x) = Rate * y + Rate * x /\ Rate * y \in Nat /\ Rate * x \in Nat
    BY <1>1, <1>2, Distribute, ProductType
<1>4. bucket'.tokens = TokensAt(now) /\ t - bucket'.lastRefill = x
    OBVIOUS
<1> HIDE DEF x, y
<1>5. TokensAt(now) = IF bucket.tokens + Rate * y > Full THEN Full ELSE bucket.tokens + Rate * y
    BY DEF TokensAt, y
<1>6. TokensAt(t) = IF bucket.tokens + Rate * (y + x) > Full
                    THEN Full ELSE bucket.tokens + Rate * (y + x)
    BY <1>2 DEF TokensAt
<1>7. TokensAt(t)' = IF TokensAt(now) + Rate * x > Full THEN Full ELSE TokensAt(now) + Rate * x
    BY <1>4 DEF TokensAt
<1> QED BY <1>1, <1>3, <1>5, <1>6, <1>7

(* The call that was just refused.                                          *)
LEMMA FreshSleep ==
    ASSUME TypeOK, NEW need \in Nat, need <= Full, TokensAt(now) < need,
           bucket' = [tokens |-> TokensAt(now), lastRefill |-> now]
    PROVE  \A wake \in Nat : wake = now + CeilDiv(need - TokensAt(now), Rate) =>
               /\ wake > now
               /\ TokensAt(wake)' >= need
               /\ TokensAt(wake - 1)' < need
<1> SUFFICES ASSUME NEW wake \in Nat, wake = now + CeilDiv(need - TokensAt(now), Rate)
             PROVE  wake > now /\ TokensAt(wake)' >= need /\ TokensAt(wake - 1)' < need
    OBVIOUS
<1> DEFINE deficit == need - TokensAt(now)
           q == CeilDiv(deficit, Rate)
<1>1. now \in Nat /\ TokensAt(now) \in Nat /\ Full \in Nat
    BY TokensType, FullType, LimiterBoundsAssumption DEF TypeOK
<1>2. deficit \in Nat \ {0}
    BY <1>1
<1>3. q \in Nat \ {0} /\ Rate * q >= deficit /\ Rate * (q - 1) < deficit
    BY <1>2, CeilDivIsCeiling, BucketAssumption
<1>4. Rate * q \in Nat /\ Rate * (q - 1) \in Nat
    BY <1>3, ProductType, BucketAssumption
<1>5. bucket'.tokens = TokensAt(now) /\ wake - bucket'.lastRefill = q
      /\ (wake - 1) - bucket'.lastRefill = q - 1
    BY <1>1, <1>3
<1> HIDE DEF q
<1>6. TokensAt(wake)' = IF TokensAt(now) + Rate * q > Full THEN Full ELSE TokensAt(now) + Rate * q
    BY <1>5 DEF TokensAt
<1>7. TokensAt(wake - 1)' = IF TokensAt(now) + Rate * (q - 1) > Full
                            THEN Full ELSE TokensAt(now) + Rate * (q - 1)
    BY <1>5 DEF TokensAt
<1>8. wake > now
    BY <1>1, <1>3 DEF q
<1> QED BY <1>1, <1>3, <1>4, <1>6, <1>7, <1>8

LEMMA SleepConsume ==
    ASSUME TypeOK, SleepIsExact, NEW c \in Callers, NEW weight \in Weights,
           TryConsume(c, weight), now' = now
    PROVE  SleepIsExact'
<1> SUFFICES ASSUME NEW d \in Callers, caller'[d].pc = "asleep", spent' = caller'[d].since,
                    now <= caller'[d].wake
             PROVE  /\ TokensAt(caller[d].wake)' >= Cost(caller'[d].weight)
                    /\ now < caller'[d].wake =>
                           TokensAt(caller[d].wake - 1)' < Cost(caller'[d].weight)
    BY DEF SleepIsExact
<1>1. /\ TokensAt(now) \in 0 .. Full /\ Cost(weight) \in Nat \ {0} /\ Cost(weight) <= Full
      /\ now \in Nat /\ Full \in Nat /\ spent \in Nat
    BY TokensType, CostType, FullType, LimiterBoundsAssumption DEF TypeOK
<1>2. CASE /\ spent' = spent + Cost(weight) /\ caller' = [caller EXCEPT ![c] = Returned]
  <2>1. d # c /\ caller'[d] = caller[d]
      BY <1>2 DEF Returned, TypeOK
  <2>2. caller[d].since \in Nat /\ caller[d].since <= spent
      BY <1>1 DEF TypeOK
  <2>3. caller[d].since = spent + Cost(weight)
      BY <1>2, <2>1
  <2>4. PICK cost \in Nat \ {0} : cost = Cost(weight)
      BY <1>1
  <2>5. FALSE
      BY <1>1, <2>2, <2>3, <2>4
  <2> QED BY <2>5
<1>3. CASE /\ TokensAt(now) < Cost(weight) /\ spent' = spent
           /\ bucket' = [tokens |-> TokensAt(now), lastRefill |-> now]
           /\ caller' = [caller EXCEPT ![c] =
                  [pc |-> "asleep", weight |-> weight, since |-> spent,
                   wake |-> now + CeilDiv(Cost(weight) - TokensAt(now), Rate)]]
  <2>0. caller'[d].wake \in Nat
    <3>1. caller' \in [Callers -> [pc : {"idle", "asleep"}, weight : Weights \cup {0},
                                  wake : Nat, since : 0 .. spent']]
        BY ConsumeType
    <3> QED BY <3>1
  <2> PICK wake \in Nat : wake = caller'[d].wake
      BY <2>0
  <2>1. CASE d = c
    <3>1. caller'[d].weight = weight
          /\ wake = now + CeilDiv(Cost(weight) - TokensAt(now), Rate)
        BY <1>3, <2>1 DEF TypeOK
    <3> QED BY <1>1, <1>3, <3>1, FreshSleep
  <2>2. CASE d # c
    <3>1. caller'[d] = caller[d]
        BY <1>3, <2>2 DEF TypeOK
    <3>2. /\ TokensAt(wake) >= Cost(caller[d].weight)
          /\ now < wake => TokensAt(wake - 1) < Cost(caller[d].weight)
        BY <1>3, <3>1 DEF SleepIsExact
    <3>3. TokensAt(wake)' = TokensAt(wake)
        BY <1>3, <3>1, RefillTwice
    <3>4. now < wake => TokensAt(wake - 1)' = TokensAt(wake - 1)
        BY <1>1, <1>3, RefillTwice
    <3> QED BY <3>1, <3>2, <3>3, <3>4
  <2> QED BY <2>1, <2>2
<1> QED BY <1>2, <1>3, ConsumeOutcome

(* A refused call sleeps exactly until its own tokens are back, whatever    *)
(* other calls ask for meanwhile without being served (tryConsume).         *)
THEOREM SleepsExactly == Spec => []SleepIsExact
<1>1. Init => SleepIsExact
    BY DEF Init, SleepIsExact, Returned
<1>2. ASSUME TypeOK, SleepIsExact, [Next]_vars
      PROVE  SleepIsExact'
  <2>1. ASSUME NEW c \in Callers, NEW weight \in Weights, Consume(c, weight)
        PROVE  SleepIsExact'
        BY <1>2, <2>1, SleepConsume DEF Consume
  <2>2. ASSUME NEW c \in Callers, Wake(c)
        PROVE  SleepIsExact'
        BY <1>2, <2>2, SleepConsume DEF Wake, TypeOK
  <2>3. CASE Tick
    <3>1. now' = now + 1 /\ UNCHANGED <<bucket, caller, spent>> /\ now \in Nat
          /\ \A c \in Callers : caller[c].wake \in Nat
        BY <1>2, <2>3, LimiterBoundsAssumption DEF Tick, TypeOK
    <3>2. \A t : TokensAt(t)' = TokensAt(t)
        BY <3>1 DEF TokensAt
    <3> QED BY <1>2, <3>1, <3>2 DEF SleepIsExact, TokensAt
  <2>4. CASE Restart
        BY <2>4 DEF Restart, SleepIsExact, Returned
  <2>5. CASE UNCHANGED vars
        BY <1>2, <2>5 DEF vars, SleepIsExact, TokensAt
  <2> QED BY <1>2, <2>1, <2>2, <2>3, <2>4, <2>5 DEF Next
<1>3. IInv => TypeOK
    BY DEF IInv
<1> QED BY <1>1, <1>2, <1>3, Invariance, PTL DEF Spec

-----------------------------------------------------------------------------
(* The adapters over the limiter *)

(* Every step of the adapters is a step of the limiter, or none.            *)
LEMMA AdaptersStepTheLimiter == [AdaptersNext]_adapters => [Next]_vars
<1> SUFFICES ASSUME [AdaptersNext]_adapters PROVE [Next]_vars
    OBVIOUS
<1>1. ASSUME NEW c \in Callers, Consume(c, 1) PROVE Next
    BY <1>1, RequestAssumption DEF Next
<1>2. ASSUME NEW c \in Callers, NEW op \in {"place", "cancel", "fetch"}, Begin(c, op)
      PROVE  Next
    BY <1>1, <1>2 DEF Begin
<1>3. ASSUME NEW c \in Callers, Run(c) PROVE [Next]_vars
    BY <1>1, <1>3
       DEF Run, TryAgain, Send, parse, ReturnOrder, ReadBack, Request, ReturnNothing, Abort,
           Return, Next
<1>4. ASSUME NEW j, NEW o, NEW visible, Becomes(j, o, visible) PROVE UNCHANGED vars
    BY <1>4 DEF Becomes
<1>5. ASSUME NEW c \in Callers, TurnAway(c) \/ Accept(c) \/ AcceptCancel(c) \/ Read(c)
      PROVE  UNCHANGED vars
    BY <1>4, <1>5 DEF TurnAway, Accept, AcceptCancel, Read
<1>6. CASE Publish \/ Trade \/ Close
    BY <1>4, <1>6 DEF Publish, Trade, Close
<1>7. CASE AdaptersTick \/ AdaptersRestart
    BY <1>7 DEF AdaptersTick, AdaptersRestart, Next
<1>8. CASE UNCHANGED adapters
    BY <1>8 DEF adapters
<1> QED BY <1>2, <1>3, <1>5, <1>6, <1>7, <1>8 DEF AdaptersNext

(* The adapters use the limiter as its specification says (signed:          *)
(* rateLimiter.consume before every request).                               *)
THEOREM AdaptersUseTheLimiter == AdaptersSpec => Spec
<1>1. AdaptersInit => Init
    BY DEF AdaptersInit
<1> QED BY <1>1, AdaptersStepTheLimiter, PTL DEF AdaptersSpec, Spec

(* An order survives the words of either exchange (toOrderResult).          *)
LEMMA WordsAreKnown ==
    ASSUME exchange \in {"BINANCE", "BYBIT"}, NEW o \in Orders
    PROVE  /\ Told(o) \in Tellings /\ Told(o) # NoOrder
           /\ OrderResult(Told(o)) = o
<1>1. o # NoOrder /\ o.filled \in Nat /\ o.status \in Open \cup Closed
    BY NoOrderAssumption DEF Orders
<1>2. Told(o) = [word |-> Word(o), filled |-> o.filled]
    BY <1>1 DEF Told
<1>3. /\ Word(o) \in Open \cup Closed \cup DOMAIN STATUS_MAP
      /\ (IF exchange = "BYBIT" THEN STATUS_MAP[Word(o)] ELSE Word(o)) = o.status
  <2>1. CASE exchange = "BINANCE"
      BY <1>1, <2>1 DEF Word, Open, Closed
  <2>2. CASE exchange = "BYBIT"
    <3>1. Word(o) = BybitWord(o)
        BY <2>2 DEF Word
    <3>2. CASE o.status = "NEW"
        BY <3>1, <3>2, <2>2 DEF BybitWord, STATUS_MAP, Open, Closed
    <3>3. CASE o.status = "PARTIALLY_FILLED"
        BY <3>1, <3>3, <2>2 DEF BybitWord, STATUS_MAP, Open, Closed
    <3>4. CASE o.status = "FILLED"
        BY <3>1, <3>4, <2>2 DEF BybitWord, STATUS_MAP, Open, Closed
    <3>5. CASE o.status = "CANCELED" /\ o.filled = 0
        BY <3>1, <3>5, <2>2 DEF BybitWord, STATUS_MAP, Open, Closed
    <3>6. CASE o.status = "CANCELED" /\ o.filled > 0
        BY <3>1, <3>6, <2>2 DEF BybitWord, STATUS_MAP, Open, Closed
    <3>7. CASE o.status = "REJECTED"
        BY <3>1, <3>7, <2>2 DEF BybitWord, STATUS_MAP, Open, Closed
    <3>8. CASE o.status = "EXPIRED"
        BY <3>1, <3>8, <2>2 DEF BybitWord, STATUS_MAP, Open, Closed
    <3> QED BY <1>1, <3>2, <3>3, <3>4, <3>5, <3>6, <3>7, <3>8 DEF Open, Closed
  <2> QED BY <2>1, <2>2
<1>4. OrderResult(Told(o)) = [status |-> o.status, filled |-> o.filled]
    BY <1>2, <1>3 DEF OrderResult
<1>5. o = [status |-> o.status, filled |-> o.filled]
    BY DEF Orders
<1>6. Told(o) \in Tellings
    BY <1>1, <1>2, <1>3 DEF Tellings
<1> QED BY <1>4, <1>5, <1>6, NoOrderAssumption

LEMMA FacesType ==
    ASSUME NEW o \in Orders \cup {NoOrder}, NEW visible \in BOOLEAN
    PROVE  Faces(o, visible) \subseteq Orders \cup {NoOrder} /\ o \in Faces(o, visible)
BY DEF Faces

LEMMA StepsAreKnown ==
    /\ Paths = <<"realtime", "history">> /\ Paths[1] = "realtime" /\ Paths[2] = "history"
    /\ \A op \in {"place", "cancel", "fetch"} : exchange \in {"BINANCE", "BYBIT"} =>
           /\ FirstStep(op) \in {"create", "cancel", "realtime", "read"}
           /\ FirstStep(op) = "create" <=> op = "place"
BY DEF Paths, FirstStep

LEMMA NothingIsAJob == /\ NoJob \in Jobs /\ NoResult \in Results
                       /\ \A result \in Results : [NoJob EXCEPT !.result = result] \in Jobs
<1>1. NoResult \in Results
    BY DEF NoResult, Results, Steps
<1>2. NoJob \in Jobs
    BY <1>1 DEF NoJob, Jobs, NoReply, Replied, Steps
<1> QED BY <1>1, <1>2 DEF Jobs

(* What the calls of an adapter return.                                     *)
LEMMA OutcomesAreResults ==
    /\ PlainError \in Results
    /\ \A step \in Steps : \A retryable \in BOOLEAN : ExchangeError(step, retryable) \in Results
    /\ \A step \in Steps : [ExchangeError(step, FALSE) EXCEPT !.heard = FALSE] \in Results
    /\ \A j, o : Answer(j, o) \in Results
    /\ \A j : Null(j) \in Results
<1>1. /\ PlainError \in Results
      /\ \A step \in Steps : \A retryable \in BOOLEAN : ExchangeError(step, retryable) \in Results
      /\ \A step \in Steps : [ExchangeError(step, FALSE) EXCEPT !.heard = FALSE] \in Results
    BY NothingIsAJob DEF PlainError, ExchangeError, Results
<1>2. \A kind \in {"order", "null"}, seen \in BOOLEAN :
          [NoResult EXCEPT !.kind = kind, !.seen = seen] \in Results
    BY NothingIsAJob DEF Results
<1>3. \A o, seen : (o \in seen) \in BOOLEAN
    OBVIOUS
<1>4. \A j, o : Answer(j, o) \in Results
    BY <1>2, <1>3, Zenon DEF Answer
<1>5. \A j : Null(j) \in Results
    BY <1>2, <1>3, Zenon DEF Null
<1> QED BY <1>1, <1>4, <1>5

(* What a step of the exchange does to the calls, whatever it answers.      *)
LEMMA BecomesType ==
    ASSUME AdaptersTypeOK, NEW j \in [Callers -> Jobs], NEW o \in Orders \cup {NoOrder},
           NEW visible \in BOOLEAN, Becomes(j, o, visible)
    PROVE  AdaptersTypeOK'
<1>1. ASSUME NEW c \in Callers
      PROVE  (IF j[c].phase = "idle" THEN j[c]
              ELSE [j[c] EXCEPT !.seen = @ \cup Faces(o, visible)]) \in Jobs
    BY FacesType DEF Jobs
<1> QED BY <1>1 DEF Becomes, AdaptersTypeOK

LEMMA RepliesType ==
    ASSUME AdaptersTypeOK, NEW c \in Callers, NEW reply \in Replied
    PROVE  Replies(c, reply.kind, reply.told) \in [Callers -> Jobs]
<1>1. reply = [kind |-> reply.kind, told |-> reply.told]
    BY DEF Replied
<1>2. [job[c] EXCEPT !.phase = "answered", !.reply = reply] \in Jobs
    BY DEF AdaptersTypeOK, Jobs
<1> QED BY <1>1, <1>2 DEF Replies, AdaptersTypeOK

(* What an answer says is so when the call has seen o, shown or not.        *)
SaysTrue(c, reply, o, visible) ==
    reply.kind = "ok" =>
        /\ reply.told # NoOrder => OrderResult(reply.told) \in Faces(o, visible)
        /\ reply.told = NoOrder /\ job[c].step \in {"read", "history"} =>
               NoOrder \in job[c].seen \cup Faces(o, visible)
        /\ reply.told = NoOrder /\ job[c].step = "realtime" =>
               NoOrder \in Faces(o, visible) \/ (o # NoOrder /\ o.status \in Closed)

(* An order changes while it is open, and only its creation makes one; the  *)
(* answer to that creation is not a refusal.                                *)
MayBecome(c, reply, o) ==
    /\ o # order => /\ o # NoOrder
                    /\ order = NoOrder => job[c].step = "create"
                    /\ order # NoOrder => order.status \in Open
    /\ job[c].step = "create" /\ order = NoOrder /\ o # NoOrder =>
           reply.kind \in {"ok", "cut", "down", "lost"}

(* The four answers of the exchange.                                        *)
LEMMA AnswerShape ==
    ASSUME AdaptersTypeOK, NEW c \in Callers, UpToDate(c), RepliesAreTrue(c),
           TurnAway(c) \/ Accept(c) \/ AcceptCancel(c) \/ Read(c)
    PROVE  /\ job[c].phase = "sent"
           /\ \E reply \in Replied, o \in Orders \cup {NoOrder}, visible \in BOOLEAN :
                 /\ Becomes(Replies(c, reply.kind, reply.told), o, visible)
                 /\ SaysTrue(c, reply, o, visible) /\ MayBecome(c, reply, o)
<1>1. job[c].phase = "sent"
    BY DEF TurnAway, Accept, AcceptCancel, Read, Arrives
<1>2. CASE TurnAway(c)
  <2>1. PICK kind \in {"stale", "limited", "auth", "refused", "down"} :
            Becomes(Replies(c, kind, NoOrder), order, shown)
      BY <1>2 DEF TurnAway
  <2> DEFINE reply == [kind |-> kind, told |-> NoOrder]
  <2>2. reply \in Replied /\ reply.kind = kind /\ reply.told = NoOrder
      BY DEF Replied
  <2> HIDE DEF reply
  <2>3. SaysTrue(c, reply, order, shown) /\ MayBecome(c, reply, order)
      BY <2>2 DEF SaysTrue, MayBecome
  <2> QED BY <1>1, <2>1, <2>2, <2>3 DEF AdaptersTypeOK
<1>3. CASE Accept(c)
  <2> DEFINE o == [status |-> "NEW", filled |-> 0]
  <2>1. PICK kind \in {"ok", "cut", "down", "lost"}, visible \in BOOLEAN :
            Becomes(Replies(c, kind, IF kind = "ok" THEN Told(o) ELSE NoOrder), o, visible)
      BY <1>3 DEF Accept
  <2> DEFINE reply == [kind |-> kind, told |-> IF kind = "ok" THEN Told(o) ELSE NoOrder]
  <2>2. o \in Orders /\ o # NoOrder
      BY NoOrderAssumption DEF Orders, Open
  <2>3. job[c].step = "create" /\ order = NoOrder
      BY <1>3 DEF Accept
  <2> HIDE DEF o
  <2>4. Told(o) \in Tellings /\ Told(o) # NoOrder /\ OrderResult(Told(o)) = o
      BY <2>2, WordsAreKnown DEF AdaptersTypeOK
  <2>5. /\ reply \in Replied /\ reply.kind = kind
        /\ reply.told = IF kind = "ok" THEN Told(o) ELSE NoOrder
      BY <2>4 DEF Replied
  <2> HIDE DEF reply
  <2>6. SaysTrue(c, reply, o, visible) /\ MayBecome(c, reply, o)
      BY <2>2, <2>3, <2>4, <2>5 DEF SaysTrue, MayBecome, Faces
  <2> QED BY <1>1, <2>1, <2>2, <2>5, <2>6
<1>4. CASE AcceptCancel(c)
  <2> DEFINE o == [order EXCEPT !.status = "CANCELED"]
  <2>1. PICK kind \in {"ok", "cut", "down", "lost"} :
            Becomes(Replies(c, kind, IF kind = "ok" THEN Told(o) ELSE NoOrder), o, shown)
      BY <1>4 DEF AcceptCancel
  <2> DEFINE reply == [kind |-> kind, told |-> IF kind = "ok" THEN Told(o) ELSE NoOrder]
  <2>2. order # NoOrder /\ order.status \in Open /\ order \in Orders /\ job[c].step = "cancel"
      BY <1>4 DEF AcceptCancel, View, AdaptersTypeOK
  <2>3. o \in Orders /\ o # NoOrder
      BY <2>2, NoOrderAssumption DEF Orders, Open, Closed
  <2> HIDE DEF o
  <2>4. Told(o) \in Tellings /\ Told(o) # NoOrder /\ OrderResult(Told(o)) = o
      BY <2>3, WordsAreKnown DEF AdaptersTypeOK
  <2>5. /\ reply \in Replied /\ reply.kind = kind
        /\ reply.told = IF kind = "ok" THEN Told(o) ELSE NoOrder
      BY <2>4 DEF Replied
  <2> HIDE DEF reply
  <2>6. SaysTrue(c, reply, o, shown) /\ MayBecome(c, reply, o)
      BY <2>2, <2>3, <2>4, <2>5 DEF SaysTrue, MayBecome, Faces
  <2> QED BY <1>1, <2>1, <2>3, <2>5, <2>6 DEF AdaptersTypeOK
<1>5. CASE Read(c)
  <2> DEFINE shows == Shows(job[c].step)
  <2>1. PICK kind \in {"ok", "cut"} :
            Becomes(Replies(c, kind, IF kind = "ok" THEN shows ELSE NoOrder), order, shown)
      BY <1>5 DEF Read
  <2> DEFINE reply == [kind |-> kind, told |-> IF kind = "ok" THEN shows ELSE NoOrder]
  <2>2. job[c].step \in {"read", "realtime", "history"} /\ Busy(c)
      BY <1>1, <1>5 DEF Read, Busy
  <2>3. View = NoOrder => NoOrder \in Faces(order, shown)
      BY DEF View, Faces, AdaptersTypeOK
  <2>4. View # NoOrder =>
            /\ View = order /\ order \in Orders /\ Told(order) \in Tellings
            /\ Told(order) # NoOrder /\ OrderResult(Told(order)) = order
            /\ order \in Faces(order, shown)
      BY WordsAreKnown DEF View, Faces, AdaptersTypeOK
  <2>5. /\ shows # NoOrder => View # NoOrder /\ shows = Told(order)
        /\ shows = NoOrder /\ View # NoOrder =>
               /\ job[c].step # "read"
               /\ job[c].step = "realtime" => order.status \in Closed
               /\ job[c].step = "history" => order.status \in Open
    <3>1. CASE job[c].step = "read"
        BY <2>4, <3>1 DEF Shows, Orders
    <3>2. CASE job[c].step = "realtime"
        BY <2>4, <3>2 DEF Shows, Orders
    <3>3. CASE job[c].step = "history"
        BY <2>4, <3>3 DEF Shows, Orders
    <3> QED BY <2>2, <3>1, <3>2, <3>3
  <2>6. job[c].step = "history" => NotOpen(c)
      BY <2>2 DEF RepliesAreTrue
  <2>7. shows \in Tellings \cup {NoOrder}
      BY <2>4, <2>5
  <2> HIDE DEF shows
  <2>8. /\ reply \in Replied /\ reply.kind = kind
        /\ reply.told = IF kind = "ok" THEN shows ELSE NoOrder
      BY <2>7 DEF Replied
  <2> HIDE DEF reply
  <2>9. SaysTrue(c, reply, order, shown)
    <3>1. ASSUME reply.kind = "ok", reply.told # NoOrder
          PROVE  OrderResult(reply.told) \in Faces(order, shown)
        BY <2>4, <2>5, <2>8, <3>1
    <3>2. ASSUME reply.kind = "ok", reply.told = NoOrder, job[c].step \in {"read", "history"}
          PROVE  NoOrder \in job[c].seen \cup Faces(order, shown)
        BY <2>3, <2>5, <2>6, <2>8, <3>2 DEF NotOpen, Open, Closed
    <3>3. ASSUME reply.kind = "ok", reply.told = NoOrder, job[c].step = "realtime"
          PROVE  NoOrder \in Faces(order, shown) \/ (order # NoOrder /\ order.status \in Closed)
        BY <2>3, <2>4, <2>5, <2>8, <3>3, NoOrderAssumption
    <3> QED BY <3>1, <3>2, <3>3 DEF SaysTrue
  <2>10. MayBecome(c, reply, order)
      BY DEF MayBecome
  <2> QED BY <1>1, <2>1, <2>8, <2>9, <2>10 DEF AdaptersTypeOK
<1> QED BY <1>1, <1>2, <1>3, <1>4, <1>5

(* What the exchange does of itself.                                        *)
LEMMA MarketShape ==
    ASSUME AdaptersTypeOK, Publish \/ Trade \/ Close
    PROVE  \E o \in Orders, visible \in BOOLEAN :
               /\ Becomes(job, o, visible) /\ order # NoOrder
               /\ o # order => order.status \in Open
<1>1. CASE Publish
    BY <1>1 DEF Publish, AdaptersTypeOK
<1>2. CASE Trade
  <2> DEFINE o == [filled |-> order.filled + 1,
                   status |-> IF order.filled + 1 = Quantity THEN "FILLED" ELSE "PARTIALLY_FILLED"]
  <2>1. order # NoOrder /\ order.status \in Open /\ Becomes(job, o, shown) /\ order \in Orders
      BY <1>2 DEF Trade, AdaptersTypeOK
  <2>2. o \in Orders
      BY <2>1 DEF Orders, Open, Closed
  <2> QED BY <2>1, <2>2 DEF AdaptersTypeOK
<1>3. CASE Close
  <2>1. PICK status \in Closed : Becomes(job, [order EXCEPT !.status = status], shown)
      BY <1>3 DEF Close
  <2>2. order # NoOrder /\ order.status \in Open /\ order \in Orders
      BY <1>3 DEF Close, AdaptersTypeOK
  <2>3. [order EXCEPT !.status = status] \in Orders
      BY <2>2 DEF Orders
  <2> QED BY <2>1, <2>2, <2>3 DEF AdaptersTypeOK
<1> QED BY <1>1, <1>2, <1>3

(* A step of a call itself: the shape, and the calls it leaves alone.       *)
LEMMA OwnShape ==
    ASSUME AdaptersTypeOK, TypeOK, NEW c \in Callers,
           (\E op \in {"place", "cancel", "fetch"} : Begin(c, op)) \/ Run(c)
    PROVE  /\ UNCHANGED <<exchange, order, shown>>
           /\ \A d \in Callers \ {c} : job'[d] = job[d]
           /\ AdaptersTypeOK'
<1> USE StepsAreKnown, NothingIsAJob
<1>1. ASSUME NEW j \in Jobs, job' = [job EXCEPT ![c] = j], UNCHANGED <<exchange, order, shown>>,
             placed' \in BOOLEAN
      PROVE  /\ UNCHANGED <<exchange, order, shown>>
             /\ \A d \in Callers \ {c} : job'[d] = job[d]
             /\ AdaptersTypeOK'
    BY <1>1 DEF AdaptersTypeOK
<1>2. job[c] \in Jobs
    BY DEF AdaptersTypeOK
<1>3. ASSUME NEW step \in Steps, Request(c, step), UNCHANGED market
      PROVE  /\ UNCHANGED <<exchange, order, shown>>
             /\ \A d \in Callers \ {c} : job'[d] = job[d]
             /\ AdaptersTypeOK'
  <2>1. [job[c] EXCEPT !.step = step, !.phase = "queued", !.reply = NoReply] \in Jobs
      BY <1>2 DEF Jobs, NoReply, Replied
  <2> QED BY <1>1, <1>3, <2>1 DEF Request, market, AdaptersTypeOK
<1>4. ASSUME NEW result \in Results, Return(c, result)
      PROVE  /\ UNCHANGED <<exchange, order, shown>>
             /\ \A d \in Callers \ {c} : job'[d] = job[d]
             /\ AdaptersTypeOK'
    BY <1>1, <1>4 DEF Return, market, AdaptersTypeOK
<1>5. ASSUME NEW op \in {"place", "cancel", "fetch"}, Begin(c, op)
      PROVE  /\ UNCHANGED <<exchange, order, shown>>
             /\ \A d \in Callers \ {c} : job'[d] = job[d]
             /\ AdaptersTypeOK'
  <2>1. FirstStep(op) \in Steps /\ Faces(order, shown) \in SUBSET (Orders \cup {NoOrder})
      BY FacesType DEF Steps, AdaptersTypeOK
  <2>2. [NoJob EXCEPT !.op = op, !.step = FirstStep(op), !.phase = "queued",
                      !.seen = Faces(order, shown)] \in Jobs
      BY <2>1 DEF Jobs
  <2>3. placed' \in BOOLEAN
      BY <1>5, Zenon DEF Begin, AdaptersTypeOK
  <2> QED BY <1>1, <1>5, <2>2, <2>3 DEF Begin
<1>6. CASE TryAgain(c)
    BY <1>6 DEF TryAgain, market, AdaptersTypeOK
<1>7. CASE Send(c)
  <2>1. now \in Nat
      BY LimiterBoundsAssumption DEF TypeOK
  <2>2. [job[c] EXCEPT !.phase = "sent", !.stamp = now, !.sent = now] \in Jobs
      BY <1>2, <2>1 DEF Jobs
  <2> QED BY <1>1, <1>7, <2>2 DEF Send, market, AdaptersTypeOK
<1>8. CASE parse(c)
  <2>1. CASE job[c].reply.kind # "cut"
    <3>1. (job[c].reply.kind \in {"limited", "down"}) \in BOOLEAN
        OBVIOUS
    <3>2. job[c].step \in Steps
        BY <1>2 DEF Jobs
    <3> QED BY <1>4, <1>8, <2>1, <3>1, <3>2, OutcomesAreResults, Zenon DEF parse
  <2>2. CASE job[c].reply.kind = "cut" /\ exchange = "BYBIT"
      BY <1>2, <1>4, <1>8, <2>2, OutcomesAreResults DEF parse, Jobs
  <2>3. CASE job[c].reply.kind = "cut" /\ exchange = "BINANCE"
      BY <1>4, <1>8, <2>3, OutcomesAreResults DEF parse
  <2> QED BY <2>1, <2>2, <2>3 DEF AdaptersTypeOK
<1>9. CASE ReturnOrder(c)
    BY <1>4, <1>9, OutcomesAreResults DEF ReturnOrder
<1>10. CASE ReadBack(c)
    BY <1>3, <1>10 DEF ReadBack, Steps
<1>11. CASE ReturnNothing(c)
  <2>1. job[c].step \in Steps
      BY <1>2 DEF Jobs
  <2>2. ExchangeError(job[c].step, job[c].op = "place") \in Results /\ Null(job[c]) \in Results
    <3>1. (job[c].op = "place") \in BOOLEAN
        BY Zenon
    <3> QED BY <2>1, <3>1, OutcomesAreResults, Zenon
  <2> QED BY <1>4, <1>11, <2>2 DEF ReturnNothing
<1>12. CASE Abort(c)
    BY <1>4, <1>12, OutcomesAreResults DEF Abort
<1> QED BY <1>5, <1>6, <1>7, <1>8, <1>9, <1>10, <1>11, <1>12 DEF Run

-----------------------------------------------------------------------------
(* Answers are true *)

SeenInv ==
    /\ AdaptersTypeOK
    /\ \A c \in Callers : UpToDate(c) /\ RepliesAreTrue(c)
    /\ AnswersAreTrue

(* Whatever becomes of the order, a call in progress has seen it, and what  *)
(* was not among the open orders does not open again.                       *)
LEMMA BecomesSees ==
    ASSUME SeenInv, NEW j \in [Callers -> Jobs], NEW o \in Orders \cup {NoOrder},
           NEW visible \in BOOLEAN, Becomes(j, o, visible),
           o # order => o # NoOrder /\ (order # NoOrder => order.status \in Open),
           NEW c \in Callers, j[c] = job[c]
    PROVE  UpToDate(c)' /\ RepliesAreTrue(c)' /\ job'[c].result.seen
<1>1. job[c] \in Jobs /\ job \in [Callers -> Jobs] /\ UpToDate(c) /\ RepliesAreTrue(c)
      /\ job[c].result.seen
    BY DEF SeenInv, AdaptersTypeOK, AnswersAreTrue
<1>2. CASE job[c].phase = "idle"
    BY <1>1, <1>2 DEF Becomes, UpToDate, RepliesAreTrue, Busy, ShowsNone, Said, Answered, Jobs
<1>3. CASE job[c].phase # "idle"
  <2>1. /\ job'[c] = [job[c] EXCEPT !.seen = job[c].seen \cup Faces(o, visible)]
        /\ order' = o /\ shown' = visible /\ exchange' = exchange
      BY <1>1, <1>3 DEF Becomes
  <2>2. /\ job'[c].seen = job[c].seen \cup Faces(o, visible)
        /\ job'[c].phase = job[c].phase /\ job'[c].reply = job[c].reply
        /\ job'[c].step = job[c].step /\ job'[c].result = job[c].result
      BY <1>1, <2>1 DEF Jobs
  <2>3. UpToDate(c)'
      BY <1>1, <2>1, <2>2 DEF UpToDate, Busy
  <2>4. NotOpen(c) => NotOpen(c)'
      BY <2>1, <2>2 DEF NotOpen, Open, Closed
  <2>5. RepliesAreTrue(c)'
      BY <1>1, <2>1, <2>2, <2>4
         DEF RepliesAreTrue, ShowsNone, Said, Answered, Busy, OrderResult
  <2> QED BY <1>1, <2>2, <2>3, <2>5
<1> QED BY <1>2, <1>3

(* The call that is answered.                                               *)
LEMMA AnswerSees ==
    ASSUME SeenInv, NEW c \in Callers, job[c].phase = "sent", NEW reply \in Replied,
           NEW o \in Orders \cup {NoOrder}, NEW visible \in BOOLEAN,
           Becomes(Replies(c, reply.kind, reply.told), o, visible),
           SaysTrue(c, reply, o, visible), MayBecome(c, reply, o)
    PROVE  UpToDate(c)' /\ RepliesAreTrue(c)' /\ job'[c].result.seen
<1>1. job[c] \in Jobs /\ job \in [Callers -> Jobs] /\ UpToDate(c) /\ RepliesAreTrue(c)
      /\ job[c].result.seen
    BY DEF SeenInv, AdaptersTypeOK, AnswersAreTrue
<1>2. Replies(c, reply.kind, reply.told)[c] = [job[c] EXCEPT !.phase = "answered", !.reply = reply]
  <2>1. reply = [kind |-> reply.kind, told |-> reply.told]
      BY DEF Replied
  <2> QED BY <1>1, <2>1 DEF Replies
<1>3. /\ job'[c].seen = job[c].seen \cup Faces(o, visible)
      /\ job'[c].phase = "answered" /\ job'[c].reply = reply
      /\ job'[c].step = job[c].step /\ job'[c].result = job[c].result
      /\ order' = o /\ shown' = visible /\ exchange' = exchange
    BY <1>1, <1>2 DEF Becomes, Jobs
<1>4. UpToDate(c)'
    BY <1>1, <1>3 DEF UpToDate, Busy
<1>5. job[c].step = "history" => NotOpen(c)'
    BY <1>1, <1>3 DEF RepliesAreTrue, Busy, NotOpen, MayBecome, Open, Closed
<1>6. ShowsNone(c)' /\ job[c].step = "realtime" => NotOpen(c)'
    BY <1>3 DEF SaysTrue, NotOpen, ShowsNone, Said
<1>7. Said(c, "ok")' /\ reply.told # NoOrder => OrderResult(reply.told)' \in job'[c].seen
    BY <1>3 DEF SaysTrue, Said, OrderResult
<1>8. ShowsNone(c)' /\ job[c].step \in {"read", "history"} => NoOrder \in job'[c].seen
    BY <1>3 DEF SaysTrue, ShowsNone, Said
<1>9. RepliesAreTrue(c)'
    BY <1>3, <1>5, <1>6, <1>7, <1>8 DEF RepliesAreTrue, OrderResult
<1> QED BY <1>1, <1>3, <1>4, <1>9

(* What a call returns was seen.                                            *)
LEMMA ReturnSees ==
    ASSUME SeenInv, NEW c \in Callers, NEW result \in Results, Return(c, result), result.seen
    PROVE  UpToDate(c)' /\ RepliesAreTrue(c)' /\ job'[c].result.seen
<1>1. job'[c] = [NoJob EXCEPT !.result = result]
    BY DEF Return, SeenInv, AdaptersTypeOK
<1>2. job'[c].phase = "idle" /\ job'[c].result = result
    BY <1>1 DEF NoJob
<1> QED BY <1>2 DEF UpToDate, RepliesAreTrue, ShowsNone, Said, Answered, Busy

(* A call that asks again.                                                  *)
LEMMA RequestSees ==
    ASSUME SeenInv, NEW c \in Callers, NEW step \in Steps, Request(c, step), UNCHANGED market,
           Busy(c), step = "history" => NotOpen(c)
    PROVE  UpToDate(c)' /\ RepliesAreTrue(c)' /\ job'[c].result.seen
<1>1. job'[c] = [job[c] EXCEPT !.step = step, !.phase = "queued", !.reply = NoReply]
      /\ job[c] \in Jobs /\ UpToDate(c) /\ job[c].result.seen /\ UNCHANGED market
    BY DEF Request, SeenInv, AdaptersTypeOK, AnswersAreTrue
<1>2. /\ job'[c].phase = "queued" /\ job'[c].step = step
      /\ job'[c].seen = job[c].seen /\ job'[c].result = job[c].result
    BY <1>1 DEF Jobs
<1> QED BY <1>1, <1>2
        DEF UpToDate, RepliesAreTrue, ShowsNone, Said, Answered, Busy, NotOpen, market

(* The steps of the call itself.                                            *)
LEMMA OwnSees ==
    ASSUME SeenInv, NEW c \in Callers,
           (\E op \in {"place", "cancel", "fetch"} : Begin(c, op)) \/ Run(c)
    PROVE  UpToDate(c)' /\ RepliesAreTrue(c)' /\ job'[c].result.seen
<1> USE StepsAreKnown
<1>1. job[c] \in Jobs /\ UpToDate(c) /\ RepliesAreTrue(c) /\ job[c].result.seen
      /\ exchange \in {"BINANCE", "BYBIT"} /\ job \in [Callers -> Jobs]
    BY DEF SeenInv, AdaptersTypeOK, AnswersAreTrue
<1>2. ASSUME NEW op \in {"place", "cancel", "fetch"}, Begin(c, op)
      PROVE  UpToDate(c)' /\ RepliesAreTrue(c)' /\ job'[c].result.seen
  <2>1. /\ job'[c] = [NoJob EXCEPT !.op = op, !.step = FirstStep(op), !.phase = "queued",
                                   !.seen = Faces(order, shown)]
        /\ UNCHANGED <<exchange, order, shown>>
      BY <1>1, <1>2 DEF Begin
  <2>2. /\ job'[c].phase = "queued" /\ job'[c].step = FirstStep(op)
        /\ job'[c].seen = Faces(order, shown) /\ job'[c].result = NoResult
      BY <2>1 DEF NoJob
  <2>3. FirstStep(op) # "history" /\ NoResult.seen
      BY <1>1 DEF NoResult
  <2> QED BY <2>1, <2>2, <2>3
          DEF UpToDate, RepliesAreTrue, ShowsNone, Said, Answered, Busy
<1>3. CASE TryAgain(c)
    BY <1>1, <1>3
       DEF TryAgain, market, UpToDate, RepliesAreTrue, ShowsNone, Said, Answered, Busy, NotOpen,
           OrderResult
<1>4. CASE Send(c)
  <2>1. /\ job'[c] = [job[c] EXCEPT !.phase = "sent", !.stamp = now, !.sent = now]
        /\ UNCHANGED market /\ Busy(c)
      BY <1>1, <1>4 DEF Send, Busy
  <2>2. /\ job'[c].phase = "sent" /\ job'[c].step = job[c].step
        /\ job'[c].seen = job[c].seen /\ job'[c].result = job[c].result
      BY <1>1, <2>1 DEF Jobs
  <2> QED BY <1>1, <2>1, <2>2
          DEF UpToDate, RepliesAreTrue, ShowsNone, Said, Answered, Busy, NotOpen, market
<1>5. CASE parse(c)
  <2>1. \E result \in Results : Return(c, result) /\ result.seen
    <3>1. CASE job[c].reply.kind # "cut"
      <4> DEFINE result == ExchangeError(job[c].step, job[c].reply.kind \in {"limited", "down"})
      <4>1. Return(c, result)
          BY <1>5, <3>1 DEF parse
      <4>2. result \in Results
        <5>1. (job[c].reply.kind \in {"limited", "down"}) \in BOOLEAN
            OBVIOUS
        <5>2. job[c].step \in Steps
            BY <1>1 DEF Jobs
        <5> QED BY <5>1, <5>2, OutcomesAreResults, Zenon
      <4>3. result.seen
          BY DEF ExchangeError, NoResult
      <4> QED BY <4>1, <4>2, <4>3
    <3>2. CASE job[c].reply.kind = "cut" /\ exchange = "BYBIT"
      <4> DEFINE result == [ExchangeError(job[c].step, FALSE) EXCEPT !.heard = FALSE]
      <4>1. Return(c, result)
          BY <1>5, <3>2 DEF parse
      <4>2. result \in Results
          BY <1>1, OutcomesAreResults DEF Jobs
      <4>3. result.seen
          BY DEF ExchangeError, NoResult
      <4> QED BY <4>1, <4>2, <4>3
    <3>3. CASE job[c].reply.kind = "cut" /\ exchange = "BINANCE"
      <4>1. Return(c, PlainError)
          BY <1>5, <3>3 DEF parse
      <4>2. PlainError.seen
          BY DEF PlainError, NoResult
      <4> QED BY <4>1, <4>2, OutcomesAreResults
    <3> QED BY <1>1, <3>1, <3>2, <3>3
  <2> QED BY <2>1, ReturnSees
<1>6. CASE ReturnOrder(c)
  <2> DEFINE result == Answer(job[c], OrderResult(job[c].reply.told))
  <2>1. OrderResult(job[c].reply.told) \in job[c].seen
      BY <1>1, <1>6 DEF ReturnOrder, RepliesAreTrue
  <2>2. result.seen /\ result \in Results
    <3>1. result.seen = (OrderResult(job[c].reply.told) \in job[c].seen)
        BY DEF Answer, NoResult
    <3> QED BY <2>1, <3>1, OutcomesAreResults
  <2>3. Return(c, result)
      BY <1>6 DEF ReturnOrder
  <2> QED BY <2>2, <2>3, ReturnSees
<1>7. CASE ReadBack(c)
  <2>1. UNCHANGED market /\ Busy(c)
      BY <1>7 DEF ReadBack, market, Said, Answered, Busy
  <2>2. CASE Request(c, Paths[1])
      BY <2>1, <2>2, RequestSees DEF Steps
  <2>3. CASE job[c].reply.told = NoOrder /\ job[c].step = Paths[1] /\ Request(c, Paths[2])
    <3>1. NotOpen(c)
        BY <1>1, <1>7, <2>3 DEF ReadBack, RepliesAreTrue, ShowsNone
    <3> QED BY <2>1, <2>3, <3>1, RequestSees DEF Steps
  <2> QED BY <1>7, <2>2, <2>3 DEF ReadBack
<1>8. CASE ReturnNothing(c)
  <2>1. NoOrder \in job[c].seen
      BY <1>1, <1>8 DEF ReturnNothing, RepliesAreTrue, ShowsNone
  <2>2. Null(job[c]).seen /\ Null(job[c]) \in Results
    <3>1. Null(job[c]).seen = (NoOrder \in job[c].seen)
        BY DEF Null, NoResult
    <3> QED BY <2>1, <3>1, OutcomesAreResults
  <2> DEFINE error == ExchangeError(job[c].step, job[c].op = "place")
  <2>3. error.seen /\ error \in Results
    <3>1. (job[c].op = "place") \in BOOLEAN
        OBVIOUS
    <3>2. job[c].step \in Steps
        BY <1>1 DEF Jobs
    <3>3. error.seen
        BY DEF ExchangeError, NoResult
    <3> QED BY <3>1, <3>2, <3>3, OutcomesAreResults, Zenon
  <2>4. Return(c, Null(job[c])) \/ Return(c, error)
      BY <1>8 DEF ReturnNothing
  <2> QED BY <2>2, <2>3, <2>4, ReturnSees
<1>9. CASE Abort(c)
  <2>1. PlainError.seen
      BY DEF PlainError, NoResult
  <2> QED BY <1>9, <2>1, OutcomesAreResults, ReturnSees DEF Abort
<1> QED BY <1>2, <1>3, <1>4, <1>5, <1>6, <1>7, <1>8, <1>9 DEF Run

LEMMA SeenStep ==
    ASSUME TypeOK, SeenInv, [AdaptersNext]_adapters
    PROVE  SeenInv'
<1>1. job \in [Callers -> Jobs]
    BY DEF SeenInv, AdaptersTypeOK
<1>2. ASSUME NEW c \in Callers, TurnAway(c) \/ Accept(c) \/ AcceptCancel(c) \/ Read(c)
      PROVE  SeenInv'
  <2>1. PICK reply \in Replied, o \in Orders \cup {NoOrder}, visible \in BOOLEAN :
            /\ Becomes(Replies(c, reply.kind, reply.told), o, visible)
            /\ SaysTrue(c, reply, o, visible) /\ MayBecome(c, reply, o)
      BY <1>2, AnswerShape DEF SeenInv
  <2>2. job[c].phase = "sent"
      BY <1>2, AnswerShape DEF SeenInv
  <2> DEFINE j == Replies(c, reply.kind, reply.told)
  <2>3. j \in [Callers -> Jobs]
      BY RepliesType DEF SeenInv
  <2>4. \A d \in Callers \ {c} : j[d] = job[d]
      BY <1>1 DEF Replies
  <2>5. o # order => o # NoOrder /\ (order # NoOrder => order.status \in Open)
      BY <2>1 DEF MayBecome
  <2>6. AdaptersTypeOK'
      BY <2>1, <2>3, BecomesType DEF SeenInv
  <2>7. UpToDate(c)' /\ RepliesAreTrue(c)' /\ job'[c].result.seen
      BY <2>1, <2>2, AnswerSees
  <2> HIDE DEF j
  <2>8. ASSUME NEW d \in Callers, d # c
        PROVE  UpToDate(d)' /\ RepliesAreTrue(d)' /\ job'[d].result.seen
    <3>1. Becomes(j, o, visible)
        BY <2>1 DEF j
    <3> QED BY <2>3, <2>4, <2>5, <2>8, <3>1, BecomesSees
  <2> QED BY <2>6, <2>7, <2>8 DEF SeenInv, AnswersAreTrue
<1>3. CASE Publish \/ Trade \/ Close
  <2>1. PICK o \in Orders, visible \in BOOLEAN :
            Becomes(job, o, visible) /\ order # NoOrder /\ (o # order => order.status \in Open)
      BY <1>3, MarketShape DEF SeenInv
  <2>2. o # NoOrder
      BY NoOrderAssumption
  <2>3. AdaptersTypeOK'
      BY <1>1, <2>1, BecomesType DEF SeenInv
  <2>4. ASSUME NEW d \in Callers
        PROVE  UpToDate(d)' /\ RepliesAreTrue(d)' /\ job'[d].result.seen
      BY <1>1, <2>1, <2>2, BecomesSees
  <2> QED BY <2>3, <2>4 DEF SeenInv, AnswersAreTrue
<1>4. ASSUME NEW d \in Callers, job'[d] = job[d], UNCHANGED <<exchange, order, shown>>
      PROVE  UpToDate(d)' /\ RepliesAreTrue(d)' /\ job'[d].result.seen
    BY <1>4
       DEF SeenInv, AnswersAreTrue, UpToDate, RepliesAreTrue, ShowsNone, Said, Answered, Busy,
           NotOpen, OrderResult
<1>5. ASSUME NEW c \in Callers,
             (\E op \in {"place", "cancel", "fetch"} : Begin(c, op)) \/ Run(c)
      PROVE  SeenInv'
  <2>1. /\ UNCHANGED <<exchange, order, shown>> /\ AdaptersTypeOK'
        /\ \A d \in Callers \ {c} : job'[d] = job[d]
      BY <1>5, OwnShape DEF SeenInv
  <2>2. UpToDate(c)' /\ RepliesAreTrue(c)' /\ job'[c].result.seen
      BY <1>5, OwnSees
  <2>3. \A d \in Callers : UpToDate(d)' /\ RepliesAreTrue(d)' /\ job'[d].result.seen
      BY <1>4, <2>1, <2>2
  <2> QED BY <2>1, <2>3 DEF SeenInv, AnswersAreTrue
<1>6. CASE AdaptersTick \/ UNCHANGED adapters
  <2>1. UNCHANGED <<market, job>>
      BY <1>6 DEF AdaptersTick, adapters
  <2> QED BY <1>4, <2>1 DEF SeenInv, AnswersAreTrue, AdaptersTypeOK, market
<1>7. CASE AdaptersRestart
  <2>1. /\ UNCHANGED <<exchange, placed>> /\ job' = [c \in Callers |-> NoJob]
        /\ order' \in Orders \cup {NoOrder} /\ shown' \in BOOLEAN
    <3>1. [status |-> "NEW", filled |-> 0] \in Orders
        BY DEF Orders, Open
    <3> QED BY <1>7, <3>1 DEF AdaptersRestart, SeenInv, AdaptersTypeOK
  <2>2. NoJob.phase = "idle" /\ NoJob.result.seen /\ NoJob \in Jobs
      BY NothingIsAJob DEF NoJob, NoResult
  <2> QED BY <2>1, <2>2
          DEF SeenInv, AnswersAreTrue, AdaptersTypeOK, UpToDate, RepliesAreTrue,
              ShowsNone, Said, Answered, Busy
<1> QED BY <1>2, <1>3, <1>5, <1>6, <1>7 DEF AdaptersNext

LEMMA SeenInit == AdaptersInit => SeenInv
<1>1. NoJob.phase = "idle" /\ NoJob.result.seen /\ NoJob \in Jobs
    BY NothingIsAJob DEF NoJob, NoResult
<1> QED BY <1>1
        DEF AdaptersInit, SeenInv, AnswersAreTrue, AdaptersTypeOK, UpToDate, RepliesAreTrue,
            ShowsNone, Said, Answered, Busy

-----------------------------------------------------------------------------
(* Giving up *)

OnceInv == PlacedOnce /\ SafeToGiveUp

(* The one call that may be the placing one.                                *)
LEMMA OneCreates ==
    ASSUME SeenInv, OnceInv, NEW c \in Callers, Busy(c), job[c].step = "create"
    PROVE  /\ Placer(c) /\ placed
           /\ \A d \in Callers : Placer(d) => d = c
           /\ \A d \in Callers : ~GaveUp(d)
<1>1. Placer(c)
    BY DEF OnceInv, PlacedOnce, Placer
<1>2. placed /\ \A d \in Callers : Placer(d) => d = c
    BY <1>1 DEF OnceInv, PlacedOnce
<1>3. job[c].result = NoResult
    BY DEF SeenInv, UpToDate
<1>4. ~GaveUp(c)
    BY <1>3 DEF GaveUp, NoResult
<1> QED BY <1>1, <1>2, <1>4 DEF Placer

(* The order changes without a call being answered.                         *)
LEMMA MarketOnce ==
    ASSUME SeenInv, OnceInv, NEW o \in Orders, NEW visible, Becomes(job, o, visible),
           order # NoOrder
    PROVE  OnceInv'
<1>1. ASSUME NEW d \in Callers
      PROVE  /\ job'[d].phase = job[d].phase /\ job'[d].op = job[d].op
             /\ job'[d].step = job[d].step /\ job'[d].result = job[d].result
             /\ job'[d].reply = job[d].reply
    BY DEF Becomes, SeenInv, AdaptersTypeOK, Jobs
<1>2. \A d \in Callers : (Placer(d)' <=> Placer(d)) /\ (GaveUp(d)' <=> GaveUp(d))
    BY <1>1 DEF Placer, GaveUp, Busy
<1>3. placed' = placed /\ placed
    BY DEF Becomes, OnceInv, PlacedOnce
<1>4. \A d \in Callers : ~GaveUp(d)
    BY DEF OnceInv, SafeToGiveUp, GaveUp
<1>5. SafeToGiveUp'
    BY <1>2, <1>4 DEF SafeToGiveUp, GaveUp
<1> QED BY <1>1, <1>2, <1>3, <1>5 DEF OnceInv, PlacedOnce, Answered, Busy

(* A call is answered.                                                      *)
LEMMA AnswerOnce ==
    ASSUME SeenInv, OnceInv, NEW c \in Callers, job[c].phase = "sent", NEW reply \in Replied,
           NEW o \in Orders \cup {NoOrder}, NEW visible \in BOOLEAN,
           Becomes(Replies(c, reply.kind, reply.told), o, visible), MayBecome(c, reply, o)
    PROVE  OnceInv'
<1> DEFINE j == Replies(c, reply.kind, reply.told)
<1>1. job \in [Callers -> Jobs] /\ j \in [Callers -> Jobs]
    BY RepliesType DEF SeenInv, AdaptersTypeOK
<1>2. /\ \A d \in Callers \ {c} : j[d] = job[d]
      /\ j[c] = [job[c] EXCEPT !.phase = "answered", !.reply = reply]
  <2>1. reply = [kind |-> reply.kind, told |-> reply.told]
      BY DEF Replied
  <2> QED BY <1>1, <2>1 DEF Replies
<1>3. order' = o /\ placed' = placed
    BY DEF Becomes
<1>4. ASSUME NEW d \in Callers, d # c
      PROVE  /\ job'[d].phase = job[d].phase /\ job'[d].op = job[d].op
             /\ job'[d].step = job[d].step /\ job'[d].result = job[d].result
             /\ job'[d].reply = job[d].reply
    BY <1>1, <1>2, <1>4 DEF Becomes, Jobs
<1>5. /\ job'[c].phase = "answered" /\ job'[c].op = job[c].op
      /\ job'[c].step = job[c].step /\ job'[c].result = job[c].result
      /\ job'[c].reply = reply /\ Busy(c)
    BY <1>1, <1>2 DEF Becomes, Jobs, Busy
<1>6. \A d \in Callers : (Placer(d)' <=> Placer(d)) /\ (GaveUp(d)' <=> GaveUp(d))
    BY <1>4, <1>5 DEF Placer, GaveUp, Busy
<1>7. CASE job[c].step = "create"
  <2>1. /\ placed /\ \A d \in Callers : ~GaveUp(d)
        /\ \A d \in Callers : Placer(d) => d = c
        /\ job[c].op = "place" /\ order = NoOrder
    <3>1. job[c].op = "place" /\ (order # NoOrder => Answered(c))
        BY <1>5, <1>7 DEF OnceInv, PlacedOnce
    <3> QED BY <1>5, <1>7, <3>1, OneCreates DEF Answered
  <2>2. SafeToGiveUp'
      BY <1>6, <2>1 DEF SafeToGiveUp, GaveUp
  <2>3. \A d \in Callers : Busy(d)' /\ job'[d].step = "create" => d = c
    <3> SUFFICES ASSUME NEW d \in Callers, Busy(d)', job'[d].step = "create", d # c PROVE FALSE
        OBVIOUS
    <3>1. Busy(d) /\ job[d].step = "create"
        BY <1>4 DEF Busy
    <3> QED BY <2>1, <3>1, OneCreates
  <2>4. order' # NoOrder => Answered(c)' /\ job'[c].reply.kind \in {"ok", "cut", "down", "lost"}
      BY <1>3, <1>5, <1>7, <2>1 DEF MayBecome, Answered
  <2> QED BY <1>3, <1>5, <1>6, <2>1, <2>2, <2>3, <2>4 DEF OnceInv, PlacedOnce
<1>8. CASE job[c].step # "create"
  <2>1. order' # NoOrder => order # NoOrder
      BY <1>3, <1>8 DEF MayBecome
  <2>2. SafeToGiveUp'
      BY <1>6, <2>1 DEF OnceInv, SafeToGiveUp, GaveUp
  <2>3. \A d \in Callers : Busy(d)' /\ job'[d].step = "create" =>
            d # c /\ Busy(d) /\ job[d].step = "create"
      BY <1>4, <1>5, <1>8 DEF Busy
  <2>4. \A d \in Callers \ {c} : Answered(d)' <=> Answered(d)
      BY <1>4 DEF Answered
  <2> QED BY <1>3, <1>4, <1>6, <2>1, <2>2, <2>3, <2>4 DEF OnceInv, PlacedOnce
<1> QED BY <1>7, <1>8

(* A call takes a step of its own and stays what it was, or is over, or is  *)
(* the first that places.                                                   *)
LEMMA OwnOnce ==
    ASSUME SeenInv, OnceInv, NEW c \in Callers, order' = order,
           \A d \in Callers \ {c} : job'[d] = job[d],
           placed => placed',
           Placer(c)' => Placer(c) \/ (~placed /\ placed'),
           GaveUp(c)' => order = NoOrder,
           Busy(c)' /\ job'[c].step = "create" =>
               job'[c].op = "place" /\ (order # NoOrder => Answered(c)')
                                   /\ (Answered(c)' => job'[c] = job[c])
    PROVE  OnceInv'
<1>1. \A d \in Callers \ {c} :
          /\ (Placer(d)' <=> Placer(d)) /\ (GaveUp(d)' <=> GaveUp(d))
          /\ (Busy(d)' <=> Busy(d)) /\ (Answered(d)' <=> Answered(d))
    BY DEF Placer, GaveUp, Busy, Answered
<1>2. \A d \in Callers : Placer(d)' => placed' /\ \A e \in Callers : Placer(e)' => e = d
    BY <1>1 DEF OnceInv, PlacedOnce
<1>3. SafeToGiveUp'
    BY <1>1 DEF OnceInv, SafeToGiveUp, GaveUp
<1>4. order' # NoOrder => placed'
    BY DEF OnceInv, PlacedOnce
<1>5. ASSUME NEW d \in Callers, Busy(d)', job'[d].step = "create"
      PROVE  /\ job'[d].op = "place"
             /\ order' # NoOrder => Answered(d)' /\ job'[d].reply.kind \in {"ok", "cut", "down", "lost"}
  <2>1. CASE d = c
      BY <1>5, <2>1 DEF OnceInv, PlacedOnce, Busy
  <2>2. CASE d # c
      BY <1>1, <1>5, <2>2 DEF OnceInv, PlacedOnce
  <2> QED BY <2>1, <2>2
<1> QED BY <1>2, <1>3, <1>4, <1>5 DEF OnceInv, PlacedOnce

LEMMA ReturnOnce ==
    ASSUME SeenInv, OnceInv, NEW c \in Callers, NEW result, Return(c, result), Busy(c),
           result.kind = "error" /\ result.step = "create" /\ ~result.retryable /\ result.heard =>
               order = NoOrder /\ Placer(c)
    PROVE  OnceInv'
<1>1. job'[c] = [NoJob EXCEPT !.result = result]
      /\ \A d \in Callers \ {c} : job'[d] = job[d]
    BY DEF Return, SeenInv, AdaptersTypeOK
<1>2. job'[c].phase = "idle" /\ job'[c].result = result
    BY <1>1 DEF NoJob
<1>3. order' = order /\ (placed => placed') /\ ~Busy(c)'
    BY <1>2 DEF Return, market, Busy
<1>4. Placer(c)' => Placer(c)
    BY <1>2 DEF Placer, GaveUp, Busy
<1>5. GaveUp(c)' => order = NoOrder
    BY <1>2 DEF GaveUp
<1> QED BY <1>1, <1>3, <1>4, <1>5, OwnOnce

LEMMA OnceStep ==
    ASSUME SeenInv, OnceInv, [AdaptersNext]_adapters
    PROVE  OnceInv'
<1> USE StepsAreKnown
<1>1. job \in [Callers -> Jobs] /\ exchange \in {"BINANCE", "BYBIT"}
    BY DEF SeenInv, AdaptersTypeOK
<1>2. ASSUME NEW c \in Callers, TurnAway(c) \/ Accept(c) \/ AcceptCancel(c) \/ Read(c)
      PROVE  OnceInv'
    BY <1>2, AnswerShape, AnswerOnce DEF SeenInv
<1>3. CASE Publish \/ Trade \/ Close
    BY <1>3, MarketShape, MarketOnce DEF SeenInv
<1>4. ASSUME NEW c \in Callers, NEW op \in {"place", "cancel", "fetch"}, Begin(c, op)
      PROVE  OnceInv'
  <2>1. /\ job'[c] = [NoJob EXCEPT !.op = op, !.step = FirstStep(op), !.phase = "queued",
                                   !.seen = Faces(order, shown)]
        /\ \A d \in Callers \ {c} : job'[d] = job[d]
        /\ UNCHANGED <<exchange, order, shown>>
        /\ op = "place" => ~placed
        /\ placed' = (placed \/ op = "place")
      BY <1>1, <1>4 DEF Begin
  <2>2. /\ job'[c].phase = "queued" /\ job'[c].step = FirstStep(op) /\ job'[c].op = op
        /\ job'[c].result = NoResult
      BY <2>1 DEF NoJob
  <2>3. ~GaveUp(c)'
      BY <2>2 DEF GaveUp, NoResult
  <2>4. Placer(c)' => ~placed /\ placed'
      BY <2>1, <2>2, <2>3 DEF Placer
  <2>5. job'[c].step = "create" => job'[c].op = "place" /\ order = NoOrder
      BY <1>1, <2>1, <2>2 DEF OnceInv, PlacedOnce
  <2> QED BY <2>1, <2>2, <2>3, <2>4, <2>5, OwnOnce DEF Answered
<1>5. ASSUME NEW d \in Callers, job'[d] = job[d]
      PROVE  /\ (Placer(d)' <=> Placer(d)) /\ (GaveUp(d)' <=> GaveUp(d))
             /\ (Busy(d)' <=> Busy(d)) /\ (Answered(d)' <=> Answered(d))
    BY <1>5 DEF Placer, GaveUp, Busy, Answered
<1>6. CASE (\E c \in Callers : TryAgain(c)) \/ AdaptersTick \/ UNCHANGED adapters
  <2>1. UNCHANGED <<market, job>>
      BY <1>6 DEF TryAgain, AdaptersTick, adapters
  <2> QED BY <1>5, <2>1 DEF OnceInv, PlacedOnce, SafeToGiveUp, market
<1>7. ASSUME NEW c \in Callers, Send(c)
      PROVE  OnceInv'
  <2>1. /\ job'[c] = [job[c] EXCEPT !.phase = "sent", !.stamp = now, !.sent = now]
        /\ \A d \in Callers \ {c} : job'[d] = job[d]
        /\ UNCHANGED <<exchange, order, shown, placed>> /\ Busy(c) /\ ~Answered(c)
      BY <1>1, <1>7 DEF Send, Busy, Answered, market
  <2>2. /\ job'[c].phase = "sent" /\ job'[c].step = job[c].step /\ job'[c].op = job[c].op
        /\ job'[c].result = job[c].result
      BY <1>1, <2>1 DEF Jobs
  <2>3. (Placer(c)' <=> Placer(c)) /\ (GaveUp(c)' <=> GaveUp(c))
      BY <2>1, <2>2 DEF Placer, GaveUp, Busy
  <2>4. GaveUp(c)' => order = NoOrder
      BY <2>3 DEF OnceInv, SafeToGiveUp, GaveUp
  <2>5. job'[c].step = "create" => job'[c].op = "place" /\ order = NoOrder
      BY <2>1, <2>2 DEF OnceInv, PlacedOnce
  <2>6. ~Answered(c)' /\ order' = order /\ (placed => placed')
      BY <2>1, <2>2 DEF Answered
  <2> QED BY <2>1, <2>3, <2>4, <2>5, <2>6, OwnOnce
<1>8. ASSUME NEW c \in Callers, NEW step \in {"realtime", "history"}, Request(c, step),
             UNCHANGED market, Busy(c)
      PROVE  OnceInv'
  <2>1. /\ job'[c] = [job[c] EXCEPT !.step = step, !.phase = "queued", !.reply = NoReply]
        /\ \A d \in Callers \ {c} : job'[d] = job[d]
        /\ UNCHANGED <<exchange, order, shown, placed>>
      BY <1>1, <1>8 DEF Request, market
  <2>2. /\ job'[c].phase = "queued" /\ job'[c].step = step /\ job'[c].op = job[c].op
        /\ job'[c].result = job[c].result
      BY <1>1, <2>1 DEF Jobs
  <2>3. (Placer(c)' <=> Placer(c)) /\ (GaveUp(c)' <=> GaveUp(c))
      BY <1>8, <2>1, <2>2 DEF Placer, GaveUp, Busy
  <2>4. GaveUp(c)' => order = NoOrder
      BY <2>3 DEF OnceInv, SafeToGiveUp, GaveUp
  <2>5. job'[c].step # "create" /\ order' = order /\ (placed => placed')
      BY <1>8, <2>1, <2>2
  <2> QED BY <2>1, <2>3, <2>4, <2>5, OwnOnce
<1>9. ASSUME NEW c \in Callers, ReadBack(c)
      PROVE  OnceInv'
    BY <1>8, <1>9 DEF ReadBack, market, Said, Answered, Busy
<1>10. ASSUME NEW c \in Callers, parse(c)
       PROVE  OnceInv'
  <2>1. Busy(c) /\ Answered(c) /\ job[c].reply.kind \notin {"ok", "lost"}
      BY <1>10 DEF parse, Heard, Answered, Busy
  <2>2. ASSUME job[c].step = "create", job[c].reply.kind \notin {"cut", "down", "limited"}
        PROVE  order = NoOrder /\ Placer(c)
      BY <2>1, <2>2 DEF OnceInv, PlacedOnce, Placer
  <2>3. CASE job[c].reply.kind # "cut"
    <3> DEFINE result == ExchangeError(job[c].step, job[c].reply.kind \in {"limited", "down"})
    <3>1. Return(c, result)
        BY <1>10, <2>3 DEF parse
    <3>2. result.step = job[c].step
          /\ result.retryable = (job[c].reply.kind \in {"limited", "down"})
        BY DEF ExchangeError, NoResult
    <3> HIDE DEF result
    <3> QED BY <2>1, <2>2, <2>3, <3>1, <3>2, ReturnOnce
  <2>4. CASE job[c].reply.kind = "cut" /\ exchange = "BYBIT"
    <3> DEFINE result == [ExchangeError(job[c].step, FALSE) EXCEPT !.heard = FALSE]
    <3>1. Return(c, result)
        BY <1>10, <2>4 DEF parse
    <3>2. ~result.heard
        BY DEF ExchangeError, NoResult
    <3> HIDE DEF result
    <3> QED BY <2>1, <3>1, <3>2, ReturnOnce
  <2>5. CASE job[c].reply.kind = "cut" /\ exchange = "BINANCE"
    <3>1. Return(c, PlainError)
        BY <1>10, <2>5 DEF parse
    <3>2. PlainError.kind = "plain"
        BY DEF PlainError, NoResult
    <3> QED BY <2>1, <3>1, <3>2, ReturnOnce
  <2> QED BY <1>1, <2>3, <2>4, <2>5
<1>11. ASSUME NEW c \in Callers, ReturnOrder(c)
       PROVE  OnceInv'
  <2> DEFINE result == Answer(job[c], OrderResult(job[c].reply.told))
  <2>1. Return(c, result) /\ Busy(c)
      BY <1>11 DEF ReturnOrder, Said, Answered, Busy
  <2>2. result.kind = "order"
      BY DEF Answer, NoResult
  <2> HIDE DEF result
  <2> QED BY <2>1, <2>2, ReturnOnce
<1>12. ASSUME NEW c \in Callers, ReturnNothing(c)
       PROVE  OnceInv'
  <2> DEFINE error == ExchangeError(job[c].step, job[c].op = "place")
             null == Null(job[c])
  <2>1. Busy(c) /\ job[c].step \in {"read", "history"} /\ (Return(c, null) \/ Return(c, error))
      BY <1>12 DEF ReturnNothing, Said, Answered, Busy
  <2>2. null.kind = "null" /\ error.step = job[c].step
      BY DEF Null, ExchangeError, NoResult
  <2> HIDE DEF error, null
  <2> QED BY <2>1, <2>2, ReturnOnce
<1>13. ASSUME NEW c \in Callers, Abort(c)
       PROVE  OnceInv'
  <2>1. Return(c, PlainError) /\ Busy(c)
      BY <1>13 DEF Abort, Waiting, Said, Answered, Busy
  <2>2. PlainError.kind = "plain"
      BY DEF PlainError, NoResult
  <2> QED BY <2>1, <2>2, ReturnOnce
<1>14. CASE AdaptersRestart
  <2>1. /\ UNCHANGED placed /\ job' = [c \in Callers |-> NoJob]
        /\ order' # order => placed
    <3>1. ASSUME NEW c \in Callers, Arrives(c), job[c].step = "create" PROVE placed
        BY <3>1 DEF OnceInv, PlacedOnce, Placer, Arrives, Busy
    <3> QED BY <1>14, <3>1 DEF AdaptersRestart
  <2>2. NoJob.phase = "idle" /\ NoJob.result.kind = "none"
      BY DEF NoJob, NoResult
  <2>3. \A d \in Callers : ~Placer(d)' /\ ~GaveUp(d)' /\ ~Busy(d)'
      BY <2>1, <2>2 DEF Placer, GaveUp, Busy
  <2> QED BY <2>1, <2>3 DEF OnceInv, PlacedOnce, SafeToGiveUp, GaveUp, market
<1> QED BY <1>2, <1>3, <1>4, <1>6, <1>7, <1>9, <1>10, <1>11, <1>12, <1>13, <1>14
        DEF AdaptersNext, Run

LEMMA OnceInit == AdaptersInit => OnceInv
<1>1. NoJob.phase = "idle" /\ NoJob.result.kind = "none"
    BY DEF NoJob, NoResult
<1> QED BY <1>1 DEF AdaptersInit, OnceInv, PlacedOnce, SafeToGiveUp, Placer, GaveUp, Busy

(* What the answers of the adapters rest on: a call has seen whatever       *)
(* became of the order since it began, an order that is closed stays so,    *)
(* and one call places it (Begin, Becomes, parse).                          *)
THEOREM AdaptersInvariance == AdaptersSpec => []AdaptersInv
<1>1. AdaptersInit => SeenInv /\ OnceInv
    BY SeenInit, OnceInit
<1>2. TypeOK /\ SeenInv /\ OnceInv /\ [AdaptersNext]_adapters => SeenInv' /\ OnceInv'
    BY SeenStep, OnceStep
<1>3. AdaptersSpec => []TypeOK
  <2>1. IInv => TypeOK
      BY DEF IInv
  <2> QED BY <2>1, AdaptersUseTheLimiter, Invariance, PTL
<1>4. SeenInv /\ OnceInv => AdaptersInv
    BY DEF SeenInv, OnceInv, AdaptersInv
<1> QED BY <1>1, <1>2, <1>3, <1>4, PTL DEF AdaptersSpec

(* What a call returns was so during the call, although Bybit's order is    *)
(* read in two places and moves between them (fetchOrder).                  *)
THEOREM AnswersHold == AdaptersSpec => []AnswersAreTrue
<1>1. AdaptersInv => AnswersAreTrue
    BY DEF AdaptersInv
<1> QED BY <1>1, AdaptersInvariance, PTL

(* An error of the placing request that is not retryable and was heard      *)
(* means that the exchange has no order, and will have none (parse).        *)
THEOREM GivingUpIsSafe == AdaptersSpec => []SafeToGiveUp
<1>1. AdaptersInv => SafeToGiveUp
    BY DEF AdaptersInv
<1> QED BY <1>1, AdaptersInvariance, PTL
=============================================================================
