----------------------------- MODULE Indicators -----------------------------
(* The indicators: each one maps the bars closed so far to a series of the  *)
(* same length, NaN where it does not exist yet. Index i of the code is i+1 *)
(* here.                                                                    *)
EXTENDS Fractions

CONSTANTS SarStep, SarMaxStep   \* psar's step and maxStep: 0.02 and 0.2

Closes(bars) == [i \in DOMAIN bars |-> Whole(bars[i].close)]
Highs(bars) == [i \in DOMAIN bars |-> Whole(bars[i].high)]
Lows(bars) == [i \in DOMAIN bars |-> Whole(bars[i].low)]
Volumes(bars) == [i \in DOMAIN bars |-> Whole(bars[i].volume)]

LastOf(s) == s[Len(s)]
LargerOf(a, b) == IF a > b THEN a ELSE b
SmallerOf(a, b) == IF a < b THEN a ELSE b
Window(s, i, period) == SubSeq(s, i - period + 1, i)
Nothing(n) == [i \in 1 .. n |-> NaN]

(* A series that starts at first, and goes from each value to the next.     *)
Scan(n, first, start, Step(_, _)) ==
    LET upTo[i \in 0 .. n] ==
            IF i = 0 THEN <<>>
            ELSE LET done == upTo[i - 1]
                 IN Append(done, CASE i < first -> NaN
                                   [] i = first -> start
                                   [] OTHER -> Step(done[i - 1], i))
    IN upTo[n]

(* Where a series begins to exist, the part that does, and a series over    *)
(* that part in its place.                                                  *)
FirstValid(s) ==
    LET exists == {i \in DOMAIN s : ~IsNaN(s[i])}
    IN IF exists = {} THEN Len(s) + 1 ELSE CHOOSE i \in exists : \A j \in exists : i <= j
Existing(s) == SubSeq(s, FirstValid(s), Len(s))
InPlace(tail, s) ==
    LET first == FirstValid(s)
    IN [i \in DOMAIN s |-> IF i < first THEN NaN ELSE tail[i - first + 1]]

-----------------------------------------------------------------------------
(* Mutant: the bar that leaves the window is subtracted one bar late.       *)
Sma_Late(s, period) ==
    LET sums == Scan(Len(s), 1, s[1],
                     LAMBDA sum, i : Plus(sum, IF i <= period + 1 THEN s[i]
                                               ELSE Minus(s[i], s[i - period])))
    IN [i \in DOMAIN s |-> IF i < period THEN NaN ELSE Over(sums[i], Whole(period))]

(* A running sum, from which the bar that leaves the window is subtracted.  *)
Sma(s, period) ==
    LET sums == Scan(Len(s), 1, s[1],
                     LAMBDA sum, i : Plus(sum, IF i <= period THEN s[i]
                                               ELSE Minus(s[i], s[i - period])))
    IN [i \in DOMAIN s |-> IF i < period THEN NaN ELSE Over(sums[i], Whole(period))]

Ema(s, period) ==
    LET k == Ratio(2, period + 1)
    IN Scan(Len(s), period, Mean(SubSeq(s, 1, period)),
            LAMBDA prev, i : Plus(Times(s[i], k), Times(prev, Minus(One, k))))

(* Wilder's smoothing: the mean of the first period values, at first, and   *)
(* then one period-th of every new one.                                     *)
Wilder(s, first, period) ==
    Scan(Len(s), first, Mean(Window(s, first, period)),
         LAMBDA prev, i : Over(Plus(Times(prev, Whole(period - 1)), s[i]), Whole(period)))

(* What two sums of opposite moves make of 0 to 100.                        *)
Strength(up, down) ==
    CASE IsNaN(up) \/ IsNaN(down) -> NaN
      [] ~IsNaN(up) /\ down = Zero -> Hundred
      [] OTHER -> Minus(Hundred, Over(Hundred, Plus(One, Over(up, down))))

Rsi(s, period) ==
    LET change == [i \in DOMAIN s |-> IF i = 1 THEN Zero ELSE Minus(s[i], s[i - 1])]
        gain == Wilder([i \in DOMAIN s |-> Greater(change[i], Zero)], period + 1, period)
        loss == Wilder([i \in DOMAIN s |-> Greater(Minus(Zero, change[i]), Zero)],
                       period + 1, period)
    IN [i \in DOMAIN s |-> Strength(gain[i], loss[i])]

MacdLine(s, fast, slow) ==
    LET f == Ema(s, fast)
        l == Ema(s, slow)
    IN [i \in DOMAIN s |-> Minus(f[i], l[i])]

MacdSignal(line, period) == InPlace(Ema(Existing(line), period), line)

Histogram(line, signal) == [i \in DOMAIN line |-> Minus(line[i], signal[i])]

(* stdDev is the square root of this; the bands are compared by squares.    *)
Variance(s, period) ==
    LET means == Sma(s, period)
        square(x) == Times(x, x)
    IN [i \in DOMAIN s |->
           IF i < period THEN NaN
           ELSE Mean([j \in 1 .. period |-> square(Minus(Window(s, i, period)[j], means[i]))])]

TrueRanges(bars) ==
    LET h == Highs(bars)
        l == Lows(bars)
        c == Closes(bars)
    IN [i \in DOMAIN bars |->
           IF i = 1 THEN Zero
           ELSE Greater(Minus(h[i], l[i]),
                        Greater(Distance(h[i], c[i - 1]), Distance(l[i], c[i - 1])))]

Atr(bars, period) == Wilder(TrueRanges(bars), period + 1, period)

(* Where the close is between the lowest low and the highest high of the    *)
(* window, from 0 to 1; 1/2 if it is flat.                                  *)
Place(bars, i, period) ==
    LET high == Highest(Window(Highs(bars), i, period))
        low == Lowest(Window(Lows(bars), i, period))
    IN IF high = low THEN Ratio(1, 2)
       ELSE Over(Minus(Whole(bars[i].close), low), Minus(high, low))

StochasticK(bars, period) ==
    [i \in DOMAIN bars |->
        IF i < period THEN NaN ELSE Times(Place(bars, i, period), Hundred)]

StochasticD(k, smoothing) == InPlace(Sma(Existing(k), smoothing), k)

WilliamsR(bars, period) ==
    [i \in DOMAIN bars |->
        IF i < period THEN NaN
        ELSE Minus(Times(Place(bars, i, period), Hundred), Hundred)]

-----------------------------------------------------------------------------
(* Directional movement: the larger of the two moves counts, if it is one.  *)
Movement(bars) ==
    LET h == Highs(bars)
        l == Lows(bars)
        up(i) == Minus(h[i], h[i - 1])
        down(i) == Minus(l[i - 1], l[i])
        counts(a, b) == IF Less(b, a) /\ Less(Zero, a) THEN a ELSE Zero
    IN [plus |-> [i \in DOMAIN bars |-> IF i = 1 THEN Zero ELSE counts(up(i), down(i))],
        minus |-> [i \in DOMAIN bars |-> IF i = 1 THEN Zero ELSE counts(down(i), up(i))]]

(* A running total of which one period-th is dropped for every new value.   *)
Smoothed(s, period) ==
    Scan(Len(s), period + 1, Total(Window(s, period + 1, period)),
         LAMBDA sum, i : Plus(Minus(sum, Over(sum, Whole(period))), s[i]))

(* The share of one total in another, in percent, and 0 of nothing.         *)
Percent(part, all) ==
    IF ~IsNaN(all) /\ all = Zero THEN Zero ELSE Times(Over(part, all), Hundred)

(* Nothing at all, and not even the directional indicators, for fewer than  *)
(* two periods.                                                             *)
Adx(bars, period) ==
    LET n == Len(bars)
        range == Smoothed(TrueRanges(bars), period)
        plus == Smoothed(Movement(bars).plus, period)
        minus == Smoothed(Movement(bars).minus, period)
        plusDI == [i \in 1 .. n |-> Percent(plus[i], range[i])]
        minusDI == [i \in 1 .. n |-> Percent(minus[i], range[i])]
        dx == [i \in 1 .. n |-> Percent(Distance(plusDI[i], minusDI[i]),
                                        Plus(plusDI[i], minusDI[i]))]
    IN IF n < 2 * period
       THEN [adx |-> Nothing(n), plusDI |-> Nothing(n), minusDI |-> Nothing(n)]
       ELSE [adx |-> Wilder(dx, 2 * period, period), plusDI |-> plusDI, minusDI |-> minusDI]

TypicalPrice(bars) ==
    [i \in DOMAIN bars |-> Ratio(bars[i].high + bars[i].low + bars[i].close, 3)]

Cci(bars, period) ==
    LET tp == TypicalPrice(bars)
        means == Sma(tp, period)
        deviation(i) == Mean([j \in 1 .. period |-> Distance(Window(tp, i, period)[j], means[i])])
    IN [i \in DOMAIN bars |->
           CASE i < period -> NaN
             [] i >= period /\ deviation(i) = Zero -> Zero
             [] OTHER -> Over(Minus(tp[i], means[i]), Times(Ratio(3, 200), deviation(i)))]

(* The flow of a bar whose typical price did not move counts on no side.    *)
Mfi(bars, period) ==
    LET tp == TypicalPrice(bars)
        flow(i, moved) == IF moved THEN Times(tp[i], Whole(bars[i].volume)) ELSE Zero
        up == [i \in DOMAIN bars |-> flow(i, i > 1 /\ Less(tp[i - 1], tp[i]))]
        down == [i \in DOMAIN bars |-> flow(i, i > 1 /\ Less(tp[i], tp[i - 1]))]
    IN [i \in DOMAIN bars |->
           IF i <= period THEN NaN
           ELSE Strength(Total(Window(up, i, period)), Total(Window(down, i, period)))]

Roc(s, period) ==
    [i \in DOMAIN s |->
        CASE i <= period -> NaN
          [] i > period /\ s[i - period] = Zero -> Zero
          [] OTHER -> Times(Over(Minus(s[i], s[i - period]), s[i - period]), Hundred)]

Obv(bars) ==
    Scan(Len(bars), 1, Zero,
         LAMBDA sum, i :
            CASE bars[i].close > bars[i - 1].close -> Plus(sum, Whole(bars[i].volume))
              [] bars[i].close < bars[i - 1].close -> Minus(sum, Whole(bars[i].volume))
              [] OTHER -> sum)

Vwap(bars, period) ==
    LET tp == TypicalPrice(bars)
        volume == Volumes(bars)
        traded(i) == Total(Window(volume, i, period))
        value(i) == Total([j \in 1 .. period |->
                              Times(Window(tp, i, period)[j], Window(volume, i, period)[j])])
    IN [i \in DOMAIN bars |->
           CASE i < period -> NaN
             [] i >= period /\ traded(i) = Zero -> tp[i]
             [] OTHER -> Over(value(i), traded(i))]

(* The channel around a middle line.                                        *)
Above(middle, width, multiplier) ==
    [i \in DOMAIN middle |-> Plus(middle[i], Times(width[i], multiplier))]
Below(middle, width, multiplier) ==
    [i \in DOMAIN middle |-> Minus(middle[i], Times(width[i], multiplier))]

-----------------------------------------------------------------------------
(* Parabolic SAR: the stop moves towards the extreme of the trend, ever     *)
(* faster, but not into the last two bars; when a bar reaches it, the trend *)
(* turns and the stop starts at the extreme.                                *)
SarStart(bars) ==
    LET rising == bars[2].close >= bars[1].close IN
    [sar |-> Whole(IF rising THEN bars[1].low ELSE bars[1].high), rising |-> rising,
     extreme |-> Whole(IF rising THEN bars[2].high ELSE bars[2].low), speed |-> SarStep]

SarMoves(stop, bars, i) ==
    LET moved == Plus(stop.sar, Times(stop.speed, Minus(stop.extreme, stop.sar)))
    IN IF stop.rising THEN Lowest(<<moved, Whole(bars[i - 1].low), Whole(bars[i - 2].low)>>)
       ELSE Highest(<<moved, Whole(bars[i - 1].high), Whole(bars[i - 2].high)>>)

SarNext(stop, bars, i) ==
    LET sar == SarMoves(stop, bars, i)
        far(rising) == Whole(IF rising THEN bars[i].high ELSE bars[i].low)
        turns == IF stop.rising THEN Less(far(FALSE), sar) ELSE Less(sar, far(TRUE))
        further == IF stop.rising THEN Less(stop.extreme, far(TRUE))
                   ELSE Less(far(FALSE), stop.extreme)
    IN CASE turns ->
                [sar |-> stop.extreme, rising |-> ~stop.rising,
                 extreme |-> far(~stop.rising), speed |-> SarStep]
         [] ~turns /\ further ->
                [sar |-> sar, rising |-> stop.rising, extreme |-> far(stop.rising),
                 speed |-> Lesser(Plus(stop.speed, SarStep), SarMaxStep)]
         [] OTHER -> [stop EXCEPT !.sar = sar]

Psar(bars) ==
    LET n == Len(bars)
        stops == Scan(n, 2, SarStart(bars), LAMBDA stop, i : SarNext(stop, bars, i))
    IN IF n < 3 THEN Nothing(n)
       ELSE [i \in 1 .. n |-> IF i = 1 THEN NaN ELSE stops[i].sar]

(* Mutant: the window is centred, and sees the next candle.                 *)
Midpoint_Ahead(bars, period) ==
    LET end(i) == SmallerOf(i + 1, Len(bars))
    IN [i \in DOMAIN bars |->
           IF i < period THEN NaN
           ELSE Over(Plus(Highest(Window(Highs(bars), end(i), period)),
                          Lowest(Window(Lows(bars), end(i), period))), Whole(2))]

(* The middle of the range of the window: the lines of Ichimoku.            *)
Midpoint(bars, period) ==
    [i \in DOMAIN bars |->
        IF i < period THEN NaN
        ELSE Over(Plus(Highest(Window(Highs(bars), i, period)),
                       Lowest(Window(Lows(bars), i, period))), Whole(2))]

SpanA(conversion, base) ==
    [i \in DOMAIN base |-> Over(Plus(conversion[i], base[i]), Whole(2))]

(* Mutant: two lines that touch do not cross when they part.                *)
CrossedAbove_Strict(s, other) ==
    /\ Len(s) > 1
    /\ Less(s[Len(s) - 1], other[Len(s) - 1])
    /\ Less(LastOf(other), LastOf(s))

(* From at or below to above.                                               *)
CrossedAbove(s, other) ==
    /\ Len(s) > 1
    /\ AtMost(s[Len(s) - 1], other[Len(s) - 1])
    /\ Less(LastOf(other), LastOf(s))

CrossedBelow(s, other) == CrossedAbove(other, s)
=============================================================================
