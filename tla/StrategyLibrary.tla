-------------------------- MODULE StrategyLibrary --------------------------
(* The strategy library: the settings a strategy has and how they are       *)
(* checked, and what each strategy makes of the candles it is shown.        *)
EXTENDS Rules, FiniteSets

(* What f says, and where it says nothing what g says: { ...g, ...f }.      *)
Spread(f, g) ==
    [x \in DOMAIN f \cup DOMAIN g |-> IF x \in DOMAIN f THEN f[x] ELSE g[x]]

(* Settings. A value is tagged with its type; text stands for any text that *)
(* is not a number, and a fractional period is not modelled.                *)
Number(value) == <<"number", value>>
Flag(value) == <<"boolean", value>>
Group(logic, conditions) == <<"rules", [logic |-> logic, conditions |-> conditions]>>
Text == <<"text">>
Blank == <<"blank">>

NumberSpec(default, least, most) ==
    [type |-> "number", default |-> Number(default), least |-> least, most |-> most]
IntegerSpec(default, least, most) == NumberSpec(Whole(default), Whole(least), Whole(most))
FlagSpec(default) == [type |-> "boolean", default |-> Flag(default)]
RulesSpec(default) == [type |-> "rules", default |-> default]

PriceBandParams ==
    LET bound == IntegerSpec(0, 0, 100000000)
    IN [minBuyPrice |-> bound, maxBuyPrice |-> bound,
        minSellPrice |-> bound, maxSellPrice |-> bound]

RiskParams ==
    Spread([takeProfitPercent |-> NumberSpec(Whole(2), Ratio(1, 10), Hundred),
            stopLossPercent |-> NumberSpec(One, Ratio(1, 10), Hundred),
            orderSizeUsd |-> IntegerSpec(50, 5, 1000000)], PriceBandParams)

(* Number(raw).                                                             *)
AsNumber(value) ==
    CASE value[1] = "number" -> value[2]
      [] value[1] = "boolean" -> IF value[2] THEN One ELSE Zero
      [] OTHER -> NaN

(* Whether the value is one of the setting's type, and in its range.        *)
Suits(spec, value) ==
    IF spec.type = "number" THEN Between(spec.least, AsNumber(value), spec.most)
    ELSE value[1] = spec.type

Given(input) == {name \in DOMAIN input : input[name] # Blank}

(* resolveParams throws on everything else.                                 *)
Accepts(specs, input) ==
    /\ DOMAIN input \subseteq DOMAIN specs
    /\ \A name \in Given(input) : Suits(specs[name], input[name])

Resolved(specs, input) ==
    [name \in DOMAIN specs |->
        CASE name \notin Given(input) -> specs[name].default
          [] name \in Given(input) /\ specs[name].type = "number" ->
                 Number(AsNumber(input[name]))
          [] OTHER -> input[name]]

Num(params, name) == params[name][2]
Count(params, name) == params[name][2][1]
Bool(params, name) == params[name][2]
GroupOf(params, name) == params[name][2]

-----------------------------------------------------------------------------
Signal(action, confidence) == [action |-> action, confidence |-> confidence]
Hold == Signal("HOLD", Zero)
Error == Signal("ERROR", Zero)

(* Mutant: a distance of no width is divided.                               *)
ConfidenceFrom_Unguarded(distance, full) ==
    Greater(Zero, Lesser(One, Over(distance, full)))

(* A distance past a threshold, as a share of the full distance.            *)
ConfidenceFrom(distance, full) ==
    IF IsNaN(distance) \/ ~Less(Zero, full) THEN Zero
    ELSE Greater(Zero, Lesser(One, Over(distance, full)))

RsiReversal(bs, p) ==
    LET values == Rsi(Closes(bs), Count(p, "period"))
        current == LastOf(values)
        previous == values[Len(values) - 1]
        turned(a, b) == Bool(p, "requireTurn") => Less(a, b)
        oversold == Num(p, "oversold")
        overbought == Num(p, "overbought")
    IN CASE Less(current, oversold) /\ turned(previous, current) ->
                Signal("BUY", ConfidenceFrom(Minus(oversold, current), oversold))
         [] Less(overbought, current) /\ turned(current, previous) ->
                Signal("SELL", ConfidenceFrom(Minus(current, overbought),
                                              Minus(Hundred, overbought)))
         [] OTHER -> Hold

MacdCross(bs, p) ==
    LET line == MacdLine(Closes(bs), Count(p, "fastPeriod"), Count(p, "slowPeriod"))
        signals == MacdSignal(line, Count(p, "signalPeriod"))
        histogram == LastOf(Histogram(line, signals))
        size(x) == Distance(x, Zero)
        full == IF LastOf(line) = Zero THEN One ELSE size(LastOf(line))
        confidence == Lesser(One, Over(size(histogram), full))
        early == Bool(p, "requirePositiveHistogram") /\ AtMost(histogram, Zero)
    IN CASE \/ Count(p, "fastPeriod") >= Count(p, "slowPeriod") \/ IsNaN(histogram) -> Hold
         [] OTHER ->
                CASE CrossedAbove(line, signals) -> IF early THEN Hold ELSE Signal("BUY", confidence)
                  [] CrossedBelow(line, signals) -> Signal("SELL", confidence)
                  [] OTHER -> Hold

EmaCross(bs, p) ==
    LET fast == Ema(Closes(bs), Count(p, "fastPeriod"))
        slow == Ema(Closes(bs), Count(p, "slowPeriod"))
        average == LastOf(Sma(Volumes(bs), 20))
        quiet == Bool(p, "volumeFilter") /\ Less(LastOf(Volumes(bs)), average)
        spread == Over(Distance(LastOf(fast), LastOf(slow)), LastOf(slow))
        confidence == ConfidenceFrom(spread, Ratio(1, 50))
    IN CASE \/ Count(p, "fastPeriod") >= Count(p, "slowPeriod")
            \/ IsNaN(LastOf(slow)) \/ quiet -> Hold
         [] OTHER ->
                CASE CrossedAbove(fast, slow) -> Signal("BUY", confidence)
                  [] CrossedBelow(fast, slow) -> Signal("SELL", confidence)
                  [] OTHER -> Hold

(* The bands are multiplier deviations from the middle, and the deviation   *)
(* is a root: squares are compared. A confidence strictly between 0 and 1   *)
(* is irrational, and stands as 1/2.                                        *)
BollingerReversion(bs, p) ==
    LET price == Closes(bs)
        middle == Sma(price, Count(p, "period"))
        square(x) == Times(x, x)
        away == Minus(LastOf(price), LastOf(middle))
        band == Times(square(Num(p, "multiplier")), LastOf(Variance(price, Count(p, "period"))))
        beyond == AtMost(band, square(away))
        confidence == CASE band = Zero -> ConfidenceFrom(away, Zero)
                        [] Less(Zero, band) /\ square(away) = band -> Zero
                        [] Less(Zero, band) /\ AtMost(Times(Ratio(9, 4), band), square(away)) -> One
                        [] OTHER -> Ratio(1, 2)
    IN CASE AtMost(away, Zero) /\ beyond -> Signal("BUY", confidence)
         [] Less(Zero, away) /\ beyond -> Signal("SELL", confidence)
         [] /\ ~beyond /\ Bool(p, "exitAtMiddle") /\ CrossedAbove(price, middle) ->
                Signal("SELL", Ratio(3, 10))
         [] OTHER -> Hold

StochasticCross(bs, p) ==
    LET k == StochasticK(bs, Count(p, "period"))
        d == StochasticD(k, Count(p, "smoothing"))
        oversold == Num(p, "oversold")
        overbought == Num(p, "overbought")
    IN CASE Less(LastOf(k), oversold) /\ CrossedAbove(k, d) ->
                Signal("BUY", ConfidenceFrom(Minus(oversold, LastOf(k)), oversold))
         [] Less(overbought, LastOf(k)) /\ CrossedBelow(k, d) ->
                Signal("SELL", ConfidenceFrom(Minus(LastOf(k), overbought),
                                              Minus(Hundred, overbought)))
         [] OTHER -> Hold

(* The range of the window before the current bar.                          *)
Channel(bs, period) ==
    LET window == Window(bs, Len(bs) - 1, period)
    IN [upper |-> Highest(Highs(window)), lower |-> Lowest(Lows(window))]

DonchianBreakout(bs, p) ==
    LET channel == Channel(bs, Count(p, "period"))
        price == LastOf(Closes(bs))
        range == LastOf(Atr(bs, Count(p, "atrPeriod")))
        narrow == Bool(p, "atrFilter") /\ Less(Minus(channel.upper, channel.lower), range)
    IN CASE Len(bs) < Count(p, "period") + 2 \/ narrow -> Hold
         [] OTHER ->
                CASE Less(channel.upper, price) ->
                        Signal("BUY", ConfidenceFrom(Over(Minus(price, channel.upper), channel.upper),
                                                     Ratio(1, 100)))
                  [] Less(price, channel.lower) ->
                        Signal("SELL", ConfidenceFrom(Over(Minus(channel.lower, price), channel.lower),
                                                      Ratio(1, 100)))
                  [] OTHER -> Hold

Supertrend(bs, p) ==
    LET n == Len(bs)
        range == Atr(bs, Count(p, "atrPeriod"))
        center(i) == Ratio(bs[i].high + bs[i].low, 2)
        width(i) == Times(Num(p, "multiplier"), range[i])
        upper(i) == Plus(center(i), width(i))
        lower(i) == Minus(center(i), width(i))
        price(i) == Whole(bs[i].close)
    IN CASE AtMost(price(n - 1), upper(n - 1)) /\ Less(upper(n), price(n)) ->
                Signal("BUY", Ratio(7, 10))
         [] AtMost(lower(n - 1), price(n - 1)) /\ Less(price(n), lower(n)) ->
                Signal("SELL", Ratio(7, 10))
         [] OTHER -> Hold

GridDca(bs, p) ==
    LET n == Len(bs)
        peak == Highest(Highs(Window(bs, n, Count(p, "lookback"))))
        drop == Times(Over(Minus(peak, Whole(bs[n].close)), peak), Hundred)
        steps == Over(drop, Num(p, "stepPercent"))
        level == Lesser(Whole(steps[1] \div steps[2]), Num(p, "maxLevels"))
    IN IF n >= Count(p, "lookback") /\ AtMost(One, steps)
       THEN Signal("BUY", ConfidenceFrom(level, Num(p, "maxLevels"))) ELSE Hold

(* What a group of rules says by the results of its conditions, and what    *)
(* else if it does not pass.                                                *)
Judged(group, results, action, otherwise) ==
    LET matched == With("passed", results)
    IN CASE With("thrown", results) # {} -> Error
         [] With("thrown", results) = {} /\ GroupPasses(group, matched) ->
                Signal(action, Ratio(Cardinality(matched), Len(group.conditions)))
         [] OTHER -> otherwise

(* The way out is looked at first, and what is thrown on the way ends it.   *)
Decided(p, results) ==
    Judged(GroupOf(p, "exitRules"), results["exitRules"], "SELL",
           Judged(GroupOf(p, "entryRules"), results["entryRules"], "BUY", Hold))
CustomRules(bs, p) ==
    Decided(p, [name \in {"entryRules", "exitRules"} |-> Results(GroupOf(p, name), bs)])

-----------------------------------------------------------------------------
(* The settings of each strategy.                                           *)
CustomSettings ==
    LET rsi(operator, level) == <<Condition(Indicator("RSI", [period |-> 14]), operator,
                                            Constant(Whole(level)))>>
    IN [entryRules |-> RulesSpec(Group("AND", rsi("lt", 30))),
        exitRules |-> RulesSpec(Group("OR", rsi("gt", 70)))]
RsiSettings ==
    [period |-> IntegerSpec(14, 2, 100), oversold |-> IntegerSpec(30, 1, 49),
     overbought |-> IntegerSpec(70, 51, 99), requireTurn |-> FlagSpec(TRUE)]
MacdSettings ==
    [fastPeriod |-> IntegerSpec(12, 2, 100), slowPeriod |-> IntegerSpec(26, 3, 200),
     signalPeriod |-> IntegerSpec(9, 2, 50), requirePositiveHistogram |-> FlagSpec(FALSE)]
EmaSettings ==
    [fastPeriod |-> IntegerSpec(50, 2, 200), slowPeriod |-> IntegerSpec(200, 3, 500),
     volumeFilter |-> FlagSpec(FALSE)]
BollingerSettings ==
    [period |-> IntegerSpec(20, 5, 100), exitAtMiddle |-> FlagSpec(TRUE),
     multiplier |-> NumberSpec(Whole(2), Ratio(1, 2), Whole(5))]
StochasticSettings ==
    [period |-> IntegerSpec(14, 2, 100), smoothing |-> IntegerSpec(3, 1, 20),
     oversold |-> IntegerSpec(20, 1, 49), overbought |-> IntegerSpec(80, 51, 99)]
DonchianSettings ==
    [period |-> IntegerSpec(20, 3, 200), atrFilter |-> FlagSpec(TRUE),
     atrPeriod |-> IntegerSpec(14, 2, 100)]
SupertrendSettings ==
    [atrPeriod |-> IntegerSpec(10, 2, 100),
     multiplier |-> NumberSpec(Whole(3), Ratio(1, 2), Whole(10))]
GridSettings ==
    [stepPercent |-> NumberSpec(Whole(2), Ratio(1, 10), Whole(50)),
     maxLevels |-> IntegerSpec(5, 1, 50), lookback |-> IntegerSpec(20, 3, 200)]

Library ==
    [customRules |-> CustomSettings, rsiReversal |-> RsiSettings, macdCross |-> MacdSettings,
     emaCross |-> EmaSettings, bollingerReversion |-> BollingerSettings,
     stochasticCross |-> StochasticSettings, donchianBreakout |-> DonchianSettings,
     supertrend |-> SupertrendSettings, gridDca |-> GridSettings]

Specs(strategy) == Spread(Library[strategy], RiskParams)

(* How much history a configuration needs.                                  *)
Needs(strategy, p) ==
    CASE strategy = "customRules" ->
             LargerOf(GroupNeeds(GroupOf(p, "entryRules")), GroupNeeds(GroupOf(p, "exitRules")))
      [] strategy = "rsiReversal" -> Count(p, "period") * 3
      [] strategy = "macdCross" -> Count(p, "slowPeriod") + Count(p, "signalPeriod") * 3
      [] strategy = "emaCross" -> Count(p, "slowPeriod") + 20
      [] strategy = "bollingerReversion" -> Count(p, "period") * 2
      [] strategy = "stochasticCross" -> Count(p, "period") + Count(p, "smoothing") * 3
      [] strategy = "donchianBreakout" -> LargerOf(Count(p, "period"), Count(p, "atrPeriod")) + 5
      [] strategy = "supertrend" -> Count(p, "atrPeriod") * 3
      [] strategy = "gridDca" -> Count(p, "lookback") + 5

Verdict(strategy, bs, p) ==
    CASE strategy = "customRules" -> CustomRules(bs, p)
      [] strategy = "rsiReversal" -> RsiReversal(bs, p)
      [] strategy = "macdCross" -> MacdCross(bs, p)
      [] strategy = "emaCross" -> EmaCross(bs, p)
      [] strategy = "bollingerReversion" -> BollingerReversion(bs, p)
      [] strategy = "stochasticCross" -> StochasticCross(bs, p)
      [] strategy = "donchianBreakout" -> DonchianBreakout(bs, p)
      [] strategy = "supertrend" -> Supertrend(bs, p)
      [] strategy = "gridDca" -> GridDca(bs, p)
=============================================================================
