----------------------------- MODULE Strategies -----------------------------
(* The registry and the runner: the settings of a bot are checked when they *)
(* are stored, and on every closed candle the runner evaluates the bot's    *)
(* strategy over the last candles it asked the exchange for.                *)
EXTENDS StrategyLibrary

CONSTANTS
    MinHistory,    \* the least history asked for: 10
    Setups,        \* the bots: sequence of [key, input, new]
    Bars,          \* the shapes of a new candle: [open, high, low, close, volume]
    StillBar,      \* the candle of a market that does not move
    MaxBars,       \* bound: new candles
    Charted        \* the indicators the properties follow: operands of rules

(* What the exchange, the settings form and the rule builder can send: a    *)
(* candle of a market with a price, a number in lowest terms, a condition   *)
(* that compares things which can be read, and whole periods.               *)
Candles ==
    {c \in [open : Nat, high : Nat, low : Nat, close : Nat, volume : Nat] :
        c.low \in 1 .. c.close /\ c.close \in 1 .. c.high /\ c.open \in c.low .. c.high}
InLowestTerms(x) == x \in Int \X (Nat \ {0}) /\ Gcd(Magnitude(x[1]), x[2]) = 1

Readable(operand) ==
    CASE operand.type = "constant" -> InLowestTerms(operand.value)
      [] operand.type = "price" -> operand.source \in {"open", "high", "low", "close"}
      [] operand.type = "indicator" -> \A name \in DOMAIN operand.params : operand.params[name] \in Nat
      [] OTHER -> FALSE

Operators == {"gt", "gte", "lt", "lte", "crossesAbove", "crossesBelow", "between", "outside"}
IsSequence(s) == s \in Seq({s[i] : i \in DOMAIN s})
IsGroup(group) ==
    /\ group.logic \in {"AND", "OR"}
    /\ IsSequence(group.conditions)
    /\ \A i \in DOMAIN group.conditions :
          LET c == group.conditions[i]
          IN /\ c.operator \in Operators
             /\ IsSequence(c.right) /\ Len(c.right) \in {1, 2}
             /\ \A side \in DOMAIN OperandsOf(c) : Readable(OperandsOf(c)[side])

IsSetting(value) ==
    \/ value \in {Text, Blank}
    \/ value[1] = "number" /\ InLowestTerms(value[2])
    \/ value[1] = "boolean" /\ value[2] \in BOOLEAN
    \/ value[1] = "rules" /\ IsGroup(value[2])

Lengths == {"period", "fastPeriod", "slowPeriod", "signalPeriod", "smoothing", "atrPeriod",
            "lookback"}
IsInput(input) ==
    \A name \in DOMAIN input :
        /\ IsSetting(input[name])
        /\ name \in Lengths /\ input[name][1] = "number" => input[name][2][2] = 1

ASSUME StrategiesAssumption ==
    /\ MinHistory \in Nat /\ MaxBars \in Nat
    /\ Bars \subseteq Candles /\ StillBar \in Bars
    /\ \A operand \in Charted : operand.type = "indicator" /\ Known(operand)
    /\ \A i \in DOMAIN Setups :
          Setups[i].key \in DOMAIN Library /\ Setups[i].new \in BOOLEAN /\ IsInput(Setups[i].input)
    /\ \A speed \in {SarStep, SarMaxStep} : InLowestTerms(speed) /\ Between(Zero, speed, One)
    /\ InLowestTerms(NumericTolerance) /\ AtMost(Zero, NumericTolerance)

VARIABLES
    key,      \* the bot's strategy
    asked,    \* the settings as they were last sent and accepted
    config,   \* the settings as they are stored
    bars,     \* the candles that have closed
    signal,   \* what the strategy made of the last one
    fresh     \* how many of them closed since the bot was created

vars == <<key, asked, config, bars, signal, fresh>>

-----------------------------------------------------------------------------
Required(strategy, p) == LargerOf(MinHistory, Needs(strategy, p))

(* The runner asks for the history the bot needs and one candle more, the   *)
(* one that has not closed, which it drops.                                 *)
Evaluate(strategy, history, p) ==
    LET n == Required(strategy, p)
    IN IF Len(history) < n THEN Hold
       ELSE Verdict(strategy, Window(history, Len(history), n), p)

-----------------------------------------------------------------------------
Still(n) == [i \in 1 .. n |-> StillBar]

(* A bot is created, or given other settings, if they are accepted: on a    *)
(* new market, or on one that stands still, as it does for one candle more, *)
(* after which it has all the history that the bot needs but one candle.    *)
Init ==
    /\ \E i \in DOMAIN Setups :
          /\ Accepts(Specs(Setups[i].key), Setups[i].input)
          /\ key = Setups[i].key
          /\ asked = Setups[i].input
          /\ config = Resolved(Specs(Setups[i].key), Setups[i].input)
          /\ fresh = IF Setups[i].new THEN 0 ELSE 1
          /\ bars = Still(IF Setups[i].new THEN 0 ELSE Required(key, config) - 1)
    /\ signal = Hold

(* A candle closes, and the runner evaluates the bot.                       *)
CloseBar(bar) ==
    /\ fresh < MaxBars
    /\ fresh' = fresh + 1
    /\ bars' = Append(bars, bar)
    /\ signal' = Evaluate(key, bars', config)
    /\ UNCHANGED <<key, asked, config>>

Next == \E bar \in Bars : CloseBar(bar)

Spec == Init /\ [][Next]_vars

-----------------------------------------------------------------------------
(* The properties of the indicators are about a market that is followed     *)
(* from its first candle.                                                   *)
Chart == IF fresh = Len(bars) THEN bars ELSE <<>>
Followed(names) == {o \in Charted : Chart # <<>> /\ o.name \in names}
Shown(o, chart) == LastOf(Series(o, chart))

Inside(range, value) == IsNaN(value) \/ Between(range[1], value, range[2])

RangeOf(name) ==
    CASE name \in {"RSI", "MFI", "STOCHASTIC", "ADX"} -> <<Zero, Hundred>>
      [] name = "WILLIAMS_R" -> <<Minus(Zero, Hundred), Zero>>
      [] name \in {"SMA", "EMA", "VWAP", "PSAR", "ICHIMOKU"} ->
             <<Lowest(Lows(Chart)), Highest(Highs(Chart))>>
Bounded == {"RSI", "MFI", "STOCHASTIC", "ADX", "WILLIAMS_R", "SMA", "EMA", "VWAP", "PSAR",
            "ICHIMOKU"}

(* The confidence of a signal is a number from 0 to 1, in a flat market     *)
(* too, where the bands and channels have no width (confidenceFrom); every  *)
(* bounded oscillator stays in its range, and an indicator that is a price  *)
(* never leaves the range of the prices, whatever the candles.              *)
NumbersStayInRange ==
    /\ Between(Zero, signal.confidence, One)
    /\ \A o \in Followed(Bounded) : Inside(RangeOf(o.name), Shown(o, Chart))

(* A value that was shown for a closed candle never changes when more of    *)
(* them close: no indicator looks ahead. (A value may appear later: the ADX *)
(* and the stop need a number of candles before they show any.)             *)
NeverRepaints ==
    \A o \in Followed(DOMAIN Catalog) :
        \A before, after \in {Series(o, SubSeq(Chart, 1, n)) : n \in {Len(Chart) - 1, Len(Chart)}} :
            Len(before) < Len(after) =>
                \A i \in DOMAIN before : IsNaN(before[i]) \/ before[i] = after[i]

(* What a configuration asks for is enough: on as many candles, everything  *)
(* its rules read has a value on the last candle and on the one before. (A  *)
(* crossing of two lines whose fast one is not the faster reads nothing.)   *)
Ordered(p) == Count(p, "fastPeriod") < Count(p, "slowPeriod")
ReadOn(strategy, p) ==
    CASE strategy = "customRules" ->
             Operands(GroupOf(p, "entryRules")) \cup Operands(GroupOf(p, "exitRules"))
      [] strategy = "rsiReversal" -> {Indicator("RSI", [period |-> Count(p, "period")])}
      [] strategy = "macdCross" /\ Ordered(p) ->
             {Output("MACD", [fastPeriod |-> Count(p, "fastPeriod"),
                              slowPeriod |-> Count(p, "slowPeriod"),
                              signalPeriod |-> Count(p, "signalPeriod")], "histogram")}
      [] strategy = "emaCross" /\ Ordered(p) ->
             {Indicator("EMA", [period |-> Count(p, name)]) : name \in {"fastPeriod", "slowPeriod"}}
      [] strategy = "bollingerReversion" ->
             {Indicator("BOLLINGER", [period |-> Count(p, "period")])}
      [] strategy = "stochasticCross" ->
             {Output("STOCHASTIC", [period |-> Count(p, "period"),
                                    smoothing |-> Count(p, "smoothing")], "d")}
      [] strategy = "donchianBreakout" -> {Indicator("ATR", [period |-> Count(p, "atrPeriod")])}
      [] strategy = "supertrend" -> {Indicator("ATR", [period |-> Count(p, "atrPeriod")])}
      [] OTHER -> {}

ReadyInTime ==
    LET n == Required(key, config)
    IN Len(bars) = n =>
          \A o \in ReadOn(key, config) :
              Known(o) => \A i \in {n - 1, n} : ~IsNaN(Series(o, bars)[i])

(* What looks at a window sees nothing else: a strategy gives the same      *)
(* verdict on the candles the runner fetched as on the whole history, and   *)
(* an indicator the same value on one candle more than its periods as on    *)
(* all. (Those that smooth do not: they start anew from the first candle    *)
(* they are given.)                                                         *)
Windowed == {"SMA", "CCI", "WILLIAMS_R", "MFI", "ROC", "VWAP", "STOCHASTIC", "VOLUME"}
Reach(o) == IF o.name = "STOCHASTIC" THEN Param(o, "period") + Param(o, "smoothing")
            ELSE Param(o, "period") + 1

WindowSuffices ==
    /\ (\/ key \in {"bollingerReversion", "stochasticCross", "gridDca"}
        \/ key = "donchianBreakout" /\ ~Bool(config, "atrFilter"))
       /\ Len(bars) >= Required(key, config)
       => signal = Verdict(key, bars, config)
    /\ \A o \in Followed(Windowed) :
          Len(Chart) > Reach(o) =>
              Cardinality({Shown(o, Window(Chart, Len(Chart), n)) : n \in {Reach(o), Len(Chart)}}) = 1

(* The rules that say what a preset says.                                   *)
Rebuilt(strategy, p) ==
    LET rsi == Indicator("RSI", [period |-> Count(p, "period")])
        lines == [fastPeriod |-> Count(p, "fastPeriod"),
                  slowPeriod |-> Count(p, "slowPeriod"),
                  signalPeriod |-> Count(p, "signalPeriod")]
        ema(name) == Indicator("EMA", [period |-> Count(p, name)])
        place(output) == Output("STOCHASTIC", [period |-> Count(p, "period"),
                                               smoothing |-> Count(p, "smoothing")], output)
        cross(a, operator, b) == Condition(a, operator, b)
        rules(entry, exit) == [entryRules |-> Group("AND", entry), exitRules |-> Group("AND", exit)]
    IN CASE strategy = "rsiReversal" ->
                rules(<<Condition(rsi, "lt", Constant(Num(p, "oversold")))>>,
                      <<Condition(rsi, "gt", Constant(Num(p, "overbought")))>>)
         [] strategy = "macdCross" ->
                rules(<<cross(Output("MACD", lines, "macd"), "crossesAbove",
                              Output("MACD", lines, "signal"))>>,
                      <<cross(Output("MACD", lines, "macd"), "crossesBelow",
                              Output("MACD", lines, "signal"))>>)
         [] strategy = "emaCross" ->
                rules(<<cross(ema("fastPeriod"), "crossesAbove", ema("slowPeriod"))>>,
                      <<cross(ema("fastPeriod"), "crossesBelow", ema("slowPeriod"))>>)
         [] strategy = "stochasticCross" ->
                rules(<<Condition(place("k"), "lt", Constant(Num(p, "oversold"))),
                        cross(place("k"), "crossesAbove", place("d"))>>,
                      <<Condition(place("k"), "gt", Constant(Num(p, "overbought"))),
                        cross(place("k"), "crossesBelow", place("d"))>>)

Plain(strategy, p) ==
    \/ strategy = "rsiReversal" /\ ~Bool(p, "requireTurn")
    \/ strategy = "macdCross" /\ Ordered(p) /\ ~Bool(p, "requirePositiveHistogram")
    \/ strategy = "emaCross" /\ Ordered(p) /\ ~Bool(p, "volumeFilter")
    \/ strategy = "stochasticCross"

(* A crossing whose lines had crossed one candle before, but by no more     *)
(* than the tolerance.                                                      *)
Barely(lead) == Less(Zero, lead) /\ AtMost(lead, NumericTolerance)
Grazes(operator, readings, n) ==
    \/ operator = "crossesAbove" /\ Barely(Minus(readings[1][n], readings[2][n]))
    \/ operator = "crossesBelow" /\ Barely(Minus(readings[2][n], readings[1][n]))
Grazed(c, bs) == Grazes(c.operator, Readings(c, bs), Len(bs) - 1)

(* What is done for an action the rules do; and when they do another thing, *)
(* one of their conditions is a grazed crossing.                            *)
Explains(rebuilt, rules, action, bs) ==
    LET conditions == GroupOf(rules, IF rebuilt = "BUY" THEN "entryRules" ELSE "exitRules").conditions
    IN /\ action # "HOLD" => rebuilt = action
       /\ rebuilt # action => \E i \in DOMAIN conditions : Grazed(conditions[i], bs)

SaidBy(rules, action, bs) == Explains(CustomRules(bs, rules).action, rules, action, bs)

(* A preset and the rules that say the same: the rule engine and the        *)
(* presets each have their own crossings and their own readings of a value  *)
(* that does not exist yet. What the preset does the rules do; and what the *)
(* rules do the preset does too, unless they see a crossing within their    *)
(* tolerance, which the presets do not have (crossedAbove).                 *)
RebuiltAgrees ==
    LET n == Required(key, config)
    IN Plain(key, config) /\ Len(bars) >= n =>
           SaidBy(Rebuilt(key, config), signal.action, Window(bars, Len(bars), n))
=============================================================================
