---------------------------- MODULE MCStrategies ----------------------------
(* The strategies over every sequence of a few candles of four shapes.      *)
EXTENDS Strategies

Candle(open, high, low, close, volume) ==
    [open |-> open, high |-> high, low |-> low, close |-> close, volume |-> volume]

MCStillBar == Candle(2, 2, 2, 2, 0)
MCBars == {MCStillBar, Candle(2, 4, 2, 4, 2), Candle(3, 3, 1, 1, 1), Candle(2, 4, 1, 3, 2)}

MCSarStep == Ratio(1, 4)
MCSarMaxStep == Ratio(1, 2)
MCTolerance == Ratio(1, 2)

Two == [period |-> 2]
Five == [period |-> 5]
Lines == [fastPeriod |-> 2, slowPeriod |-> 3, signalPeriod |-> 2]
Cloud == [conversionPeriod |-> 2, basePeriod |-> 3, spanPeriod |-> 4]

MCCharted ==
    {Indicator(name, Two) : name \in {"RSI", "EMA", "ATR", "CCI", "WILLIAMS_R", "MFI", "VWAP"}}
    \cup {Indicator("SMA", [period |-> 3]), Indicator("ROC", [period |-> 1]),
          Indicator("OBV", <<>>), Indicator("PSAR", <<>>),
          Output("MACD", Lines, "histogram"), Output("VOLUME", Two, "average"),
          Output("STOCHASTIC", [period |-> 2, smoothing |-> 2], "k"),
          Output("STOCHASTIC", [period |-> 2, smoothing |-> 2], "d")}
    \cup {Output("ADX", Two, output) : output \in {"adx", "plusDI", "minusDI"}}
    \cup {Output("KELTNER", [period |-> 2, multiplier |-> 1], output) :
              output \in {"upper", "lower"}}
    \cup {Output("ICHIMOKU", Cloud, output) : output \in {"conversion", "spanA", "spanB"}}

Bot(strategy, input) == [key |-> strategy, input |-> input, new |-> FALSE]
NewMarket(bot) == [bot EXCEPT !.new = TRUE]
Whole2 == Number(Whole(2))
Whole3 == Number(Whole(3))

MCSetups ==
    <<Bot("rsiReversal", [period |-> Whole2]),
      Bot("rsiReversal", [period |-> Whole2, requireTurn |-> Flag(FALSE)]),
      Bot("macdCross", [fastPeriod |-> Whole2, slowPeriod |-> Whole3, signalPeriod |-> Whole2]),
      Bot("macdCross", [fastPeriod |-> Whole2, slowPeriod |-> Whole3, signalPeriod |-> Whole2,
                        requirePositiveHistogram |-> Flag(TRUE)]),
      Bot("macdCross", [fastPeriod |-> Whole3, slowPeriod |-> Whole3, signalPeriod |-> Whole2]),
      Bot("emaCross", [fastPeriod |-> Whole2, slowPeriod |-> Whole3]),
      Bot("emaCross", [fastPeriod |-> Number(Whole(5)), slowPeriod |-> Whole3]),
      Bot("emaCross", [fastPeriod |-> Whole2, slowPeriod |-> Whole3, volumeFilter |-> Flag(TRUE)]),
      Bot("bollingerReversion", [period |-> Number(Whole(5)), multiplier |-> Number(One)]),
      Bot("stochasticCross", [period |-> Whole3, smoothing |-> Whole2, oversold |-> Number(Whole(40)),
                              overbought |-> Number(Whole(60))]),
      Bot("stochasticCross", [period |-> Whole2, smoothing |-> Flag(TRUE)]),
      Bot("donchianBreakout", [period |-> Whole3, atrPeriod |-> Whole2]),
      NewMarket(Bot("donchianBreakout", [period |-> Whole3, atrPeriod |-> Whole2])),
      Bot("donchianBreakout", [period |-> Whole3, atrPeriod |-> Whole2, atrFilter |-> Flag(FALSE)]),
      Bot("supertrend", [atrPeriod |-> Whole2, multiplier |-> Number(Ratio(1, 2))]),
      Bot("gridDca", [lookback |-> Whole3, stepPercent |-> Number(Whole(10)), maxLevels |-> Whole2]),
      Bot("customRules",
          [entryRules |-> Group("AND", <<Condition(Output("ADX", Two, "plusDI"), "crossesAbove",
                                                   Output("ADX", Two, "minusDI")),
                                         Ranged(Indicator("MFI", Five), "between",
                                               Constant(Hundred), Constant(Whole(50)))>>),
           exitRules |-> Group("OR", <<Condition(Price("close"), "crossesBelow",
                                                 Output("ICHIMOKU", Cloud, "base")),
                                       Condition(Price("low"), "lt", Price("open")),
                                       Condition(Indicator("CCI", Two), "gt",
                                                 Indicator("MFI", Two))>>)]),
      Bot("customRules",
          [entryRules |-> Group("OR", <<Ranged(Output("KELTNER", Two, "middle"), "outside",
                                              Constant(Whole(2)), Indicator("OMA", Two))>>),
           exitRules |-> Group("AND", <<>>)]),
      Bot("customRules", [exitRules |-> Text]),
      Bot("gridDca", [leverage |-> Whole3]),
      Bot("rsiReversal", [period |-> Number(Whole(101))]),
      Bot("rsiReversal", [period |-> Blank, requireTurn |-> Text])>>
=============================================================================
