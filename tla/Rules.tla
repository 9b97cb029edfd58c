------------------------------- MODULE Rules -------------------------------
(* The rule engine: conditions over prices, constants and indicators, and   *)
(* groups of conditions joined by AND or OR.                                *)
EXTENDS Indicators

CONSTANT NumericTolerance   \* NUMERIC_TOLERANCE: 1e-12

(* INDICATORS: the outputs of each one, the first of which is the default,  *)
(* and the default, least and greatest value of each of its parameters.     *)
(* BOLLINGER's upper and lower bands are irrational, and left out.          *)
Entry(outputs, params) == [outputs |-> outputs, params |-> params]
Catalog ==
    LET one(default, least, most) == Entry(<<"value">>, [period |-> <<default, least, most>>])
        bare == Entry(<<"value">>, <<>>)
    IN [RSI |-> one(14, 2, 200), EMA |-> one(20, 2, 500), SMA |-> one(20, 2, 500),
        ATR |-> one(14, 2, 200), CCI |-> one(20, 2, 200), WILLIAMS_R |-> one(14, 2, 200),
        MFI |-> one(14, 2, 200), ROC |-> one(10, 1, 200), VWAP |-> one(20, 2, 500),
        OBV |-> bare, PSAR |-> bare,
        MACD |-> Entry(<<"macd", "signal", "histogram">>,
                       [fastPeriod |-> <<12, 2, 100>>, slowPeriod |-> <<26, 3, 200>>,
                        signalPeriod |-> <<9, 2, 50>>]),
        BOLLINGER |-> Entry(<<"middle">>, [period |-> <<20, 5, 200>>]),
        STOCHASTIC |-> Entry(<<"k", "d">>, [period |-> <<14, 2, 200>>, smoothing |-> <<3, 1, 50>>]),
        ADX |-> Entry(<<"adx", "plusDI", "minusDI">>, [period |-> <<14, 2, 100>>]),
        KELTNER |-> Entry(<<"upper", "middle", "lower">>,
                          [period |-> <<20, 2, 200>>, multiplier |-> <<2, 1, 10>>]),
        ICHIMOKU |-> Entry(<<"conversion", "base", "spanA", "spanB">>,
                           [conversionPeriod |-> <<9, 2, 100>>, basePeriod |-> <<26, 2, 200>>,
                            spanPeriod |-> <<52, 2, 400>>]),
        VOLUME |-> Entry(<<"value", "average">>, [period |-> <<20, 1, 500>>])]

(* Operands. An indicator's params and output may leave out what has a      *)
(* default.                                                                 *)
Constant(value) == [type |-> "constant", value |-> value]
Price(source) == [type |-> "price", source |-> source]
Indicator(name, params) == [type |-> "indicator", name |-> name, params |-> params, output |-> ""]
Output(name, params, output) ==
    [type |-> "indicator", name |-> name, params |-> params, output |-> output]

Condition(left, operator, right) == [left |-> left, operator |-> operator, right |-> <<right>>]
Ranged(left, operator, low, high) ==
    [left |-> left, operator |-> operator, right |-> <<low, high>>]

Param(operand, key) ==
    IF key \in DOMAIN operand.params THEN operand.params[key]
    ELSE Catalog[operand.name].params[key][1]

OutputOf(operand) ==
    IF operand.output = "" THEN Catalog[operand.name].outputs[1] ELSE operand.output

(* What resolveSeries throws on is not known.                               *)
Known(operand) ==
    operand.type = "indicator" =>
        /\ operand.name \in DOMAIN Catalog
        /\ \A key \in DOMAIN Catalog[operand.name].params :
              Param(operand, key) \in Catalog[operand.name].params[key][2]
                                      .. Catalog[operand.name].params[key][3]
        /\ \E i \in DOMAIN Catalog[operand.name].outputs :
              OutputOf(operand) = Catalog[operand.name].outputs[i]

IndicatorSeries(operand, bars) ==
    LET p(key) == Param(operand, key)
        output == OutputOf(operand)
        price == Closes(bars)
        line == MacdLine(price, p("fastPeriod"), p("slowPeriod"))
        signal == MacdSignal(line, p("signalPeriod"))
        k == StochasticK(bars, p("period"))
        middle == Ema(price, p("period"))
        range == Atr(bars, p("period"))
        conversion == Midpoint(bars, p("conversionPeriod"))
        base == Midpoint(bars, p("basePeriod"))
    IN CASE operand.name = "RSI" -> Rsi(price, p("period"))
         [] operand.name = "EMA" -> middle
         [] operand.name \in {"SMA", "BOLLINGER"} -> Sma(price, p("period"))
         [] operand.name = "ATR" -> range
         [] operand.name = "CCI" -> Cci(bars, p("period"))
         [] operand.name = "WILLIAMS_R" -> WilliamsR(bars, p("period"))
         [] operand.name = "MFI" -> Mfi(bars, p("period"))
         [] operand.name = "ROC" -> Roc(price, p("period"))
         [] operand.name = "OBV" -> Obv(bars)
         [] operand.name = "VWAP" -> Vwap(bars, p("period"))
         [] operand.name = "PSAR" -> Psar(bars)
         [] operand.name = "MACD" /\ output = "macd" -> line
         [] operand.name = "MACD" /\ output = "signal" -> signal
         [] operand.name = "MACD" /\ output = "histogram" -> Histogram(line, signal)
         [] operand.name = "STOCHASTIC" /\ output = "k" -> k
         [] operand.name = "STOCHASTIC" /\ output = "d" -> StochasticD(k, p("smoothing"))
         [] operand.name = "ADX" -> Adx(bars, p("period"))[output]
         [] operand.name = "KELTNER" /\ output = "upper" ->
                Above(middle, range, Whole(p("multiplier")))
         [] operand.name = "KELTNER" /\ output = "middle" -> middle
         [] operand.name = "KELTNER" /\ output = "lower" ->
                Below(middle, range, Whole(p("multiplier")))
         [] operand.name = "ICHIMOKU" /\ output = "conversion" -> conversion
         [] operand.name = "ICHIMOKU" /\ output = "base" -> base
         [] operand.name = "ICHIMOKU" /\ output = "spanA" -> SpanA(conversion, base)
         [] operand.name = "ICHIMOKU" /\ output = "spanB" -> Midpoint(bars, p("spanPeriod"))
         [] operand.name = "VOLUME" /\ output = "value" -> Volumes(bars)
         [] operand.name = "VOLUME" /\ output = "average" -> Sma(Volumes(bars), p("period"))

Series(operand, bars) ==
    CASE operand.type = "constant" -> [i \in DOMAIN bars |-> operand.value]
      [] operand.type = "price" -> [i \in DOMAIN bars |-> Whole(bars[i][operand.source])]
      [] operand.type = "indicator" -> IndicatorSeries(operand, bars)

-----------------------------------------------------------------------------
(* The operands of a condition, and their series.                           *)
OperandsOf(c) == <<c.left>> \o c.right
Readings(c, bars) == [side \in DOMAIN OperandsOf(c) |-> Series(OperandsOf(c)[side], bars)]

(* evaluateCondition throws on an operand it does not know, and on a range  *)
(* with one bound; but it looks at the second bound only when both other    *)
(* operands have a value.                                                   *)
ConditionThrows(c, readings) ==
    \/ ~Known(c.left) \/ ~Known(c.right[1])
    \/ /\ c.operator \in {"between", "outside"}
       /\ \A side \in {1, 2} : ~IsNaN(LastOf(readings[side]))
       /\ (Len(c.right) < 2 \/ ~Known(c.right[2]))

(* Whether a is between the bounds, which may be given the wrong way round. *)
Within(a, b, c) == Between(b, a, c) \/ Between(c, a, b)

(* A value that does not exist yet passes nothing. A line that was past the *)
(* other by no more than the tolerance still crosses it.                    *)
Compares(operator, left, right, bound) ==
    LET n == Len(left) IN
    /\ ~IsNaN(left[n]) /\ ~IsNaN(right[n])
    /\ CASE operator = "gt" -> Less(right[n], left[n])
         [] operator = "gte" -> AtMost(right[n], left[n])
         [] operator = "lt" -> Less(left[n], right[n])
         [] operator = "lte" -> AtMost(left[n], right[n])
         [] operator = "crossesAbove" ->
                n > 1 /\ AtMost(left[n - 1], Plus(right[n - 1], NumericTolerance))
                      /\ Less(right[n], left[n])
         [] operator = "crossesBelow" ->
                n > 1 /\ AtMost(Minus(right[n - 1], NumericTolerance), left[n - 1])
                      /\ Less(left[n], right[n])
         [] operator = "between" -> ~IsNaN(bound[n]) /\ Within(left[n], right[n], bound[n])
         [] operator = "outside" -> ~IsNaN(bound[n]) /\ ~Within(left[n], right[n], bound[n])

Result(c, readings) ==
    CASE ConditionThrows(c, readings) -> "thrown"
      [] ~ConditionThrows(c, readings)
         /\ Compares(c.operator, readings[1], readings[2], readings[3]) -> "passed"
      [] OTHER -> "failed"

Results(group, bars) ==
    [i \in DOMAIN group.conditions |->
        Result(group.conditions[i], Readings(group.conditions[i], bars))]
With(result, results) == {i \in DOMAIN results : results[i] = result}

(* An empty group passes nothing.                                           *)
GroupPasses(group, matched) ==
    /\ matched # {}
    /\ group.logic = "AND" => matched = DOMAIN group.conditions

Operands(group) ==
    UNION {{OperandsOf(c)[i] : i \in DOMAIN OperandsOf(c)} :
              c \in {group.conditions[i] : i \in DOMAIN group.conditions}}

(* The parameters of the indicators a group names, if there are such.       *)
Periods(group) ==
    UNION {{Param(o, name) : name \in DOMAIN Catalog[o.name].params} :
              o \in {o \in Operands(group) : o.type = "indicator" /\ o.name \in DOMAIN Catalog}}

(* Mutant: one period is enough for every indicator.                        *)
GroupNeeds_Once(group) ==
    CHOOSE n \in {5} \cup Periods(group) : \A m \in {5} \cup Periods(group) : m <= n

(* Three times the longest of them.                                         *)
GroupNeeds(group) ==
    LET lengths == {5} \cup {3 * p : p \in Periods(group)}
    IN CHOOSE n \in lengths : \A m \in lengths : m <= n
=============================================================================
