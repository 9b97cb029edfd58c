-------------------------- MODULE StrategiesProofs --------------------------
(***************************************************************************)
(* What holds of Strategies for every configuration that is accepted, every*)
(* period and every sequence of candles: an indicator is one of the series *)
(* of SeriesProofs, by its name and output; a strategy reads indicators;   *)
(* and the settings and the history of a bot are what it asks for.         *)
(***************************************************************************)
EXTENDS SeriesProofs

(* What is known of an indicator that is known: which one it is, that its   *)
(* parameters are whole and more than 0, and which output is asked for.     *)
Settled(o, keys, outputs) ==
    /\ \A x \in keys : Param(o, x) \in Nat /\ Param(o, x) > 0
    /\ OutputOf(o) \in outputs
KnownNames == {"RSI", "EMA", "SMA", "ATR", "CCI", "WILLIAMS_R", "MFI", "ROC", "VWAP",
               "OBV", "PSAR", "MACD", "BOLLINGER", "STOCHASTIC", "ADX", "KELTNER", "ICHIMOKU", "VOLUME"}

LEMMA EntryIs ==
    ASSUME NEW o, o.type = "indicator", Known(o), NEW outputs, NEW keys, NEW params,
           Catalog[o.name] = Entry(outputs, params),
           NEW texts, \A i \in DOMAIN outputs : outputs[i] \in texts, keys = DOMAIN params,
           \A x \in keys : params[x][2] \in Nat /\ params[x][2] > 0 /\ params[x][3] \in Nat
    PROVE  Settled(o, keys, texts)
<1>1. /\ \A x \in DOMAIN Catalog[o.name].params :
            Param(o, x) \in Catalog[o.name].params[x][2] .. Catalog[o.name].params[x][3]
      /\ \E i \in DOMAIN Catalog[o.name].outputs : OutputOf(o) = Catalog[o.name].outputs[i]
    BY DEF Known
<1>2. Catalog[o.name].params = params /\ Catalog[o.name].outputs = outputs
    BY DEF Entry
<1> QED BY <1>1, <1>2 DEF Settled

LEMMA KnownIs ==
    ASSUME NEW o, o.type = "indicator", Known(o)
    PROVE  /\ o.name \in KnownNames
           /\ o.name = "RSI" => Settled(o, {"period"}, {"value"})
           /\ o.name = "EMA" => Settled(o, {"period"}, {"value"})
           /\ o.name = "SMA" => Settled(o, {"period"}, {"value"})
           /\ o.name = "ATR" => Settled(o, {"period"}, {"value"})
           /\ o.name = "CCI" => Settled(o, {"period"}, {"value"})
           /\ o.name = "WILLIAMS_R" => Settled(o, {"period"}, {"value"})
           /\ o.name = "MFI" => Settled(o, {"period"}, {"value"})
           /\ o.name = "ROC" => Settled(o, {"period"}, {"value"})
           /\ o.name = "VWAP" => Settled(o, {"period"}, {"value"})
           /\ o.name = "OBV" => Settled(o, {}, {"value"})
           /\ o.name = "PSAR" => Settled(o, {}, {"value"})
           /\ o.name = "MACD" => Settled(o, {"fastPeriod", "slowPeriod", "signalPeriod"}, {"macd", "signal", "histogram"})
           /\ o.name = "BOLLINGER" => Settled(o, {"period"}, {"middle"})
           /\ o.name = "STOCHASTIC" => Settled(o, {"period", "smoothing"}, {"k", "d"})
           /\ o.name = "ADX" => Settled(o, {"period"}, {"adx", "plusDI", "minusDI"})
           /\ o.name = "KELTNER" => Settled(o, {"period", "multiplier"}, {"upper", "middle", "lower"})
           /\ o.name = "ICHIMOKU" => Settled(o, {"conversionPeriod", "basePeriod", "spanPeriod"}, {"conversion", "base", "spanA", "spanB"})
           /\ o.name = "VOLUME" => Settled(o, {"period"}, {"value", "average"})
<1>0. o.name \in KnownNames
    BY DEF Known, Catalog, KnownNames
<1>1. ASSUME o.name = "RSI"
      PROVE  Settled(o, {"period"}, {"value"})
    <2> DEFINE outputs == <<"value">>
               params == [period |-> <<14, 2, 200>>]
    <2>1. Catalog[o.name] = Entry(outputs, params)
        BY <1>1 DEF Catalog
    <2>2. \A i \in DOMAIN outputs : outputs[i] \in {"value"}
        OBVIOUS
    <2>3. DOMAIN params = {"period"}
        OBVIOUS
    <2>4. \A x \in DOMAIN params : params[x][2] \in Nat /\ params[x][2] > 0 /\ params[x][3] \in Nat
        OBVIOUS
    <2> HIDE DEF outputs, params
    <2> QED BY <2>1, <2>2, <2>3, <2>4, EntryIs
<1>2. ASSUME o.name = "EMA"
      PROVE  Settled(o, {"period"}, {"value"})
    <2> DEFINE outputs == <<"value">>
               params == [period |-> <<20, 2, 500>>]
    <2>1. Catalog[o.name] = Entry(outputs, params)
        BY <1>2 DEF Catalog
    <2>2. \A i \in DOMAIN outputs : outputs[i] \in {"value"}
        OBVIOUS
    <2>3. DOMAIN params = {"period"}
        OBVIOUS
    <2>4. \A x \in DOMAIN params : params[x][2] \in Nat /\ params[x][2] > 0 /\ params[x][3] \in Nat
        OBVIOUS
    <2> HIDE DEF outputs, params
    <2> QED BY <2>1, <2>2, <2>3, <2>4, EntryIs
<1>3. ASSUME o.name = "SMA"
      PROVE  Settled(o, {"period"}, {"value"})
    <2> DEFINE outputs == <<"value">>
               params == [period |-> <<20, 2, 500>>]
    <2>1. Catalog[o.name] = Entry(outputs, params)
        BY <1>3 DEF Catalog
    <2>2. \A i \in DOMAIN outputs : outputs[i] \in {"value"}
        OBVIOUS
    <2>3. DOMAIN params = {"period"}
        OBVIOUS
    <2>4. \A x \in DOMAIN params : params[x][2] \in Nat /\ params[x][2] > 0 /\ params[x][3] \in Nat
        OBVIOUS
    <2> HIDE DEF outputs, params
    <2> QED BY <2>1, <2>2, <2>3, <2>4, EntryIs
<1>4. ASSUME o.name = "ATR"
      PROVE  Settled(o, {"period"}, {"value"})
    <2> DEFINE outputs == <<"value">>
               params == [period |-> <<14, 2, 200>>]
    <2>1. Catalog[o.name] = Entry(outputs, params)
        BY <1>4 DEF Catalog
    <2>2. \A i \in DOMAIN outputs : outputs[i] \in {"value"}
        OBVIOUS
    <2>3. DOMAIN params = {"period"}
        OBVIOUS
    <2>4. \A x \in DOMAIN params : params[x][2] \in Nat /\ params[x][2] > 0 /\ params[x][3] \in Nat
        OBVIOUS
    <2> HIDE DEF outputs, params
    <2> QED BY <2>1, <2>2, <2>3, <2>4, EntryIs
<1>5. ASSUME o.name = "CCI"
      PROVE  Settled(o, {"period"}, {"value"})
    <2> DEFINE outputs == <<"value">>
               params == [period |-> <<20, 2, 200>>]
    <2>1. Catalog[o.name] = Entry(outputs, params)
        BY <1>5 DEF Catalog
    <2>2. \A i \in DOMAIN outputs : outputs[i] \in {"value"}
        OBVIOUS
    <2>3. DOMAIN params = {"period"}
        OBVIOUS
    <2>4. \A x \in DOMAIN params : params[x][2] \in Nat /\ params[x][2] > 0 /\ params[x][3] \in Nat
        OBVIOUS
    <2> HIDE DEF outputs, params
    <2> QED BY <2>1, <2>2, <2>3, <2>4, EntryIs
<1>6. ASSUME o.name = "WILLIAMS_R"
      PROVE  Settled(o, {"period"}, {"value"})
    <2> DEFINE outputs == <<"value">>
               params == [period |-> <<14, 2, 200>>]
    <2>1. Catalog[o.name] = Entry(outputs, params)
        BY <1>6 DEF Catalog
    <2>2. \A i \in DOMAIN outputs : outputs[i] \in {"value"}
        OBVIOUS
    <2>3. DOMAIN params = {"period"}
        OBVIOUS
    <2>4. \A x \in DOMAIN params : params[x][2] \in Nat /\ params[x][2] > 0 /\ params[x][3] \in Nat
        OBVIOUS
    <2> HIDE DEF outputs, params
    <2> QED BY <2>1, <2>2, <2>3, <2>4, EntryIs
<1>7. ASSUME o.name = "MFI"
      PROVE  Settled(o, {"period"}, {"value"})
    <2> DEFINE outputs == <<"value">>
               params == [period |-> <<14, 2, 200>>]
    <2>1. Catalog[o.name] = Entry(outputs, params)
        BY <1>7 DEF Catalog
    <2>2. \A i \in DOMAIN outputs : outputs[i] \in {"value"}
        OBVIOUS
    <2>3. DOMAIN params = {"period"}
        OBVIOUS
    <2>4. \A x \in DOMAIN params : params[x][2] \in Nat /\ params[x][2] > 0 /\ params[x][3] \in Nat
        OBVIOUS
    <2> HIDE DEF outputs, params
    <2> QED BY <2>1, <2>2, <2>3, <2>4, EntryIs
<1>8. ASSUME o.name = "ROC"
      PROVE  Settled(o, {"period"}, {"value"})
    <2> DEFINE outputs == <<"value">>
               params == [period |-> <<10, 1, 200>>]
    <2>1. Catalog[o.name] = Entry(outputs, params)
        BY <1>8 DEF Catalog
    <2>2. \A i \in DOMAIN outputs : outputs[i] \in {"value"}
        OBVIOUS
    <2>3. DOMAIN params = {"period"}
        OBVIOUS
    <2>4. \A x \in DOMAIN params : params[x][2] \in Nat /\ params[x][2] > 0 /\ params[x][3] \in Nat
        OBVIOUS
    <2> HIDE DEF outputs, params
    <2> QED BY <2>1, <2>2, <2>3, <2>4, EntryIs
<1>9. ASSUME o.name = "VWAP"
      PROVE  Settled(o, {"period"}, {"value"})
    <2> DEFINE outputs == <<"value">>
               params == [period |-> <<20, 2, 500>>]
    <2>1. Catalog[o.name] = Entry(outputs, params)
        BY <1>9 DEF Catalog
    <2>2. \A i \in DOMAIN outputs : outputs[i] \in {"value"}
        OBVIOUS
    <2>3. DOMAIN params = {"period"}
        OBVIOUS
    <2>4. \A x \in DOMAIN params : params[x][2] \in Nat /\ params[x][2] > 0 /\ params[x][3] \in Nat
        OBVIOUS
    <2> HIDE DEF outputs, params
    <2> QED BY <2>1, <2>2, <2>3, <2>4, EntryIs
<1>10. ASSUME o.name = "OBV"
      PROVE  Settled(o, {}, {"value"})
    <2> DEFINE outputs == <<"value">>
               params == <<>>
    <2>1. Catalog[o.name] = Entry(outputs, params)
        BY <1>10 DEF Catalog
    <2>2. \A i \in DOMAIN outputs : outputs[i] \in {"value"}
        OBVIOUS
    <2>3. DOMAIN params = {}
        OBVIOUS
    <2>4. \A x \in DOMAIN params : params[x][2] \in Nat /\ params[x][2] > 0 /\ params[x][3] \in Nat
        OBVIOUS
    <2> HIDE DEF outputs, params
    <2> QED BY <2>1, <2>2, <2>3, <2>4, EntryIs
<1>11. ASSUME o.name = "PSAR"
      PROVE  Settled(o, {}, {"value"})
    <2> DEFINE outputs == <<"value">>
               params == <<>>
    <2>1. Catalog[o.name] = Entry(outputs, params)
        BY <1>11 DEF Catalog
    <2>2. \A i \in DOMAIN outputs : outputs[i] \in {"value"}
        OBVIOUS
    <2>3. DOMAIN params = {}
        OBVIOUS
    <2>4. \A x \in DOMAIN params : params[x][2] \in Nat /\ params[x][2] > 0 /\ params[x][3] \in Nat
        OBVIOUS
    <2> HIDE DEF outputs, params
    <2> QED BY <2>1, <2>2, <2>3, <2>4, EntryIs
<1>12. ASSUME o.name = "MACD"
      PROVE  Settled(o, {"fastPeriod", "slowPeriod", "signalPeriod"}, {"macd", "signal", "histogram"})
    <2> DEFINE outputs == <<"macd", "signal", "histogram">>
               params == [fastPeriod |-> <<12, 2, 100>>, slowPeriod |-> <<26, 3, 200>>, signalPeriod |-> <<9, 2, 50>>]
    <2>1. Catalog[o.name] = Entry(outputs, params)
        BY <1>12 DEF Catalog
    <2>2. \A i \in DOMAIN outputs : outputs[i] \in {"macd", "signal", "histogram"}
        OBVIOUS
    <2>3. DOMAIN params = {"fastPeriod", "slowPeriod", "signalPeriod"}
        OBVIOUS
    <2>4. \A x \in DOMAIN params : params[x][2] \in Nat /\ params[x][2] > 0 /\ params[x][3] \in Nat
        OBVIOUS
    <2> HIDE DEF outputs, params
    <2> QED BY <2>1, <2>2, <2>3, <2>4, EntryIs
<1>13. ASSUME o.name = "BOLLINGER"
      PROVE  Settled(o, {"period"}, {"middle"})
    <2> DEFINE outputs == <<"middle">>
               params == [period |-> <<20, 5, 200>>]
    <2>1. Catalog[o.name] = Entry(outputs, params)
        BY <1>13 DEF Catalog
    <2>2. \A i \in DOMAIN outputs : outputs[i] \in {"middle"}
        OBVIOUS
    <2>3. DOMAIN params = {"period"}
        OBVIOUS
    <2>4. \A x \in DOMAIN params : params[x][2] \in Nat /\ params[x][2] > 0 /\ params[x][3] \in Nat
        OBVIOUS
    <2> HIDE DEF outputs, params
    <2> QED BY <2>1, <2>2, <2>3, <2>4, EntryIs
<1>14. ASSUME o.name = "STOCHASTIC"
      PROVE  Settled(o, {"period", "smoothing"}, {"k", "d"})
    <2> DEFINE outputs == <<"k", "d">>
               params == [period |-> <<14, 2, 200>>, smoothing |-> <<3, 1, 50>>]
    <2>1. Catalog[o.name] = Entry(outputs, params)
        BY <1>14 DEF Catalog
    <2>2. \A i \in DOMAIN outputs : outputs[i] \in {"k", "d"}
        OBVIOUS
    <2>3. DOMAIN params = {"period", "smoothing"}
        OBVIOUS
    <2>4. \A x \in DOMAIN params : params[x][2] \in Nat /\ params[x][2] > 0 /\ params[x][3] \in Nat
        OBVIOUS
    <2> HIDE DEF outputs, params
    <2> QED BY <2>1, <2>2, <2>3, <2>4, EntryIs
<1>15. ASSUME o.name = "ADX"
      PROVE  Settled(o, {"period"}, {"adx", "plusDI", "minusDI"})
    <2> DEFINE outputs == <<"adx", "plusDI", "minusDI">>
               params == [period |-> <<14, 2, 100>>]
    <2>1. Catalog[o.name] = Entry(outputs, params)
        BY <1>15 DEF Catalog
    <2>2. \A i \in DOMAIN outputs : outputs[i] \in {"adx", "plusDI", "minusDI"}
        OBVIOUS
    <2>3. DOMAIN params = {"period"}
        OBVIOUS
    <2>4. \A x \in DOMAIN params : params[x][2] \in Nat /\ params[x][2] > 0 /\ params[x][3] \in Nat
        OBVIOUS
    <2> HIDE DEF outputs, params
    <2> QED BY <2>1, <2>2, <2>3, <2>4, EntryIs
<1>16. ASSUME o.name = "KELTNER"
      PROVE  Settled(o, {"period", "multiplier"}, {"upper", "middle", "lower"})
    <2> DEFINE outputs == <<"upper", "middle", "lower">>
               params == [period |-> <<20, 2, 200>>, multiplier |-> <<2, 1, 10>>]
    <2>1. Catalog[o.name] = Entry(outputs, params)
        BY <1>16 DEF Catalog
    <2>2. \A i \in DOMAIN outputs : outputs[i] \in {"upper", "middle", "lower"}
        OBVIOUS
    <2>3. DOMAIN params = {"period", "multiplier"}
        OBVIOUS
    <2>4. \A x \in DOMAIN params : params[x][2] \in Nat /\ params[x][2] > 0 /\ params[x][3] \in Nat
        OBVIOUS
    <2> HIDE DEF outputs, params
    <2> QED BY <2>1, <2>2, <2>3, <2>4, EntryIs
<1>17. ASSUME o.name = "ICHIMOKU"
      PROVE  Settled(o, {"conversionPeriod", "basePeriod", "spanPeriod"}, {"conversion", "base", "spanA", "spanB"})
    <2> DEFINE outputs == <<"conversion", "base", "spanA", "spanB">>
               params == [conversionPeriod |-> <<9, 2, 100>>, basePeriod |-> <<26, 2, 200>>, spanPeriod |-> <<52, 2, 400>>]
    <2>1. Catalog[o.name] = Entry(outputs, params)
        BY <1>17 DEF Catalog
    <2>2. \A i \in DOMAIN outputs : outputs[i] \in {"conversion", "base", "spanA", "spanB"}
        OBVIOUS
    <2>3. DOMAIN params = {"conversionPeriod", "basePeriod", "spanPeriod"}
        OBVIOUS
    <2>4. \A x \in DOMAIN params : params[x][2] \in Nat /\ params[x][2] > 0 /\ params[x][3] \in Nat
        OBVIOUS
    <2> HIDE DEF outputs, params
    <2> QED BY <2>1, <2>2, <2>3, <2>4, EntryIs
<1>18. ASSUME o.name = "VOLUME"
      PROVE  Settled(o, {"period"}, {"value", "average"})
    <2> DEFINE outputs == <<"value", "average">>
               params == [period |-> <<20, 1, 500>>]
    <2>1. Catalog[o.name] = Entry(outputs, params)
        BY <1>18 DEF Catalog
    <2>2. \A i \in DOMAIN outputs : outputs[i] \in {"value", "average"}
        OBVIOUS
    <2>3. DOMAIN params = {"period"}
        OBVIOUS
    <2>4. \A x \in DOMAIN params : params[x][2] \in Nat /\ params[x][2] > 0 /\ params[x][3] \in Nat
        OBVIOUS
    <2> HIDE DEF outputs, params
    <2> QED BY <2>1, <2>2, <2>3, <2>4, EntryIs
<1> QED BY <1>0, <1>1, <1>2, <1>3, <1>4, <1>5, <1>6, <1>7, <1>8, <1>9, <1>10, <1>11, <1>12, <1>13, <1>14, <1>15, <1>16, <1>17, <1>18

(* What the series of an indicator is, by its name and output.              *)
LEMMA IndicatorIs ==
    ASSUME NEW o, NEW bs
    PROVE  /\ o.name = "RSI" => IndicatorSeries(o, bs) = Rsi(Closes(bs), Param(o, "period"))
           /\ o.name = "EMA" => IndicatorSeries(o, bs) = Ema(Closes(bs), Param(o, "period"))
           /\ o.name \in {"SMA", "BOLLINGER"} => IndicatorSeries(o, bs) = Sma(Closes(bs), Param(o, "period"))
           /\ o.name = "ATR" => IndicatorSeries(o, bs) = Atr(bs, Param(o, "period"))
           /\ o.name = "CCI" => IndicatorSeries(o, bs) = Cci(bs, Param(o, "period"))
           /\ o.name = "WILLIAMS_R" => IndicatorSeries(o, bs) = WilliamsR(bs, Param(o, "period"))
           /\ o.name = "MFI" => IndicatorSeries(o, bs) = Mfi(bs, Param(o, "period"))
           /\ o.name = "ROC" => IndicatorSeries(o, bs) = Roc(Closes(bs), Param(o, "period"))
           /\ o.name = "OBV" => IndicatorSeries(o, bs) = Obv(bs)
           /\ o.name = "VWAP" => IndicatorSeries(o, bs) = Vwap(bs, Param(o, "period"))
           /\ o.name = "PSAR" => IndicatorSeries(o, bs) = Psar(bs)
           /\ o.name = "ADX" => IndicatorSeries(o, bs) = Adx(bs, Param(o, "period"))[OutputOf(o)]
<1>1. o.name = "RSI" => IndicatorSeries(o, bs) = Rsi(Closes(bs), Param(o, "period"))
    BY DEF IndicatorSeries
<1>2. o.name = "EMA" => IndicatorSeries(o, bs) = Ema(Closes(bs), Param(o, "period"))
    BY DEF IndicatorSeries
<1>3. o.name \in {"SMA", "BOLLINGER"} => IndicatorSeries(o, bs) = Sma(Closes(bs), Param(o, "period"))
    BY DEF IndicatorSeries
<1>4. o.name = "ATR" => IndicatorSeries(o, bs) = Atr(bs, Param(o, "period"))
    BY DEF IndicatorSeries
<1>5. o.name = "CCI" => IndicatorSeries(o, bs) = Cci(bs, Param(o, "period"))
    BY DEF IndicatorSeries
<1>6. o.name = "WILLIAMS_R" => IndicatorSeries(o, bs) = WilliamsR(bs, Param(o, "period"))
    BY DEF IndicatorSeries
<1>7. o.name = "MFI" => IndicatorSeries(o, bs) = Mfi(bs, Param(o, "period"))
    BY DEF IndicatorSeries
<1>8. o.name = "ROC" => IndicatorSeries(o, bs) = Roc(Closes(bs), Param(o, "period"))
    BY DEF IndicatorSeries
<1>9. o.name = "OBV" => IndicatorSeries(o, bs) = Obv(bs)
    BY DEF IndicatorSeries
<1>10. o.name = "VWAP" => IndicatorSeries(o, bs) = Vwap(bs, Param(o, "period"))
    BY DEF IndicatorSeries
<1>11. o.name = "PSAR" => IndicatorSeries(o, bs) = Psar(bs)
    BY DEF IndicatorSeries
<1>12. o.name = "ADX" => IndicatorSeries(o, bs) = Adx(bs, Param(o, "period"))[OutputOf(o)]
    BY DEF IndicatorSeries
<1> QED BY <1>1, <1>2, <1>3, <1>4, <1>5, <1>6, <1>7, <1>8, <1>9, <1>10, <1>11, <1>12

Line(o, bs) == MacdLine(Closes(bs), Param(o, "fastPeriod"), Param(o, "slowPeriod"))

LEMMA OutputIs ==
    ASSUME NEW o, NEW bs
    PROVE  /\ o.name = "MACD" =>
                 /\ OutputOf(o) = "macd" => IndicatorSeries(o, bs) = Line(o, bs)
                 /\ OutputOf(o) = "signal" =>
                       IndicatorSeries(o, bs) = MacdSignal(Line(o, bs), Param(o, "signalPeriod"))
                 /\ OutputOf(o) = "histogram" =>
                       IndicatorSeries(o, bs) = Histogram(Line(o, bs), MacdSignal(Line(o, bs), Param(o, "signalPeriod")))
           /\ o.name = "STOCHASTIC" =>
                 /\ OutputOf(o) = "k" => IndicatorSeries(o, bs) = StochasticK(bs, Param(o, "period"))
                 /\ OutputOf(o) = "d" =>
                       IndicatorSeries(o, bs) = StochasticD(StochasticK(bs, Param(o, "period")), Param(o, "smoothing"))
           /\ o.name = "KELTNER" =>
                 /\ OutputOf(o) = "upper" =>
                       IndicatorSeries(o, bs) = Above(Ema(Closes(bs), Param(o, "period")), Atr(bs, Param(o, "period")),
                                                      Whole(Param(o, "multiplier")))
                 /\ OutputOf(o) = "middle" => IndicatorSeries(o, bs) = Ema(Closes(bs), Param(o, "period"))
                 /\ OutputOf(o) = "lower" =>
                       IndicatorSeries(o, bs) = Below(Ema(Closes(bs), Param(o, "period")), Atr(bs, Param(o, "period")),
                                                      Whole(Param(o, "multiplier")))
           /\ o.name = "ICHIMOKU" =>
                 /\ OutputOf(o) = "conversion" => IndicatorSeries(o, bs) = Midpoint(bs, Param(o, "conversionPeriod"))
                 /\ OutputOf(o) = "base" => IndicatorSeries(o, bs) = Midpoint(bs, Param(o, "basePeriod"))
                 /\ OutputOf(o) = "spanA" =>
                       IndicatorSeries(o, bs) = SpanA(Midpoint(bs, Param(o, "conversionPeriod")),
                                                      Midpoint(bs, Param(o, "basePeriod")))
                 /\ OutputOf(o) = "spanB" => IndicatorSeries(o, bs) = Midpoint(bs, Param(o, "spanPeriod"))
           /\ o.name = "VOLUME" =>
                 /\ OutputOf(o) = "value" => IndicatorSeries(o, bs) = Volumes(bs)
                 /\ OutputOf(o) = "average" => IndicatorSeries(o, bs) = Sma(Volumes(bs), Param(o, "period"))
<1>1. ASSUME o.name = "MACD"
      PROVE  /\ OutputOf(o) = "macd" => IndicatorSeries(o, bs) = Line(o, bs)
             /\ OutputOf(o) = "signal" =>
                   IndicatorSeries(o, bs) = MacdSignal(Line(o, bs), Param(o, "signalPeriod"))
             /\ OutputOf(o) = "histogram" =>
                   IndicatorSeries(o, bs) = Histogram(Line(o, bs), MacdSignal(Line(o, bs), Param(o, "signalPeriod")))
    <2>1. OutputOf(o) = "macd" => IndicatorSeries(o, bs) = Line(o, bs)
        BY <1>1 DEF IndicatorSeries, Line
    <2>2. OutputOf(o) = "signal" => IndicatorSeries(o, bs) = MacdSignal(Line(o, bs), Param(o, "signalPeriod"))
        BY <1>1 DEF IndicatorSeries, Line
    <2>3. OutputOf(o) = "histogram" =>
              IndicatorSeries(o, bs) = Histogram(Line(o, bs), MacdSignal(Line(o, bs), Param(o, "signalPeriod")))
        BY <1>1 DEF IndicatorSeries, Line
    <2> QED BY <2>1, <2>2, <2>3
<1>2. o.name = "STOCHASTIC" /\ OutputOf(o) = "k" => IndicatorSeries(o, bs) = StochasticK(bs, Param(o, "period"))
    BY DEF IndicatorSeries
<1>3. o.name = "STOCHASTIC" /\ OutputOf(o) = "d" =>
          IndicatorSeries(o, bs) = StochasticD(StochasticK(bs, Param(o, "period")), Param(o, "smoothing"))
    BY DEF IndicatorSeries
<1>4. o.name = "KELTNER" /\ OutputOf(o) = "upper" =>
          IndicatorSeries(o, bs) = Above(Ema(Closes(bs), Param(o, "period")), Atr(bs, Param(o, "period")),
                                         Whole(Param(o, "multiplier")))
    BY DEF IndicatorSeries
<1>5. o.name = "KELTNER" /\ OutputOf(o) = "middle" => IndicatorSeries(o, bs) = Ema(Closes(bs), Param(o, "period"))
    BY DEF IndicatorSeries
<1>6. o.name = "KELTNER" /\ OutputOf(o) = "lower" =>
          IndicatorSeries(o, bs) = Below(Ema(Closes(bs), Param(o, "period")), Atr(bs, Param(o, "period")),
                                         Whole(Param(o, "multiplier")))
    BY DEF IndicatorSeries
<1>7. o.name = "ICHIMOKU" /\ OutputOf(o) = "conversion" =>
          IndicatorSeries(o, bs) = Midpoint(bs, Param(o, "conversionPeriod"))
    BY DEF IndicatorSeries
<1>8. o.name = "ICHIMOKU" /\ OutputOf(o) = "base" => IndicatorSeries(o, bs) = Midpoint(bs, Param(o, "basePeriod"))
    BY DEF IndicatorSeries
<1>9. o.name = "ICHIMOKU" /\ OutputOf(o) = "spanA" =>
          IndicatorSeries(o, bs) = SpanA(Midpoint(bs, Param(o, "conversionPeriod")), Midpoint(bs, Param(o, "basePeriod")))
    BY DEF IndicatorSeries
<1>10. o.name = "ICHIMOKU" /\ OutputOf(o) = "spanB" => IndicatorSeries(o, bs) = Midpoint(bs, Param(o, "spanPeriod"))
    BY DEF IndicatorSeries
<1>11. o.name = "VOLUME" /\ OutputOf(o) = "value" => IndicatorSeries(o, bs) = Volumes(bs)
    BY DEF IndicatorSeries
<1>12. o.name = "VOLUME" /\ OutputOf(o) = "average" => IndicatorSeries(o, bs) = Sma(Volumes(bs), Param(o, "period"))
    BY DEF IndicatorSeries
<1> QED BY <1>1, <1>2, <1>3, <1>4, <1>5, <1>6, <1>7, <1>8, <1>9, <1>10, <1>11, <1>12

(* What an indicator shows of a candle stays when more of them close.       *)
LEMMA OneIs ==
    ASSUME NEW o, NEW keys, NEW output, NEW p, Settled(o, keys, {output}), p \in keys
    PROVE  Param(o, p) \in Nat /\ Param(o, p) > 0 /\ OutputOf(o) = output
BY DEF Settled

LEMMA LinesAgree ==
    ASSUME NEW b \in Seq(Candles), NEW c \in Seq(Candles), Begins(b, c),
           NEW fast \in Nat, fast > 0, NEW slow \in Nat, slow > 0,
           NEW period \in Nat, period > 0
    PROVE  LET s == MacdLine(Closes(b), fast, slow)
               t == MacdLine(Closes(c), fast, slow)
           IN /\ Agrees(s, t)
              /\ Agrees(MacdSignal(s, period), MacdSignal(t, period))
              /\ Agrees(Histogram(s, MacdSignal(s, period)), Histogram(t, MacdSignal(t, period)))
<1> DEFINE s == MacdLine(Closes(b), fast, slow)
           t == MacdLine(Closes(c), fast, slow)
           x == MacdSignal(s, period)
           y == MacdSignal(t, period)
           first == LargerOf(fast, slow)
<1>1. /\ Closes(b) \in Seq(Fraction) /\ Closes(c) \in Seq(Fraction) /\ Begins(Closes(b), Closes(c))
    BY CandlesBegin
<1>2. Begins(s, t)
    BY <1>1, LineBegins
<1>3. /\ Valid(s, first) /\ Valid(t, first) /\ Len(s) = Len(Closes(b)) /\ Len(t) = Len(Closes(c))
    BY <1>1, LineIs
<1>4. first \in Nat /\ first > 0
    BY LargerOfIs
<1>5. s \in Seq(Numbers) /\ t \in Seq(Numbers)
    BY <1>3 DEF Valid
<1> HIDE DEF s, t, first
<1>6. Begins(x, y)
    BY <1>2, <1>3, <1>4, <1>5, SignalBegins
<1>7. Len(x) = Len(s) /\ Len(y) = Len(t)
    BY <1>3, <1>4, <1>5, SignalIs
<1>8. Len(s) \in Nat /\ Len(t) \in Nat /\ Len(s) <= Len(t) /\ DOMAIN s = 1 .. Len(s) /\ DOMAIN t = 1 .. Len(t)
    BY <1>2, <1>5, SeqParts DEF Begins
<1> HIDE DEF x, y
<1>9. \A i \in 1 .. Len(s) : Minus(s[i], x[i]) = Minus(t[i], y[i])
    BY <1>2, <1>6, <1>7 DEF Begins
<1> DEFINE f == Histogram(s, x)
           g == Histogram(t, y)
<1>10. f = [i \in 1 .. Len(s) |-> f[i]] /\ g = [i \in 1 .. Len(t) |-> g[i]]
    BY <1>8 DEF Histogram
<1>11. \A i \in 1 .. Len(s) : f[i] = g[i]
    BY <1>8, <1>9 DEF Histogram
<1> HIDE DEF f, g
<1>12. Len(f) = Len(s) /\ Len(g) = Len(t)
    BY <1>8, <1>10, TabledLength
<1>13. Begins(f, g)
    BY <1>8, <1>11, <1>12 DEF Begins
<1> QED BY <1>2, <1>6, <1>13, BeginsAgrees DEF f, g, x, y, s, t

LEMMA ChannelsAgree ==
    ASSUME NEW b \in Seq(Candles), NEW c \in Seq(Candles), Begins(b, c),
           NEW period \in Nat, period > 0, NEW z
    PROVE  /\ Begins(Ema(Closes(b), period), Ema(Closes(c), period))
           /\ Begins(Above(Ema(Closes(b), period), Atr(b, period), z),
                     Above(Ema(Closes(c), period), Atr(c, period), z))
           /\ Begins(Below(Ema(Closes(b), period), Atr(b, period), z),
                     Below(Ema(Closes(c), period), Atr(c, period), z))
<1> DEFINE s == Ema(Closes(b), period)
           t == Ema(Closes(c), period)
           x == Atr(b, period)
           y == Atr(c, period)
<1>1. /\ Closes(b) \in Seq(Fraction) /\ Closes(c) \in Seq(Fraction) /\ Begins(Closes(b), Closes(c))
      /\ Len(Closes(b)) = Len(b) /\ Len(Closes(c)) = Len(c)
    BY CandlesBegin
<1>2. Closes(b) \in Seq(Numbers) /\ Closes(c) \in Seq(Numbers)
    BY <1>1, FractionsAre
<1>3. Begins(s, t)
    BY <1>1, <1>2, EmaBegins
<1>4. Begins(x, y)
    BY AtrBegins
<1>5. s \in Seq(Numbers) /\ t \in Seq(Numbers) /\ Len(s) = Len(b) /\ Len(t) = Len(c)
    BY <1>1, <1>2, EmaIs
<1>6. x \in Seq(Numbers) /\ y \in Seq(Numbers) /\ Len(x) = Len(b) /\ Len(y) = Len(c)
    BY AtrIs DEF Valid
<1>7. Len(x) = Len(s) /\ Len(y) = Len(t)
    BY <1>5, <1>6
<1> HIDE DEF s, t, x, y
<1>8. Begins(Above(s, x, z), Above(t, y, z)) /\ Begins(Below(s, x, z), Below(t, y, z))
    BY <1>3, <1>4, <1>5, <1>6, <1>7, ChannelBegins
<1> QED BY <1>3, <1>8 DEF s, t, x, y

LEMMA CloudsAgree ==
    ASSUME NEW b \in Seq(Candles), NEW c \in Seq(Candles), Begins(b, c),
           NEW conversion \in Nat, conversion > 0, NEW base \in Nat, base > 0
    PROVE  Begins(SpanA(Midpoint(b, conversion), Midpoint(b, base)),
                  SpanA(Midpoint(c, conversion), Midpoint(c, base)))
<1> DEFINE s == Midpoint(b, conversion)
           t == Midpoint(c, conversion)
           x == Midpoint(b, base)
           y == Midpoint(c, base)
<1>1. Begins(s, t) /\ Begins(x, y)
    BY MidpointBegins
<1>2. /\ s \in Seq(Numbers) /\ t \in Seq(Numbers) /\ Len(s) = Len(b) /\ Len(t) = Len(c)
      /\ x \in Seq(Numbers) /\ y \in Seq(Numbers) /\ Len(x) = Len(b) /\ Len(y) = Len(c)
    BY MidpointValid DEF Valid
<1>3. Len(x) = Len(s) /\ Len(y) = Len(t)
    BY <1>2
<1> HIDE DEF s, t, x, y
<1>4. Begins(SpanA(s, x), SpanA(t, y))
    BY <1>1, <1>2, <1>3, SpanBegins
<1> QED BY <1>4 DEF s, t, x, y

LEMMA PlacesAgree ==
    ASSUME NEW b \in Seq(Candles), NEW c \in Seq(Candles), Begins(b, c),
           NEW period \in Nat, period > 0, NEW smoothing \in Nat, smoothing > 0
    PROVE  /\ Begins(StochasticK(b, period), StochasticK(c, period))
           /\ Begins(StochasticD(StochasticK(b, period), smoothing),
                     StochasticD(StochasticK(c, period), smoothing))
<1> DEFINE s == StochasticK(b, period)
           t == StochasticK(c, period)
<1>1. Begins(s, t)
    BY StochasticBegins
<1>2. Valid(s, period) /\ Valid(t, period)
    BY StochasticIs DEF Kept
<1>3. s \in Seq(Numbers) /\ t \in Seq(Numbers)
    BY <1>2 DEF Valid
<1> HIDE DEF s, t
<1>4. Begins(StochasticD(s, smoothing), StochasticD(t, smoothing))
    BY <1>1, <1>2, <1>3, StochasticDBegins
<1> QED BY <1>1, <1>4 DEF s, t

(* What an indicator shows stays: one step for each indicator.              *)
LEMMA IndicatorAgrees ==
    ASSUME NEW b \in Seq(Candles), NEW c \in Seq(Candles), Begins(b, c), SarSpeeds,
           NEW o, o.type = "indicator", Known(o)
    PROVE  Agrees(IndicatorSeries(o, b), IndicatorSeries(o, c))
<1> USE CandlesBegin
<1>1. /\ Closes(b) \in Seq(Fraction) /\ Closes(c) \in Seq(Fraction) /\ Begins(Closes(b), Closes(c))
      /\ Closes(b) \in Seq(Numbers) /\ Closes(c) \in Seq(Numbers)
      /\ Volumes(b) \in Seq(Fraction) /\ Volumes(c) \in Seq(Fraction) /\ Begins(Volumes(b), Volumes(c))
    BY FractionsAre
<1>2. CASE o.name = "RSI"
    <2> DEFINE p == Param(o, "period")
    <2>1. p \in Nat /\ p > 0
        BY <1>2, KnownIs DEF Settled
    <2>2. IndicatorSeries(o, b) = Rsi(Closes(b), p) /\ IndicatorSeries(o, c) = Rsi(Closes(c), p)
        BY <1>2, IndicatorIs
    <2> HIDE DEF p
    <2>3. Begins(Rsi(Closes(b), p), Rsi(Closes(c), p))
        BY <1>1, <2>1, RsiBegins
    <2> QED BY <2>2, <2>3, BeginsAgrees
<1>3. CASE o.name = "EMA"
    <2> DEFINE p == Param(o, "period")
    <2>1. p \in Nat /\ p > 0
        BY <1>3, KnownIs DEF Settled
    <2>2. IndicatorSeries(o, b) = Ema(Closes(b), p) /\ IndicatorSeries(o, c) = Ema(Closes(c), p)
        BY <1>3, IndicatorIs
    <2> HIDE DEF p
    <2>3. Begins(Ema(Closes(b), p), Ema(Closes(c), p))
        BY <1>1, <2>1, EmaBegins
    <2> QED BY <2>2, <2>3, BeginsAgrees
<1>4. CASE o.name = "SMA"
    <2> DEFINE p == Param(o, "period")
    <2>1. p \in Nat /\ p > 0
        BY <1>4, KnownIs DEF Settled
    <2>2. IndicatorSeries(o, b) = Sma(Closes(b), p) /\ IndicatorSeries(o, c) = Sma(Closes(c), p)
        BY <1>4, IndicatorIs
    <2> HIDE DEF p
    <2>3. Begins(Sma(Closes(b), p), Sma(Closes(c), p))
        BY <1>1, <2>1, SmaBegins
    <2> QED BY <2>2, <2>3, BeginsAgrees
<1>5. CASE o.name = "BOLLINGER"
    <2> DEFINE p == Param(o, "period")
    <2>1. p \in Nat /\ p > 0
        BY <1>5, KnownIs DEF Settled
    <2>2. IndicatorSeries(o, b) = Sma(Closes(b), p) /\ IndicatorSeries(o, c) = Sma(Closes(c), p)
        BY <1>5, IndicatorIs
    <2> HIDE DEF p
    <2>3. Begins(Sma(Closes(b), p), Sma(Closes(c), p))
        BY <1>1, <2>1, SmaBegins
    <2> QED BY <2>2, <2>3, BeginsAgrees
<1>6. CASE o.name = "ATR"
    <2> DEFINE p == Param(o, "period")
    <2>1. p \in Nat /\ p > 0
        BY <1>6, KnownIs DEF Settled
    <2>2. IndicatorSeries(o, b) = Atr(b, p) /\ IndicatorSeries(o, c) = Atr(c, p)
        BY <1>6, IndicatorIs
    <2> HIDE DEF p
    <2>3. Begins(Atr(b, p), Atr(c, p))
        BY <1>1, <2>1, AtrBegins
    <2> QED BY <2>2, <2>3, BeginsAgrees
<1>7. CASE o.name = "CCI"
    <2> DEFINE p == Param(o, "period")
    <2>1. p \in Nat /\ p > 0
        BY <1>7, KnownIs DEF Settled
    <2>2. IndicatorSeries(o, b) = Cci(b, p) /\ IndicatorSeries(o, c) = Cci(c, p)
        BY <1>7, IndicatorIs
    <2> HIDE DEF p
    <2>3. Begins(Cci(b, p), Cci(c, p))
        BY <1>1, <2>1, WindowedBegin
    <2> QED BY <2>2, <2>3, BeginsAgrees
<1>8. CASE o.name = "WILLIAMS_R"
    <2> DEFINE p == Param(o, "period")
    <2>1. p \in Nat /\ p > 0
        BY <1>8, KnownIs DEF Settled
    <2>2. IndicatorSeries(o, b) = WilliamsR(b, p) /\ IndicatorSeries(o, c) = WilliamsR(c, p)
        BY <1>8, IndicatorIs
    <2> HIDE DEF p
    <2>3. Begins(WilliamsR(b, p), WilliamsR(c, p))
        BY <1>1, <2>1, WindowedBegin
    <2> QED BY <2>2, <2>3, BeginsAgrees
<1>9. CASE o.name = "MFI"
    <2> DEFINE p == Param(o, "period")
    <2>1. p \in Nat /\ p > 0
        BY <1>9, KnownIs DEF Settled
    <2>2. IndicatorSeries(o, b) = Mfi(b, p) /\ IndicatorSeries(o, c) = Mfi(c, p)
        BY <1>9, IndicatorIs
    <2> HIDE DEF p
    <2>3. Begins(Mfi(b, p), Mfi(c, p))
        BY <1>1, <2>1, WindowedBegin
    <2> QED BY <2>2, <2>3, BeginsAgrees
<1>10. CASE o.name = "ROC"
    <2> DEFINE p == Param(o, "period")
    <2>1. p \in Nat /\ p > 0
        BY <1>10, KnownIs DEF Settled
    <2>2. IndicatorSeries(o, b) = Roc(Closes(b), p) /\ IndicatorSeries(o, c) = Roc(Closes(c), p)
        BY <1>10, IndicatorIs
    <2> HIDE DEF p
    <2>3. Begins(Roc(Closes(b), p), Roc(Closes(c), p))
        BY <1>1, <2>1, RocBegins
    <2> QED BY <2>2, <2>3, BeginsAgrees
<1>11. CASE o.name = "VWAP"
    <2> DEFINE p == Param(o, "period")
    <2>1. p \in Nat /\ p > 0
        BY <1>11, KnownIs DEF Settled
    <2>2. IndicatorSeries(o, b) = Vwap(b, p) /\ IndicatorSeries(o, c) = Vwap(c, p)
        BY <1>11, IndicatorIs
    <2> HIDE DEF p
    <2>3. Begins(Vwap(b, p), Vwap(c, p))
        BY <1>1, <2>1, WindowedBegin
    <2> QED BY <2>2, <2>3, BeginsAgrees
<1>12. CASE o.name = "OBV"
    <2>1. IndicatorSeries(o, b) = Obv(b) /\ IndicatorSeries(o, c) = Obv(c)
        BY <1>12, IndicatorIs
    <2> QED BY <2>1, ObvBegins, BeginsAgrees
<1>13. CASE o.name = "PSAR"
    <2>1. IndicatorSeries(o, b) = Psar(b) /\ IndicatorSeries(o, c) = Psar(c)
        BY <1>13, IndicatorIs
    <2> QED BY <2>1, PsarAgrees
<1>14. CASE o.name = "MACD"
    <2> DEFINE f == Param(o, "fastPeriod")
           l == Param(o, "slowPeriod")
           p == Param(o, "signalPeriod")
    <2>1. /\ f \in Nat /\ f > 0 /\ l \in Nat /\ l > 0 /\ p \in Nat /\ p > 0
          /\ OutputOf(o) \in {"macd", "signal", "histogram"}
        BY <1>14, KnownIs DEF Settled
    <2>2. CASE OutputOf(o) = "macd"
        <3>1. IndicatorSeries(o, b) = MacdLine(Closes(b), f, l) /\ IndicatorSeries(o, c) = MacdLine(Closes(c), f, l)
            BY <1>14, <2>2, OutputIs DEF Line
        <3> HIDE DEF f, l, p
        <3> QED BY <1>1, <2>1, <3>1, LinesAgree, BeginsAgrees
    <2>3. CASE OutputOf(o) = "signal"
        <3>1. IndicatorSeries(o, b) = MacdSignal(MacdLine(Closes(b), f, l), p) /\ IndicatorSeries(o, c) = MacdSignal(MacdLine(Closes(c), f, l), p)
            BY <1>14, <2>3, OutputIs DEF Line
        <3> HIDE DEF f, l, p
        <3> QED BY <1>1, <2>1, <3>1, LinesAgree, BeginsAgrees
    <2>4. CASE OutputOf(o) = "histogram"
        <3>1. IndicatorSeries(o, b) = Histogram(MacdLine(Closes(b), f, l), MacdSignal(MacdLine(Closes(b), f, l), p)) /\ IndicatorSeries(o, c) = Histogram(MacdLine(Closes(c), f, l), MacdSignal(MacdLine(Closes(c), f, l), p))
            BY <1>14, <2>4, OutputIs DEF Line
        <3> HIDE DEF f, l, p
        <3> QED BY <1>1, <2>1, <3>1, LinesAgree, BeginsAgrees
    <2> QED BY <2>1, <2>2, <2>3, <2>4
<1>15. CASE o.name = "STOCHASTIC"
    <2> DEFINE p == Param(o, "period")
           s == Param(o, "smoothing")
    <2>1. /\ p \in Nat /\ p > 0 /\ s \in Nat /\ s > 0
          /\ OutputOf(o) \in {"k", "d"}
        BY <1>15, KnownIs DEF Settled
    <2>2. CASE OutputOf(o) = "k"
        <3>1. IndicatorSeries(o, b) = StochasticK(b, p) /\ IndicatorSeries(o, c) = StochasticK(c, p)
            BY <1>15, <2>2, OutputIs
        <3> HIDE DEF p, s
        <3> QED BY <1>1, <2>1, <3>1, PlacesAgree, BeginsAgrees
    <2>3. CASE OutputOf(o) = "d"
        <3>1. IndicatorSeries(o, b) = StochasticD(StochasticK(b, p), s) /\ IndicatorSeries(o, c) = StochasticD(StochasticK(c, p), s)
            BY <1>15, <2>3, OutputIs
        <3> HIDE DEF p, s
        <3> QED BY <1>1, <2>1, <3>1, PlacesAgree, BeginsAgrees
    <2> QED BY <2>1, <2>2, <2>3
<1>16. CASE o.name = "KELTNER"
    <2> DEFINE p == Param(o, "period")
           m == Param(o, "multiplier")
    <2>1. /\ p \in Nat /\ p > 0 /\ m \in Nat /\ m > 0
          /\ OutputOf(o) \in {"upper", "middle", "lower"}
        BY <1>16, KnownIs DEF Settled
    <2>2. CASE OutputOf(o) = "upper"
        <3>1. IndicatorSeries(o, b) = Above(Ema(Closes(b), p), Atr(b, p), Whole(m)) /\ IndicatorSeries(o, c) = Above(Ema(Closes(c), p), Atr(c, p), Whole(m))
            BY <1>16, <2>2, OutputIs
        <3> HIDE DEF p, m
        <3> QED BY <1>1, <2>1, <3>1, ChannelsAgree, BeginsAgrees
    <2>3. CASE OutputOf(o) = "middle"
        <3>1. IndicatorSeries(o, b) = Ema(Closes(b), p) /\ IndicatorSeries(o, c) = Ema(Closes(c), p)
            BY <1>16, <2>3, OutputIs
        <3> HIDE DEF p, m
        <3> QED BY <1>1, <2>1, <3>1, ChannelsAgree, BeginsAgrees
    <2>4. CASE OutputOf(o) = "lower"
        <3>1. IndicatorSeries(o, b) = Below(Ema(Closes(b), p), Atr(b, p), Whole(m)) /\ IndicatorSeries(o, c) = Below(Ema(Closes(c), p), Atr(c, p), Whole(m))
            BY <1>16, <2>4, OutputIs
        <3> HIDE DEF p, m
        <3> QED BY <1>1, <2>1, <3>1, ChannelsAgree, BeginsAgrees
    <2> QED BY <2>1, <2>2, <2>3, <2>4
<1>17. CASE o.name = "ICHIMOKU"
    <2> DEFINE v == Param(o, "conversionPeriod")
           l == Param(o, "basePeriod")
           s == Param(o, "spanPeriod")
    <2>1. /\ v \in Nat /\ v > 0 /\ l \in Nat /\ l > 0 /\ s \in Nat /\ s > 0
          /\ OutputOf(o) \in {"conversion", "base", "spanA", "spanB"}
        BY <1>17, KnownIs DEF Settled
    <2>2. CASE OutputOf(o) = "conversion"
        <3>1. IndicatorSeries(o, b) = Midpoint(b, v) /\ IndicatorSeries(o, c) = Midpoint(c, v)
            BY <1>17, <2>2, OutputIs
        <3> HIDE DEF v, l, s
        <3> QED BY <1>1, <2>1, <3>1, MidpointBegins, BeginsAgrees
    <2>3. CASE OutputOf(o) = "base"
        <3>1. IndicatorSeries(o, b) = Midpoint(b, l) /\ IndicatorSeries(o, c) = Midpoint(c, l)
            BY <1>17, <2>3, OutputIs
        <3> HIDE DEF v, l, s
        <3> QED BY <1>1, <2>1, <3>1, MidpointBegins, BeginsAgrees
    <2>4. CASE OutputOf(o) = "spanA"
        <3>1. IndicatorSeries(o, b) = SpanA(Midpoint(b, v), Midpoint(b, l)) /\ IndicatorSeries(o, c) = SpanA(Midpoint(c, v), Midpoint(c, l))
            BY <1>17, <2>4, OutputIs
        <3> HIDE DEF v, l, s
        <3> QED BY <1>1, <2>1, <3>1, CloudsAgree, BeginsAgrees
    <2>5. CASE OutputOf(o) = "spanB"
        <3>1. IndicatorSeries(o, b) = Midpoint(b, s) /\ IndicatorSeries(o, c) = Midpoint(c, s)
            BY <1>17, <2>5, OutputIs
        <3> HIDE DEF v, l, s
        <3> QED BY <1>1, <2>1, <3>1, MidpointBegins, BeginsAgrees
    <2> QED BY <2>1, <2>2, <2>3, <2>4, <2>5
<1>18. CASE o.name = "VOLUME"
    <2> DEFINE p == Param(o, "period")
    <2>1. /\ p \in Nat /\ p > 0
          /\ OutputOf(o) \in {"value", "average"}
        BY <1>18, KnownIs DEF Settled
    <2>2. CASE OutputOf(o) = "value"
        <3>1. IndicatorSeries(o, b) = Volumes(b) /\ IndicatorSeries(o, c) = Volumes(c)
            BY <1>18, <2>2, OutputIs
        <3> HIDE DEF p
        <3> QED BY <1>1, <2>1, <3>1, SmaBegins, BeginsAgrees
    <2>3. CASE OutputOf(o) = "average"
        <3>1. IndicatorSeries(o, b) = Sma(Volumes(b), p) /\ IndicatorSeries(o, c) = Sma(Volumes(c), p)
            BY <1>18, <2>3, OutputIs
        <3> HIDE DEF p
        <3> QED BY <1>1, <2>1, <3>1, SmaBegins, BeginsAgrees
    <2> QED BY <2>1, <2>2, <2>3
<1>19. CASE o.name = "ADX"
    <2> DEFINE p == Param(o, "period")
    <2>1. p \in Nat /\ p > 0 /\ OutputOf(o) \in AdxOutputs
        BY <1>19, KnownIs DEF Settled, AdxOutputs
    <2>2. IndicatorSeries(o, b) = Adx(b, p)[OutputOf(o)] /\ IndicatorSeries(o, c) = Adx(c, p)[OutputOf(o)]
        BY <1>19, IndicatorIs
    <2> HIDE DEF p
    <2> QED BY <2>1, <2>2, AdxAgrees
<1> QED BY KnownIs, <1>2, <1>3, <1>4, <1>5, <1>6, <1>7, <1>8, <1>9, <1>10, <1>11, <1>12, <1>13, <1>14, <1>15, <1>16, <1>17, <1>18, <1>19 DEF KnownNames

(* Which parameters an indicator of the catalog has, and their defaults.    *)
Keyed(name, keys) ==
    /\ DOMAIN Catalog[name].params = keys
    /\ \A x \in keys : Catalog[name].params[x][1] \in Nat

LEMMA EntryKeys ==
    ASSUME NEW name, NEW outputs, NEW params, NEW keys, Catalog[name] = Entry(outputs, params),
           keys = DOMAIN params, \A x \in keys : params[x][1] \in Nat
    PROVE  Keyed(name, keys)
<1>1. Catalog[name].params = params
    BY DEF Entry
<1> QED BY <1>1 DEF Keyed

LEMMA KeysAre ==
    /\ Keyed("RSI", {"period"})
    /\ Keyed("EMA", {"period"})
    /\ Keyed("SMA", {"period"})
    /\ Keyed("ATR", {"period"})
    /\ Keyed("CCI", {"period"})
    /\ Keyed("WILLIAMS_R", {"period"})
    /\ Keyed("MFI", {"period"})
    /\ Keyed("ROC", {"period"})
    /\ Keyed("VWAP", {"period"})
    /\ Keyed("OBV", {})
    /\ Keyed("PSAR", {})
    /\ Keyed("MACD", {"fastPeriod", "slowPeriod", "signalPeriod"})
    /\ Keyed("BOLLINGER", {"period"})
    /\ Keyed("STOCHASTIC", {"period", "smoothing"})
    /\ Keyed("ADX", {"period"})
    /\ Keyed("KELTNER", {"period", "multiplier"})
    /\ Keyed("ICHIMOKU", {"conversionPeriod", "basePeriod", "spanPeriod"})
    /\ Keyed("VOLUME", {"period"})
<1>1. Keyed("RSI", {"period"})
    <2> DEFINE outputs == <<"value">>
               params == [period |-> <<14, 2, 200>>]
    <2>1. Catalog["RSI"] = Entry(outputs, params)
        BY DEF Catalog
    <2>2. DOMAIN params = {"period"} /\ \A x \in DOMAIN params : params[x][1] \in Nat
        OBVIOUS
    <2> HIDE DEF outputs, params
    <2> QED BY <2>1, <2>2, EntryKeys
<1>2. Keyed("EMA", {"period"})
    <2> DEFINE outputs == <<"value">>
               params == [period |-> <<20, 2, 500>>]
    <2>1. Catalog["EMA"] = Entry(outputs, params)
        BY DEF Catalog
    <2>2. DOMAIN params = {"period"} /\ \A x \in DOMAIN params : params[x][1] \in Nat
        OBVIOUS
    <2> HIDE DEF outputs, params
    <2> QED BY <2>1, <2>2, EntryKeys
<1>3. Keyed("SMA", {"period"})
    <2> DEFINE outputs == <<"value">>
               params == [period |-> <<20, 2, 500>>]
    <2>1. Catalog["SMA"] = Entry(outputs, params)
        BY DEF Catalog
    <2>2. DOMAIN params = {"period"} /\ \A x \in DOMAIN params : params[x][1] \in Nat
        OBVIOUS
    <2> HIDE DEF outputs, params
    <2> QED BY <2>1, <2>2, EntryKeys
<1>4. Keyed("ATR", {"period"})
    <2> DEFINE outputs == <<"value">>
               params == [period |-> <<14, 2, 200>>]
    <2>1. Catalog["ATR"] = Entry(outputs, params)
        BY DEF Catalog
    <2>2. DOMAIN params = {"period"} /\ \A x \in DOMAIN params : params[x][1] \in Nat
        OBVIOUS
    <2> HIDE DEF outputs, params
    <2> QED BY <2>1, <2>2, EntryKeys
<1>5. Keyed("CCI", {"period"})
    <2> DEFINE outputs == <<"value">>
               params == [period |-> <<20, 2, 200>>]
    <2>1. Catalog["CCI"] = Entry(outputs, params)
        BY DEF Catalog
    <2>2. DOMAIN params = {"period"} /\ \A x \in DOMAIN params : params[x][1] \in Nat
        OBVIOUS
    <2> HIDE DEF outputs, params
    <2> QED BY <2>1, <2>2, EntryKeys
<1>6. Keyed("WILLIAMS_R", {"period"})
    <2> DEFINE outputs == <<"value">>
               params == [period |-> <<14, 2, 200>>]
    <2>1. Catalog["WILLIAMS_R"] = Entry(outputs, params)
        BY DEF Catalog
    <2>2. DOMAIN params = {"period"} /\ \A x \in DOMAIN params : params[x][1] \in Nat
        OBVIOUS
    <2> HIDE DEF outputs, params
    <2> QED BY <2>1, <2>2, EntryKeys
<1>7. Keyed("MFI", {"period"})
    <2> DEFINE outputs == <<"value">>
               params == [period |-> <<14, 2, 200>>]
    <2>1. Catalog["MFI"] = Entry(outputs, params)
        BY DEF Catalog
    <2>2. DOMAIN params = {"period"} /\ \A x \in DOMAIN params : params[x][1] \in Nat
        OBVIOUS
    <2> HIDE DEF outputs, params
    <2> QED BY <2>1, <2>2, EntryKeys
<1>8. Keyed("ROC", {"period"})
    <2> DEFINE outputs == <<"value">>
               params == [period |-> <<10, 1, 200>>]
    <2>1. Catalog["ROC"] = Entry(outputs, params)
        BY DEF Catalog
    <2>2. DOMAIN params = {"period"} /\ \A x \in DOMAIN params : params[x][1] \in Nat
        OBVIOUS
    <2> HIDE DEF outputs, params
    <2> QED BY <2>1, <2>2, EntryKeys
<1>9. Keyed("VWAP", {"period"})
    <2> DEFINE outputs == <<"value">>
               params == [period |-> <<20, 2, 500>>]
    <2>1. Catalog["VWAP"] = Entry(outputs, params)
        BY DEF Catalog
    <2>2. DOMAIN params = {"period"} /\ \A x \in DOMAIN params : params[x][1] \in Nat
        OBVIOUS
    <2> HIDE DEF outputs, params
    <2> QED BY <2>1, <2>2, EntryKeys
<1>10. Keyed("OBV", {})
    <2> DEFINE outputs == <<"value">>
               params == <<>>
    <2>1. Catalog["OBV"] = Entry(outputs, params)
        BY DEF Catalog
    <2>2. DOMAIN params = {} /\ \A x \in DOMAIN params : params[x][1] \in Nat
        OBVIOUS
    <2> HIDE DEF outputs, params
    <2> QED BY <2>1, <2>2, EntryKeys
<1>11. Keyed("PSAR", {})
    <2> DEFINE outputs == <<"value">>
               params == <<>>
    <2>1. Catalog["PSAR"] = Entry(outputs, params)
        BY DEF Catalog
    <2>2. DOMAIN params = {} /\ \A x \in DOMAIN params : params[x][1] \in Nat
        OBVIOUS
    <2> HIDE DEF outputs, params
    <2> QED BY <2>1, <2>2, EntryKeys
<1>12. Keyed("MACD", {"fastPeriod", "slowPeriod", "signalPeriod"})
    <2> DEFINE outputs == <<"macd", "signal", "histogram">>
               params == [fastPeriod |-> <<12, 2, 100>>, slowPeriod |-> <<26, 3, 200>>, signalPeriod |-> <<9, 2, 50>>]
    <2>1. Catalog["MACD"] = Entry(outputs, params)
        BY DEF Catalog
    <2>2. DOMAIN params = {"fastPeriod", "slowPeriod", "signalPeriod"} /\ \A x \in DOMAIN params : params[x][1] \in Nat
        OBVIOUS
    <2> HIDE DEF outputs, params
    <2> QED BY <2>1, <2>2, EntryKeys
<1>13. Keyed("BOLLINGER", {"period"})
    <2> DEFINE outputs == <<"middle">>
               params == [period |-> <<20, 5, 200>>]
    <2>1. Catalog["BOLLINGER"] = Entry(outputs, params)
        BY DEF Catalog
    <2>2. DOMAIN params = {"period"} /\ \A x \in DOMAIN params : params[x][1] \in Nat
        OBVIOUS
    <2> HIDE DEF outputs, params
    <2> QED BY <2>1, <2>2, EntryKeys
<1>14. Keyed("STOCHASTIC", {"period", "smoothing"})
    <2> DEFINE outputs == <<"k", "d">>
               params == [period |-> <<14, 2, 200>>, smoothing |-> <<3, 1, 50>>]
    <2>1. Catalog["STOCHASTIC"] = Entry(outputs, params)
        BY DEF Catalog
    <2>2. DOMAIN params = {"period", "smoothing"} /\ \A x \in DOMAIN params : params[x][1] \in Nat
        OBVIOUS
    <2> HIDE DEF outputs, params
    <2> QED BY <2>1, <2>2, EntryKeys
<1>15. Keyed("ADX", {"period"})
    <2> DEFINE outputs == <<"adx", "plusDI", "minusDI">>
               params == [period |-> <<14, 2, 100>>]
    <2>1. Catalog["ADX"] = Entry(outputs, params)
        BY DEF Catalog
    <2>2. DOMAIN params = {"period"} /\ \A x \in DOMAIN params : params[x][1] \in Nat
        OBVIOUS
    <2> HIDE DEF outputs, params
    <2> QED BY <2>1, <2>2, EntryKeys
<1>16. Keyed("KELTNER", {"period", "multiplier"})
    <2> DEFINE outputs == <<"upper", "middle", "lower">>
               params == [period |-> <<20, 2, 200>>, multiplier |-> <<2, 1, 10>>]
    <2>1. Catalog["KELTNER"] = Entry(outputs, params)
        BY DEF Catalog
    <2>2. DOMAIN params = {"period", "multiplier"} /\ \A x \in DOMAIN params : params[x][1] \in Nat
        OBVIOUS
    <2> HIDE DEF outputs, params
    <2> QED BY <2>1, <2>2, EntryKeys
<1>17. Keyed("ICHIMOKU", {"conversionPeriod", "basePeriod", "spanPeriod"})
    <2> DEFINE outputs == <<"conversion", "base", "spanA", "spanB">>
               params == [conversionPeriod |-> <<9, 2, 100>>, basePeriod |-> <<26, 2, 200>>, spanPeriod |-> <<52, 2, 400>>]
    <2>1. Catalog["ICHIMOKU"] = Entry(outputs, params)
        BY DEF Catalog
    <2>2. DOMAIN params = {"conversionPeriod", "basePeriod", "spanPeriod"} /\ \A x \in DOMAIN params : params[x][1] \in Nat
        OBVIOUS
    <2> HIDE DEF outputs, params
    <2> QED BY <2>1, <2>2, EntryKeys
<1>18. Keyed("VOLUME", {"period"})
    <2> DEFINE outputs == <<"value", "average">>
               params == [period |-> <<20, 1, 500>>]
    <2>1. Catalog["VOLUME"] = Entry(outputs, params)
        BY DEF Catalog
    <2>2. DOMAIN params = {"period"} /\ \A x \in DOMAIN params : params[x][1] \in Nat
        OBVIOUS
    <2> HIDE DEF outputs, params
    <2> QED BY <2>1, <2>2, EntryKeys
<1> QED BY <1>1, <1>2, <1>3, <1>4, <1>5, <1>6, <1>7, <1>8, <1>9, <1>10, <1>11, <1>12, <1>13, <1>14, <1>15, <1>16, <1>17, <1>18

(* The history that rules need: three times the longest of their periods,   *)
(* of which there are finitely many.                                        *)
LEMMA FinitelyMany ==
    ASSUME NEW n \in Nat, NEW f, \A i \in 1 .. n : f[i] \in Nat
    PROVE  \E m \in Nat : \A i \in 1 .. n : f[i] <= m
<1> DEFINE S == {k \in Nat : \E m \in Nat : \A i \in 1 .. n : i <= k => f[i] <= m}
<1>1. ASSUME NEW k \in Nat, \A j \in Nat : j < k => j \in S
      PROVE  k \in S
    <2>1. CASE k = 0
        BY <2>1
    <2>2. CASE k > 0
        <3>1. k - 1 \in Nat /\ k - 1 < k
            BY <2>2
        <3>2. k - 1 \in S
            BY <1>1, <3>1
        <3>3. PICK m \in Nat : \A i \in 1 .. n : i <= k - 1 => f[i] <= m
            BY <3>2
        <3>4. CASE k \in 1 .. n
            <4> DEFINE most == IF f[k] > m THEN f[k] ELSE m
            <4>1. most \in Nat /\ \A i \in 1 .. n : i <= k => f[i] <= most
                BY <3>3, <3>4
            <4> QED BY <4>1
        <3>5. CASE k \notin 1 .. n
            <4>1. \A i \in 1 .. n : i <= k => i <= k - 1
                BY <3>5
            <4> QED BY <3>3, <4>1
        <3> QED BY <3>4, <3>5
    <2> QED BY <2>1, <2>2
<1> HIDE DEF S
<1>2. n \in S
    BY <1>1, Induction
<1> QED BY <1>2 DEF S

LEMMA MostIs ==
    ASSUME NEW T \in SUBSET Nat, T # {}, NEW m \in Nat, \A x \in T : x <= m
    PROVE  LET most == CHOOSE n \in T : \A x \in T : x <= n
           IN most \in T /\ \A x \in T : x <= most
<1> DEFINE U == {y \in Nat : \A x \in T : x <= y}
<1>1. U \in SUBSET Nat /\ U # {}
    OBVIOUS
<1>2. PICK least \in U : \A y \in U : least <= y
    BY <1>1, Least
<1>3. least \in T
    <2> SUFFICES ASSUME least \notin T PROVE FALSE
        OBVIOUS
    <2>1. least \in Nat /\ \A x \in T : x <= least /\ x \in Nat
        BY <1>2
    <2>2. \A x \in T : x < least
        BY <2>1
    <2>3. least > 0
        <3>1. PICK x \in T : TRUE
            OBVIOUS
        <3> QED BY <2>1, <2>2, <3>1
    <2>4. least - 1 \in U
        BY <2>1, <2>2, <2>3
    <2> QED BY <1>2, <2>1, <2>4
<1>4. \A x \in T : x <= least
    BY <1>2
<1> HIDE DEF U
<1>5. \E n \in T : \A x \in T : x <= n
    BY <1>3, <1>4
<1> QED BY <1>5

LEMMA SequenceIs ==
    ASSUME NEW s, IsSequence(s)
    PROVE  Len(s) \in Nat /\ DOMAIN s = 1 .. Len(s)
<1> DEFINE W == {s[i] : i \in DOMAIN s}
<1>1. s \in Seq(W)
    BY DEF IsSequence
<1> HIDE DEF W
<1> QED BY <1>1, SeqParts

LEMMA Joined ==
    ASSUME NEW W, NEW s \in Seq(W), NEW r \in Seq(W)
    PROVE  /\ s \o r \in Seq(W) /\ Len(s \o r) = Len(s) + Len(r)
           /\ \A i \in 1 .. Len(s) : (s \o r)[i] = s[i]
           /\ \A i \in 1 .. Len(r) : (s \o r)[Len(s) + i] = r[i]
OBVIOUS

LEMMA OperandsAre ==
    ASSUME NEW c, IsSequence(c.right)
    PROVE  /\ DOMAIN OperandsOf(c) = 1 .. (Len(c.right) + 1) /\ Len(c.right) \in Nat
           /\ Len(OperandsOf(c)) = Len(c.right) + 1
           /\ OperandsOf(c)[1] = c.left
           /\ \A i \in 1 .. Len(c.right) : OperandsOf(c)[i + 1] = c.right[i]
<1> DEFINE W == {c.right[i] : i \in DOMAIN c.right} \cup {c.left}
           r == c.right
           s == <<c.left>>
<1>1. DOMAIN r = 1 .. Len(r) /\ Len(r) \in Nat
    BY SequenceIs
<1>2. r \in Seq({c.right[i] : i \in DOMAIN c.right})
    BY DEF IsSequence
<1>3. r \in Seq(W)
    <2>1. \A i \in 1 .. Len(r) : r[i] \in W
        BY <1>1
    <2>2. r = [i \in 1 .. Len(r) |-> r[i]]
        <3> DEFINE V == {c.right[i] : i \in DOMAIN c.right}
        <3>1. r \in Seq(V)
            BY <1>2
        <3> HIDE DEF V, r
        <3> QED BY <3>1
    <2> HIDE DEF W, r
    <2>3. r \in [1 .. Len(r) -> W]
        BY <2>1, <2>2
    <2> QED BY <1>1, <2>3, Tabled
<1>4. s \in Seq(W) /\ Len(s) = 1 /\ s[1] = c.left
    OBVIOUS
<1> HIDE DEF W, r, s
<1>5. /\ s \o r \in Seq(W) /\ Len(s \o r) = Len(s) + Len(r)
      /\ (s \o r)[1] = s[1]
      /\ \A i \in 1 .. Len(r) : (s \o r)[i + 1] = r[i]
    <2>1. /\ s \o r \in Seq(W) /\ Len(s \o r) = Len(s) + Len(r)
          /\ \A i \in 1 .. Len(s) : (s \o r)[i] = s[i]
          /\ \A i \in 1 .. Len(r) : (s \o r)[Len(s) + i] = r[i]
        BY <1>3, <1>4, Joined
    <2>2. \A i \in 1 .. Len(r) : Len(s) + i = i + 1
        BY <1>1, <1>4
    <2> QED BY <1>1, <1>4, <2>1, <2>2
<1>6. DOMAIN (s \o r) = 1 .. (Len(r) + 1)
    BY <1>1, <1>4, <1>5, SeqParts
<1> QED BY <1>1, <1>4, <1>5, <1>6 DEF OperandsOf, r, s

(* The parameters of an operand that is read.                               *)
KeySets ==
    {{}, {"period"}, {"fastPeriod", "slowPeriod", "signalPeriod"}, {"period", "smoothing"},
     {"period", "multiplier"}, {"conversionPeriod", "basePeriod", "spanPeriod"}}

LEMMA ParamsAre ==
    ASSUME NEW o, Readable(o), o.type = "indicator", o.name \in DOMAIN Catalog
    PROVE  /\ \A x \in DOMAIN Catalog[o.name].params : Param(o, x) \in Nat
           /\ \E m \in Nat : \A x \in DOMAIN Catalog[o.name].params : Param(o, x) <= m
<1>1. \A x \in DOMAIN o.params : o.params[x] \in Nat
    BY DEF Readable
<1>2. o.name \in KnownNames
    BY DEF Catalog, KnownNames
<1>3. \E a, b, c : /\ DOMAIN Catalog[o.name].params \subseteq {a, b, c}
                   /\ \A x \in DOMAIN Catalog[o.name].params : Catalog[o.name].params[x][1] \in Nat
    <2>1. \E keys \in KeySets : Keyed(o.name, keys)
        BY <1>2, KeysAre DEF KnownNames, KeySets
    <2>2. \A keys \in KeySets : \E a, b, c : keys \subseteq {a, b, c}
        BY DEF KeySets
    <2> QED BY <2>1, <2>2 DEF Keyed
<1>4. \A x \in DOMAIN Catalog[o.name].params : Param(o, x) \in Nat
    BY <1>1, <1>3 DEF Param
<1>5. PICK a, b, c : DOMAIN Catalog[o.name].params \subseteq {a, b, c}
    BY <1>3
<1> DEFINE p(x) == IF Param(o, x) \in Nat THEN Param(o, x) ELSE 0
           m == p(a) + p(b) + p(c)
<1>6. m \in Nat /\ p(a) <= m /\ p(b) <= m /\ p(c) <= m
    OBVIOUS
<1>7. \A x \in DOMAIN Catalog[o.name].params : Param(o, x) <= m
    BY <1>4, <1>5, <1>6
<1> QED BY <1>4, <1>6, <1>7

(* All the operands of a group are read.                                    *)
LEMMA ReadableAll ==
    ASSUME NEW g, IsGroup(g)
    PROVE  /\ DOMAIN g.conditions = 1 .. Len(g.conditions) /\ Len(g.conditions) \in Nat
           /\ \A i \in 1 .. Len(g.conditions) :
                 /\ IsSequence(g.conditions[i].right) /\ Len(g.conditions[i].right) \in {1, 2}
                 /\ g.conditions[i].operator \in Operators
                 /\ \A side \in DOMAIN OperandsOf(g.conditions[i]) :
                       Readable(OperandsOf(g.conditions[i])[side])
           /\ \A o \in Operands(g) : Readable(o)
<1>1. IsSequence(g.conditions)
    BY DEF IsGroup
<1>2. DOMAIN g.conditions = 1 .. Len(g.conditions) /\ Len(g.conditions) \in Nat
    BY <1>1, SequenceIs
<1>3. \A i \in 1 .. Len(g.conditions) :
          /\ IsSequence(g.conditions[i].right) /\ Len(g.conditions[i].right) \in {1, 2}
          /\ g.conditions[i].operator \in Operators
          /\ \A side \in DOMAIN OperandsOf(g.conditions[i]) :
                Readable(OperandsOf(g.conditions[i])[side])
    BY <1>2 DEF IsGroup
<1>4. ASSUME NEW o \in Operands(g)
      PROVE  Readable(o)
    <2>1. PICK c \in {g.conditions[i] : i \in DOMAIN g.conditions} :
              o \in {OperandsOf(c)[i] : i \in DOMAIN OperandsOf(c)}
        BY DEF Operands
    <2>2. PICK i \in DOMAIN g.conditions : c = g.conditions[i]
        BY <2>1
    <2>3. PICK side \in DOMAIN OperandsOf(c) : o = OperandsOf(c)[side]
        BY <2>1
    <2> QED BY <1>2, <1>3, <2>2, <2>3
<1> QED BY <1>2, <1>3, <1>4

LEMMA PeriodsAre ==
    ASSUME NEW g, IsGroup(g)
    PROVE  /\ Periods(g) \subseteq Nat
           /\ \E m \in Nat : \A p \in Periods(g) : p <= m
           /\ \A o \in Operands(g) : o.type = "indicator" /\ o.name \in DOMAIN Catalog =>
                 \A x \in DOMAIN Catalog[o.name].params : Param(o, x) \in Periods(g)
<1> DEFINE Named(o) == o.type = "indicator" /\ o.name \in DOMAIN Catalog
           Keys(o) == DOMAIN Catalog[o.name].params
           c == g.conditions
           n == Len(c)
<1>1. /\ DOMAIN c = 1 .. n /\ n \in Nat
      /\ \A i \in 1 .. n : IsSequence(c[i].right) /\ Len(c[i].right) \in {1, 2}
      /\ \A o \in Operands(g) : Readable(o)
    BY ReadableAll
<1>2. \A p : p \in Periods(g) <=> \E o \in Operands(g) : Named(o) /\ \E x \in Keys(o) : p = Param(o, x)
    BY DEF Periods
<1>3. \A o : o \in Operands(g) <=> \E i \in 1 .. n : \E j \in DOMAIN OperandsOf(c[i]) : o = OperandsOf(c[i])[j]
    <2>1. \A o : o \in Operands(g) <=>
              \E d \in {c[i] : i \in DOMAIN c} : \E j \in DOMAIN OperandsOf(d) : o = OperandsOf(d)[j]
        BY DEF Operands
    <2>2. ASSUME NEW o \in Operands(g)
          PROVE  \E i \in 1 .. n : \E j \in DOMAIN OperandsOf(c[i]) : o = OperandsOf(c[i])[j]
        <3>1. PICK d \in {c[i] : i \in DOMAIN c} : \E j \in DOMAIN OperandsOf(d) : o = OperandsOf(d)[j]
            BY <2>1, <2>2
        <3>2. PICK i \in 1 .. n : d = c[i]
            BY <1>1, <3>1
        <3> QED BY <3>1, <3>2
    <2>3. ASSUME NEW i \in 1 .. n, NEW j \in DOMAIN OperandsOf(c[i])
          PROVE  OperandsOf(c[i])[j] \in Operands(g)
        <3>1. c[i] \in {c[x] : x \in DOMAIN c}
            BY <1>1
        <3> QED BY <2>1, <3>1
    <2> QED BY <2>2, <2>3
<1> DEFINE Most(o) == CHOOSE m \in Nat : Named(o) => \A x \in Keys(o) : Param(o, x) <= m
<1>4. \A o \in Operands(g) : Most(o) \in Nat /\ (Named(o) => \A x \in Keys(o) : Param(o, x) <= Most(o))
    <2> TAKE o \in Operands(g)
    <2>1. \E m \in Nat : Named(o) => \A x \in Keys(o) : Param(o, x) <= m
        <3>1. CASE Named(o)
            BY <1>1, <3>1, ParamsAre
        <3>2. CASE ~Named(o)
            <4>1. 0 \in Nat
                OBVIOUS
            <4> QED BY <3>2, <4>1
        <3> QED BY <3>1, <3>2
    <2> HIDE DEF Named, Keys
    <2> QED BY <2>1
<1> DEFINE f == [i \in 1 .. n |-> Most(OperandsOf(c[i])[1])]
           h == [i \in 1 .. n |-> Most(OperandsOf(c[i])[2])]
           k == [i \in 1 .. n |-> IF 3 \in DOMAIN OperandsOf(c[i]) THEN Most(OperandsOf(c[i])[3]) ELSE 0]
<1>5. \A i \in 1 .. n : DOMAIN OperandsOf(c[i]) \in {{1, 2}, {1, 2, 3}}
    <2> TAKE i \in 1 .. n
    <2>1. DOMAIN OperandsOf(c[i]) = 1 .. (Len(c[i].right) + 1) /\ Len(c[i].right) \in {1, 2}
        BY <1>1, OperandsAre
    <2> HIDE DEF c
    <2>2. CASE Len(c[i].right) = 1
        BY <2>1, <2>2
    <2>3. CASE Len(c[i].right) = 2
        BY <2>1, <2>3
    <2> QED BY <2>1, <2>2, <2>3
<1>6. \A i \in 1 .. n : f[i] \in Nat /\ h[i] \in Nat /\ k[i] \in Nat
    <2> TAKE i \in 1 .. n
    <2>1. \A j \in DOMAIN OperandsOf(c[i]) : Most(OperandsOf(c[i])[j]) \in Nat
        BY <1>3, <1>4
    <2> HIDE DEF Most, c
    <2>2. f[i] \in Nat /\ h[i] \in Nat
        BY <1>5, <2>1
    <2>3. k[i] \in Nat
        <3>1. CASE 3 \in DOMAIN OperandsOf(c[i])
            BY <2>1, <3>1
        <3>2. CASE 3 \notin DOMAIN OperandsOf(c[i])
            BY <3>2
        <3> QED BY <3>1, <3>2
    <2> QED BY <2>2, <2>3
<1>7. \A i \in 1 .. n : \A j \in DOMAIN OperandsOf(c[i]) :
          Most(OperandsOf(c[i])[j]) \in {f[i], h[i], k[i]}
    <2> HIDE DEF Most, c
    <2> QED BY <1>5
<1> HIDE DEF f, h, k, Most, Named, Keys, c, n
<1>8. PICK a \in Nat : \A i \in 1 .. n : f[i] <= a
    BY <1>1, <1>6, FinitelyMany
<1>9. PICK b \in Nat : \A i \in 1 .. n : h[i] <= b
    BY <1>1, <1>6, FinitelyMany
<1>10. PICK d \in Nat : \A i \in 1 .. n : k[i] <= d
    BY <1>1, <1>6, FinitelyMany
<1>11. a + b + d \in Nat /\ \A i \in 1 .. n : f[i] <= a + b + d /\ h[i] <= a + b + d /\ k[i] <= a + b + d
    BY <1>6, <1>8, <1>9, <1>10
<1>12. \A o \in Operands(g) : Most(o) <= a + b + d
    BY <1>3, <1>7, <1>11
<1>13. \A o \in Operands(g) : Named(o) => \A x \in Keys(o) : Param(o, x) \in Nat
    BY <1>1, ParamsAre DEF Named, Keys
<1>14. \A p \in Periods(g) : p \in Nat /\ p <= a + b + d
    <2> TAKE p \in Periods(g)
    <2>1. PICK o \in Operands(g) : Named(o) /\ \E x \in Keys(o) : p = Param(o, x)
        BY <1>2
    <2>2. p \in Nat /\ p <= Most(o) /\ Most(o) \in Nat /\ Most(o) <= a + b + d
        BY <1>4, <1>12, <1>13, <2>1
    <2> QED BY <2>2, <1>11
<1>15. \A o \in Operands(g) : Named(o) => \A x \in Keys(o) : Param(o, x) \in Periods(g)
    BY <1>2
<1> QED BY <1>11, <1>14, <1>15 DEF Named, Keys

LEMMA GroupNeedsIs ==
    ASSUME NEW g, IsGroup(g)
    PROVE  /\ GroupNeeds(g) \in Nat /\ GroupNeeds(g) >= 5
           /\ \A p \in Periods(g) : p \in Nat /\ 3 * p <= GroupNeeds(g)
<1> DEFINE T == {5} \cup {3 * p : p \in Periods(g)}
<1>1. Periods(g) \subseteq Nat
    BY PeriodsAre
<1>2. PICK m \in Nat : \A p \in Periods(g) : p <= m
    BY PeriodsAre
<1>3. T \in SUBSET Nat /\ T # {} /\ 5 \in T
    BY <1>1
<1>4. 3 * m + 5 \in Nat /\ \A x \in T : x <= 3 * m + 5
    BY <1>1, <1>2
<1> HIDE DEF T
<1>5. GroupNeeds(g) = CHOOSE n \in T : \A x \in T : x <= n
    BY DEF GroupNeeds, T
<1>6. GroupNeeds(g) \in T /\ \A x \in T : x <= GroupNeeds(g)
    BY <1>3, <1>4, <1>5, MostIs
<1>7. \A p \in Periods(g) : p \in Nat /\ 3 * p \in T
    BY <1>1 DEF T
<1> QED BY <1>3, <1>6, <1>7

(* The settings of a bot, as they were accepted.                            *)
Configured ==
    /\ key \in DOMAIN Library
    /\ IsInput(asked) /\ Accepts(Specs(key), asked)
    /\ config = Resolved(Specs(key), asked)
Length(p, name, lo, hi) == Num(p, name) = Whole(Count(p, name)) /\ Count(p, name) \in lo .. hi
Level(p, name, lo, hi) == Num(p, name) \in Fraction /\ AtMost(lo, Num(p, name)) /\ AtMost(Num(p, name), hi)
Switch(p, name) == Bool(p, name) \in BOOLEAN

LEMMA LowestTerms ==
    ASSUME NEW x, InLowestTerms(x)
    PROVE  x \in Fraction
<1>1. x[1] \in Int /\ x[2] \in Nat /\ x[2] # 0 /\ x \in Int \X Nat /\ Gcd(Magnitude(x[1]), x[2]) = 1
    BY DEF InLowestTerms
<1>2. Magnitude(x[1]) \in Nat /\ (Magnitude(x[1]) = x[1] \/ Magnitude(x[1]) = -x[1])
    BY <1>1 DEF Magnitude
<1>3. PICK u, v \in Int : 1 = (u * Magnitude(x[1])) + (v * x[2])
    <2> DEFINE m == Magnitude(x[1])
               d == x[2]
    <2>1. m \in Nat /\ d \in Nat /\ Gcd(m, d) = 1
        BY <1>1, <1>2
    <2> HIDE DEF m, d
    <2>2. \E u, v \in Int : Gcd(m, d) = (u * m) + (v * d)
        BY <2>1, GcdFacts
    <2>3. \E u, v \in Int : 1 = (u * m) + (v * d)
        BY <2>1, <2>2
    <2> QED BY <2>3 DEF m, d
<1>4. CASE Magnitude(x[1]) = x[1]
    BY <1>1, <1>3, <1>4 DEF Fraction
<1>5. CASE Magnitude(x[1]) = -x[1]
    <2> DEFINE w == -u
               n == x[1]
    <2>1. w \in Int /\ u * (-n) = w * n
        BY <1>1
    <2>2. (w * n) + (v * x[2]) = 1
        BY <1>3, <1>5, <2>1
    <2> QED BY <1>1, <2>1, <2>2 DEF Fraction
<1> QED BY <1>2, <1>4, <1>5

LEMMA SettingIs ==
    ASSUME NEW v, IsSetting(v)
    PROVE  /\ v # Blank => \/ v = Text
                           \/ v[1] = "number" /\ v[2] \in Fraction
                           \/ v[1] = "boolean" /\ v[2] \in BOOLEAN
                           \/ v[1] = "rules" /\ IsGroup(v[2])
           /\ AsNumber(v) \in Fraction \/ IsNaN(AsNumber(v))
<1>1. v \in {Text, Blank} => AsNumber(v) = NaN
    BY DEF AsNumber, Text, Blank
<1>2. ASSUME v[1] = "number", InLowestTerms(v[2])
      PROVE  AsNumber(v) \in Fraction /\ v[2] \in Fraction
    BY <1>2, LowestTerms DEF AsNumber
<1>3. ASSUME v[1] = "boolean", v[2] \in BOOLEAN
      PROVE  AsNumber(v) \in Fraction
    <2>1. AsNumber(v) \in {Zero, One}
        BY <1>3 DEF AsNumber
    <2> QED BY <2>1, ConstantsAre
<1>4. ASSUME v[1] = "rules", IsGroup(v[2])
      PROVE  AsNumber(v) = NaN
    BY <1>4 DEF AsNumber
<1> QED BY <1>1, <1>2, <1>3, <1>4, NaNIs DEF IsSetting

LEMMA CountIs ==
    ASSUME NEW x \in Fraction, x[2] = 1, NEW a \in Int, NEW b \in Int,
           AtMost(Whole(a), x), AtMost(x, Whole(b))
    PROVE  x = Whole(x[1]) /\ x[1] \in a .. b
<1>1. x = <<x[1], x[2]>> /\ x[1] \in Int
    BY FractionIs
<1>2. x = Whole(x[1])
    BY <1>1 DEF Whole
<1> QED BY <1>1, <1>2, WholesAre

(* A number that is set is in its range, and whole if it is a length.       *)
LEMMA NumberSetting ==
    ASSUME NEW specs, NEW input, IsInput(input), Accepts(specs, input), NEW name \in DOMAIN specs,
           NEW d \in Fraction, NEW lo \in Fraction, NEW hi \in Fraction, AtMost(lo, d), AtMost(d, hi),
           specs[name] = NumberSpec(d, lo, hi)
    PROVE  /\ Level(Resolved(specs, input), name, lo, hi)
           /\ name \in Lengths /\ d[2] = 1 => Num(Resolved(specs, input), name)[2] = 1
<1> DEFINE r == Resolved(specs, input)
<1>1. specs[name].type = "number" /\ specs[name].default = Number(d)
      /\ specs[name].least = lo /\ specs[name].most = hi
    BY DEF NumberSpec
<1>2. CASE name \notin Given(input)
    <2>1. r[name] = Number(d)
        BY <1>1, <1>2 DEF Resolved
    <2>2. Num(r, name) = d
        BY <2>1 DEF Num, Number
    <2> QED BY <2>2 DEF Level
<1>3. CASE name \in Given(input)
    <2> DEFINE v == input[name]
    <2>1. r[name] = Number(AsNumber(v))
        BY <1>1, <1>3 DEF Resolved
    <2>2. Num(r, name) = AsNumber(v)
        BY <2>1 DEF Num, Number
    <2>3. name \in DOMAIN input /\ v # Blank /\ IsSetting(v)
          /\ (name \in Lengths /\ v[1] = "number" => v[2][2] = 1)
        BY <1>3 DEF Given, IsInput
    <2>4. Suits(specs[name], v)
        BY <1>3 DEF Accepts
    <2>5. AtMost(lo, AsNumber(v)) /\ AtMost(AsNumber(v), hi)
        BY <1>1, <2>4 DEF Suits, Between
    <2>6. ~IsNaN(AsNumber(v))
        BY <2>5 DEF AtMost
    <2>7. AsNumber(v) \in Fraction
        BY <2>3, <2>6, SettingIs
    <2>8. name \in Lengths => AsNumber(v)[2] = 1
        <3>1. CASE v[1] = "number"
            BY <2>3, <3>1 DEF AsNumber
        <3>2. CASE v[1] = "boolean"
            <4>1. AsNumber(v) \in {Zero, One}
                BY <3>2 DEF AsNumber
            <4> QED BY <4>1 DEF Zero, One, Whole
        <3>3. CASE v[1] # "number" /\ v[1] # "boolean"
            <4>1. AsNumber(v) = NaN
                BY <3>3 DEF AsNumber
            <4> QED BY <2>6, <4>1, NaNIs
        <3> QED BY <3>1, <3>2, <3>3
    <2> QED BY <2>2, <2>5, <2>7, <2>8 DEF Level
<1> QED BY <1>2, <1>3

LEMMA LengthSetting ==
    ASSUME NEW specs, NEW input, IsInput(input), Accepts(specs, input), NEW name \in DOMAIN specs,
           name \in Lengths, NEW d \in Nat, NEW lo \in Nat, NEW hi \in Nat, lo <= d, d <= hi,
           specs[name] = IntegerSpec(d, lo, hi)
    PROVE  Length(Resolved(specs, input), name, lo, hi)
<1> DEFINE x == Num(Resolved(specs, input), name)
<1>1. Whole(d) \in Fraction /\ Whole(lo) \in Fraction /\ Whole(hi) \in Fraction
      /\ AtMost(Whole(lo), Whole(d)) /\ AtMost(Whole(d), Whole(hi)) /\ Whole(d)[2] = 1
    BY WholesAre, WholeIs
<1>2. specs[name] = NumberSpec(Whole(d), Whole(lo), Whole(hi))
    BY DEF IntegerSpec
<1>3. x \in Fraction /\ AtMost(Whole(lo), x) /\ AtMost(x, Whole(hi)) /\ x[2] = 1
    BY <1>1, <1>2, NumberSetting DEF Level
<1> HIDE DEF x
<1>4. x = Whole(x[1]) /\ x[1] \in lo .. hi
    BY <1>3, CountIs
<1>5. Count(Resolved(specs, input), name) = x[1]
    BY DEF Count, Num, x
<1> QED BY <1>4, <1>5 DEF Length, x

LEMMA SwitchSetting ==
    ASSUME NEW specs, NEW input, IsInput(input), Accepts(specs, input), NEW name \in DOMAIN specs,
           NEW d \in BOOLEAN, specs[name] = FlagSpec(d)
    PROVE  Switch(Resolved(specs, input), name)
<1> DEFINE r == Resolved(specs, input)
<1>1. specs[name].type = "boolean" /\ specs[name].default = Flag(d)
    BY DEF FlagSpec
<1>2. CASE name \notin Given(input)
    <2>1. r[name] = Flag(d)
        BY <1>1, <1>2 DEF Resolved
    <2> QED BY <2>1 DEF Switch, Bool, Flag
<1>3. CASE name \in Given(input)
    <2> DEFINE v == input[name]
    <2>1. r[name] = v
        BY <1>1, <1>3 DEF Resolved
    <2>2. name \in DOMAIN input /\ v # Blank /\ IsSetting(v)
        BY <1>3 DEF Given, IsInput
    <2>3. v[1] = "boolean"
        BY <1>1, <1>3 DEF Accepts, Suits
    <2>4. v # Text
        BY <2>3 DEF Text
    <2>5. v[2] \in BOOLEAN
        BY <2>2, <2>3, <2>4, SettingIs
    <2> QED BY <2>1, <2>5 DEF Switch, Bool
<1> QED BY <1>2, <1>3

LEMMA RulesSetting ==
    ASSUME NEW specs, NEW input, IsInput(input), Accepts(specs, input), NEW name \in DOMAIN specs,
           NEW d, specs[name] = RulesSpec(d), IsGroup(d[2])
    PROVE  IsGroup(GroupOf(Resolved(specs, input), name))
<1> DEFINE r == Resolved(specs, input)
<1>1. specs[name].type = "rules" /\ specs[name].default = d
    BY DEF RulesSpec
<1>2. CASE name \notin Given(input)
    <2>1. r[name] = d
        BY <1>1, <1>2 DEF Resolved
    <2> QED BY <2>1 DEF GroupOf
<1>3. CASE name \in Given(input)
    <2> DEFINE v == input[name]
    <2>1. r[name] = v
        BY <1>1, <1>3 DEF Resolved
    <2>2. name \in DOMAIN input /\ v # Blank /\ IsSetting(v)
        BY <1>3 DEF Given, IsInput
    <2>3. v[1] = "rules"
        BY <1>1, <1>3 DEF Accepts, Suits
    <2>4. v # Text
        BY <2>3 DEF Text
    <2>5. IsGroup(v[2])
        BY <2>2, <2>3, <2>4, SettingIs
    <2> QED BY <2>1, <2>5 DEF GroupOf
<1> QED BY <1>2, <1>3

(* The settings of each strategy: which lengths, levels and switches it has. *)
LEMMA SpecIs ==
    ASSUME NEW strategy, NEW lib, Library[strategy] = lib, NEW name, name \in DOMAIN lib
    PROVE  name \in DOMAIN Specs(strategy) /\ Specs(strategy)[name] = lib[name]
BY DEF Specs, Spread

LEMMA LevelsAre ==
    /\ \A x \in {Whole(30), Whole(20)} : x \in Fraction /\ AtMost(Whole(1), x) /\ AtMost(x, Whole(49))
    /\ \A x \in {Whole(70), Whole(80)} : x \in Fraction /\ AtMost(Whole(51), x) /\ AtMost(x, Whole(99))
    /\ \A x \in {Whole(2), Whole(3)} : x \in Fraction /\ AtMost(Ratio(1, 2), x) /\ AtMost(Ratio(1, 10), x)
    /\ AtMost(Whole(1), Whole(5)) /\ AtMost(Whole(5), Whole(50)) /\ AtMost(Whole(2), Whole(50))
    /\ AtMost(Whole(2), Whole(5)) /\ AtMost(Whole(3), Whole(10))
    /\ \A n \in Nat : Whole(n) \in Fraction
    /\ Ratio(1, 2) \in Fraction /\ Ratio(1, 10) \in Fraction
<1>1. \A n, m \in Nat : n <= m => AtMost(Whole(n), Whole(m)) /\ Whole(n) \in Fraction
    BY WholesAre
<1>2. /\ Ratio(1, 2) \in Fraction /\ Ratio(1, 10) \in Fraction
      /\ AtMost(Ratio(1, 2), One) /\ AtMost(Ratio(1, 10), One)
    BY RatiosAre
<1>3. One = Whole(1)
    BY DEF One
<1>4. \A x \in {Whole(2), Whole(3)} : x \in Fraction /\ AtMost(Whole(1), x)
    BY <1>1
<1>5. \A x \in {Whole(2), Whole(3)} : AtMost(Ratio(1, 2), x) /\ AtMost(Ratio(1, 10), x)
    <2> TAKE x \in {Whole(2), Whole(3)}
    <2>1. x \in Fraction /\ AtMost(One, x) /\ One \in Fraction
        BY <1>3, <1>4, ConstantsAre
    <2> QED BY <1>2, <2>1, OrderPasses
<1> QED BY <1>1, <1>2, <1>4, <1>5

LEMMA ConfigIs ==
    ASSUME Configured
    PROVE 
        /\ key = "rsiReversal" =>
              /\ Length(config, "period", 2, 100)
              /\ Level(config, "oversold", Whole(1), Whole(49))
              /\ Level(config, "overbought", Whole(51), Whole(99))
              /\ Switch(config, "requireTurn")
        /\ key = "macdCross" =>
              /\ Length(config, "fastPeriod", 2, 100)
              /\ Length(config, "slowPeriod", 3, 200)
              /\ Length(config, "signalPeriod", 2, 50)
              /\ Switch(config, "requirePositiveHistogram")
        /\ key = "emaCross" =>
              /\ Length(config, "fastPeriod", 2, 200)
              /\ Length(config, "slowPeriod", 3, 500)
              /\ Switch(config, "volumeFilter")
        /\ key = "bollingerReversion" =>
              /\ Length(config, "period", 5, 100)
              /\ Switch(config, "exitAtMiddle")
              /\ Level(config, "multiplier", Ratio(1, 2), Whole(5))
        /\ key = "stochasticCross" =>
              /\ Length(config, "period", 2, 100)
              /\ Length(config, "smoothing", 1, 20)
              /\ Level(config, "oversold", Whole(1), Whole(49))
              /\ Level(config, "overbought", Whole(51), Whole(99))
        /\ key = "donchianBreakout" =>
              /\ Length(config, "period", 3, 200)
              /\ Switch(config, "atrFilter")
              /\ Length(config, "atrPeriod", 2, 100)
        /\ key = "supertrend" =>
              /\ Length(config, "atrPeriod", 2, 100)
              /\ Level(config, "multiplier", Ratio(1, 2), Whole(10))
        /\ key = "gridDca" =>
              /\ Level(config, "stepPercent", Ratio(1, 10), Whole(50))
              /\ Level(config, "maxLevels", Whole(1), Whole(50))
              /\ Length(config, "lookback", 3, 200)
<1> USE DEF Configured
<1>1. ASSUME key = "rsiReversal"
      PROVE
          /\ Length(config, "period", 2, 100)
          /\ Level(config, "oversold", Whole(1), Whole(49))
          /\ Level(config, "overbought", Whole(51), Whole(99))
          /\ Switch(config, "requireTurn")
    <2>1. Library[key] = RsiSettings
        BY <1>1 DEF Library
    <2> DEFINE specs == Specs(key)
    <2>2. "period" \in DOMAIN specs /\ specs["period"] = IntegerSpec(14, 2, 100)
        <3>1. "period" \in DOMAIN RsiSettings /\ RsiSettings["period"] = IntegerSpec(14, 2, 100)
            BY DEF RsiSettings, IntegerSpec
        <3> QED BY <2>1, <3>1, SpecIs
    <2>3. "oversold" \in DOMAIN specs /\ specs["oversold"] = NumberSpec(Whole(30), Whole(1), Whole(49))
        <3>1. "oversold" \in DOMAIN RsiSettings /\ RsiSettings["oversold"] = NumberSpec(Whole(30), Whole(1), Whole(49))
            BY DEF RsiSettings, IntegerSpec
        <3> QED BY <2>1, <3>1, SpecIs
    <2>4. "overbought" \in DOMAIN specs /\ specs["overbought"] = NumberSpec(Whole(70), Whole(51), Whole(99))
        <3>1. "overbought" \in DOMAIN RsiSettings /\ RsiSettings["overbought"] = NumberSpec(Whole(70), Whole(51), Whole(99))
            BY DEF RsiSettings, IntegerSpec
        <3> QED BY <2>1, <3>1, SpecIs
    <2>5. "requireTurn" \in DOMAIN specs /\ specs["requireTurn"] = FlagSpec(TRUE)
        <3>1. "requireTurn" \in DOMAIN RsiSettings /\ RsiSettings["requireTurn"] = FlagSpec(TRUE)
            BY DEF RsiSettings, IntegerSpec
        <3> QED BY <2>1, <3>1, SpecIs
    <2> HIDE DEF specs
    <2>20. IsInput(asked) /\ Accepts(specs, asked) /\ config = Resolved(specs, asked)
        BY DEF specs
    <2>30. Length(config, "period", 2, 100)
        BY <2>2, <2>20, LengthSetting DEF Lengths
    <2>31. Level(config, "oversold", Whole(1), Whole(49))
        BY <2>3, <2>20, LevelsAre, NumberSetting
    <2>32. Level(config, "overbought", Whole(51), Whole(99))
        BY <2>4, <2>20, LevelsAre, NumberSetting
    <2>33. Switch(config, "requireTurn")
        BY <2>5, <2>20, SwitchSetting
    <2> QED BY <2>30, <2>31, <2>32, <2>33
<1>2. ASSUME key = "macdCross"
      PROVE
          /\ Length(config, "fastPeriod", 2, 100)
          /\ Length(config, "slowPeriod", 3, 200)
          /\ Length(config, "signalPeriod", 2, 50)
          /\ Switch(config, "requirePositiveHistogram")
    <2>1. Library[key] = MacdSettings
        BY <1>2 DEF Library
    <2> DEFINE specs == Specs(key)
    <2>2. "fastPeriod" \in DOMAIN specs /\ specs["fastPeriod"] = IntegerSpec(12, 2, 100)
        <3>1. "fastPeriod" \in DOMAIN MacdSettings /\ MacdSettings["fastPeriod"] = IntegerSpec(12, 2, 100)
            BY DEF MacdSettings, IntegerSpec
        <3> QED BY <2>1, <3>1, SpecIs
    <2>3. "slowPeriod" \in DOMAIN specs /\ specs["slowPeriod"] = IntegerSpec(26, 3, 200)
        <3>1. "slowPeriod" \in DOMAIN MacdSettings /\ MacdSettings["slowPeriod"] = IntegerSpec(26, 3, 200)
            BY DEF MacdSettings, IntegerSpec
        <3> QED BY <2>1, <3>1, SpecIs
    <2>4. "signalPeriod" \in DOMAIN specs /\ specs["signalPeriod"] = IntegerSpec(9, 2, 50)
        <3>1. "signalPeriod" \in DOMAIN MacdSettings /\ MacdSettings["signalPeriod"] = IntegerSpec(9, 2, 50)
            BY DEF MacdSettings, IntegerSpec
        <3> QED BY <2>1, <3>1, SpecIs
    <2>5. "requirePositiveHistogram" \in DOMAIN specs /\ specs["requirePositiveHistogram"] = FlagSpec(FALSE)
        <3>1. "requirePositiveHistogram" \in DOMAIN MacdSettings /\ MacdSettings["requirePositiveHistogram"] = FlagSpec(FALSE)
            BY DEF MacdSettings, IntegerSpec
        <3> QED BY <2>1, <3>1, SpecIs
    <2> HIDE DEF specs
    <2>20. IsInput(asked) /\ Accepts(specs, asked) /\ config = Resolved(specs, asked)
        BY DEF specs
    <2>30. Length(config, "fastPeriod", 2, 100)
        BY <2>2, <2>20, LengthSetting DEF Lengths
    <2>31. Length(config, "slowPeriod", 3, 200)
        BY <2>3, <2>20, LengthSetting DEF Lengths
    <2>32. Length(config, "signalPeriod", 2, 50)
        BY <2>4, <2>20, LengthSetting DEF Lengths
    <2>33. Switch(config, "requirePositiveHistogram")
        BY <2>5, <2>20, SwitchSetting
    <2> QED BY <2>30, <2>31, <2>32, <2>33
<1>3. ASSUME key = "emaCross"
      PROVE
          /\ Length(config, "fastPeriod", 2, 200)
          /\ Length(config, "slowPeriod", 3, 500)
          /\ Switch(config, "volumeFilter")
    <2>1. Library[key] = EmaSettings
        BY <1>3 DEF Library
    <2> DEFINE specs == Specs(key)
    <2>2. "fastPeriod" \in DOMAIN specs /\ specs["fastPeriod"] = IntegerSpec(50, 2, 200)
        <3>1. "fastPeriod" \in DOMAIN EmaSettings /\ EmaSettings["fastPeriod"] = IntegerSpec(50, 2, 200)
            BY DEF EmaSettings, IntegerSpec
        <3> QED BY <2>1, <3>1, SpecIs
    <2>3. "slowPeriod" \in DOMAIN specs /\ specs["slowPeriod"] = IntegerSpec(200, 3, 500)
        <3>1. "slowPeriod" \in DOMAIN EmaSettings /\ EmaSettings["slowPeriod"] = IntegerSpec(200, 3, 500)
            BY DEF EmaSettings, IntegerSpec
        <3> QED BY <2>1, <3>1, SpecIs
    <2>4. "volumeFilter" \in DOMAIN specs /\ specs["volumeFilter"] = FlagSpec(FALSE)
        <3>1. "volumeFilter" \in DOMAIN EmaSettings /\ EmaSettings["volumeFilter"] = FlagSpec(FALSE)
            BY DEF EmaSettings, IntegerSpec
        <3> QED BY <2>1, <3>1, SpecIs
    <2> HIDE DEF specs
    <2>20. IsInput(asked) /\ Accepts(specs, asked) /\ config = Resolved(specs, asked)
        BY DEF specs
    <2>30. Length(config, "fastPeriod", 2, 200)
        BY <2>2, <2>20, LengthSetting DEF Lengths
    <2>31. Length(config, "slowPeriod", 3, 500)
        BY <2>3, <2>20, LengthSetting DEF Lengths
    <2>32. Switch(config, "volumeFilter")
        BY <2>4, <2>20, SwitchSetting
    <2> QED BY <2>30, <2>31, <2>32
<1>4. ASSUME key = "bollingerReversion"
      PROVE
          /\ Length(config, "period", 5, 100)
          /\ Switch(config, "exitAtMiddle")
          /\ Level(config, "multiplier", Ratio(1, 2), Whole(5))
    <2>1. Library[key] = BollingerSettings
        BY <1>4 DEF Library
    <2> DEFINE specs == Specs(key)
    <2>2. "period" \in DOMAIN specs /\ specs["period"] = IntegerSpec(20, 5, 100)
        <3>1. "period" \in DOMAIN BollingerSettings /\ BollingerSettings["period"] = IntegerSpec(20, 5, 100)
            BY DEF BollingerSettings, IntegerSpec
        <3> QED BY <2>1, <3>1, SpecIs
    <2>3. "exitAtMiddle" \in DOMAIN specs /\ specs["exitAtMiddle"] = FlagSpec(TRUE)
        <3>1. "exitAtMiddle" \in DOMAIN BollingerSettings /\ BollingerSettings["exitAtMiddle"] = FlagSpec(TRUE)
            BY DEF BollingerSettings, IntegerSpec
        <3> QED BY <2>1, <3>1, SpecIs
    <2>4. "multiplier" \in DOMAIN specs /\ specs["multiplier"] = NumberSpec(Whole(2), Ratio(1, 2), Whole(5))
        <3>1. "multiplier" \in DOMAIN BollingerSettings /\ BollingerSettings["multiplier"] = NumberSpec(Whole(2), Ratio(1, 2), Whole(5))
            BY DEF BollingerSettings, IntegerSpec
        <3> QED BY <2>1, <3>1, SpecIs
    <2> HIDE DEF specs
    <2>20. IsInput(asked) /\ Accepts(specs, asked) /\ config = Resolved(specs, asked)
        BY DEF specs
    <2>30. Length(config, "period", 5, 100)
        BY <2>2, <2>20, LengthSetting DEF Lengths
    <2>31. Switch(config, "exitAtMiddle")
        BY <2>3, <2>20, SwitchSetting
    <2>32. Level(config, "multiplier", Ratio(1, 2), Whole(5))
        BY <2>4, <2>20, LevelsAre, NumberSetting
    <2> QED BY <2>30, <2>31, <2>32
<1>5. ASSUME key = "stochasticCross"
      PROVE
          /\ Length(config, "period", 2, 100)
          /\ Length(config, "smoothing", 1, 20)
          /\ Level(config, "oversold", Whole(1), Whole(49))
          /\ Level(config, "overbought", Whole(51), Whole(99))
    <2>1. Library[key] = StochasticSettings
        BY <1>5 DEF Library
    <2> DEFINE specs == Specs(key)
    <2>2. "period" \in DOMAIN specs /\ specs["period"] = IntegerSpec(14, 2, 100)
        <3>1. "period" \in DOMAIN StochasticSettings /\ StochasticSettings["period"] = IntegerSpec(14, 2, 100)
            BY DEF StochasticSettings, IntegerSpec
        <3> QED BY <2>1, <3>1, SpecIs
    <2>3. "smoothing" \in DOMAIN specs /\ specs["smoothing"] = IntegerSpec(3, 1, 20)
        <3>1. "smoothing" \in DOMAIN StochasticSettings /\ StochasticSettings["smoothing"] = IntegerSpec(3, 1, 20)
            BY DEF StochasticSettings, IntegerSpec
        <3> QED BY <2>1, <3>1, SpecIs
    <2>4. "oversold" \in DOMAIN specs /\ specs["oversold"] = NumberSpec(Whole(20), Whole(1), Whole(49))
        <3>1. "oversold" \in DOMAIN StochasticSettings /\ StochasticSettings["oversold"] = NumberSpec(Whole(20), Whole(1), Whole(49))
            BY DEF StochasticSettings, IntegerSpec
        <3> QED BY <2>1, <3>1, SpecIs
    <2>5. "overbought" \in DOMAIN specs /\ specs["overbought"] = NumberSpec(Whole(80), Whole(51), Whole(99))
        <3>1. "overbought" \in DOMAIN StochasticSettings /\ StochasticSettings["overbought"] = NumberSpec(Whole(80), Whole(51), Whole(99))
            BY DEF StochasticSettings, IntegerSpec
        <3> QED BY <2>1, <3>1, SpecIs
    <2> HIDE DEF specs
    <2>20. IsInput(asked) /\ Accepts(specs, asked) /\ config = Resolved(specs, asked)
        BY DEF specs
    <2>30. Length(config, "period", 2, 100)
        BY <2>2, <2>20, LengthSetting DEF Lengths
    <2>31. Length(config, "smoothing", 1, 20)
        BY <2>3, <2>20, LengthSetting DEF Lengths
    <2>32. Level(config, "oversold", Whole(1), Whole(49))
        BY <2>4, <2>20, LevelsAre, NumberSetting
    <2>33. Level(config, "overbought", Whole(51), Whole(99))
        BY <2>5, <2>20, LevelsAre, NumberSetting
    <2> QED BY <2>30, <2>31, <2>32, <2>33
<1>6. ASSUME key = "donchianBreakout"
      PROVE
          /\ Length(config, "period", 3, 200)
          /\ Switch(config, "atrFilter")
          /\ Length(config, "atrPeriod", 2, 100)
    <2>1. Library[key] = DonchianSettings
        BY <1>6 DEF Library
    <2> DEFINE specs == Specs(key)
    <2>2. "period" \in DOMAIN specs /\ specs["period"] = IntegerSpec(20, 3, 200)
        <3>1. "period" \in DOMAIN DonchianSettings /\ DonchianSettings["period"] = IntegerSpec(20, 3, 200)
            BY DEF DonchianSettings, IntegerSpec
        <3> QED BY <2>1, <3>1, SpecIs
    <2>3. "atrFilter" \in DOMAIN specs /\ specs["atrFilter"] = FlagSpec(TRUE)
        <3>1. "atrFilter" \in DOMAIN DonchianSettings /\ DonchianSettings["atrFilter"] = FlagSpec(TRUE)
            BY DEF DonchianSettings, IntegerSpec
        <3> QED BY <2>1, <3>1, SpecIs
    <2>4. "atrPeriod" \in DOMAIN specs /\ specs["atrPeriod"] = IntegerSpec(14, 2, 100)
        <3>1. "atrPeriod" \in DOMAIN DonchianSettings /\ DonchianSettings["atrPeriod"] = IntegerSpec(14, 2, 100)
            BY DEF DonchianSettings, IntegerSpec
        <3> QED BY <2>1, <3>1, SpecIs
    <2> HIDE DEF specs
    <2>20. IsInput(asked) /\ Accepts(specs, asked) /\ config = Resolved(specs, asked)
        BY DEF specs
    <2>30. Length(config, "period", 3, 200)
        BY <2>2, <2>20, LengthSetting DEF Lengths
    <2>31. Switch(config, "atrFilter")
        BY <2>3, <2>20, SwitchSetting
    <2>32. Length(config, "atrPeriod", 2, 100)
        BY <2>4, <2>20, LengthSetting DEF Lengths
    <2> QED BY <2>30, <2>31, <2>32
<1>7. ASSUME key = "supertrend"
      PROVE
          /\ Length(config, "atrPeriod", 2, 100)
          /\ Level(config, "multiplier", Ratio(1, 2), Whole(10))
    <2>1. Library[key] = SupertrendSettings
        BY <1>7 DEF Library
    <2> DEFINE specs == Specs(key)
    <2>2. "atrPeriod" \in DOMAIN specs /\ specs["atrPeriod"] = IntegerSpec(10, 2, 100)
        <3>1. "atrPeriod" \in DOMAIN SupertrendSettings /\ SupertrendSettings["atrPeriod"] = IntegerSpec(10, 2, 100)
            BY DEF SupertrendSettings, IntegerSpec
        <3> QED BY <2>1, <3>1, SpecIs
    <2>3. "multiplier" \in DOMAIN specs /\ specs["multiplier"] = NumberSpec(Whole(3), Ratio(1, 2), Whole(10))
        <3>1. "multiplier" \in DOMAIN SupertrendSettings /\ SupertrendSettings["multiplier"] = NumberSpec(Whole(3), Ratio(1, 2), Whole(10))
            BY DEF SupertrendSettings, IntegerSpec
        <3> QED BY <2>1, <3>1, SpecIs
    <2> HIDE DEF specs
    <2>20. IsInput(asked) /\ Accepts(specs, asked) /\ config = Resolved(specs, asked)
        BY DEF specs
    <2>30. Length(config, "atrPeriod", 2, 100)
        BY <2>2, <2>20, LengthSetting DEF Lengths
    <2>31. Level(config, "multiplier", Ratio(1, 2), Whole(10))
        BY <2>3, <2>20, LevelsAre, NumberSetting
    <2> QED BY <2>30, <2>31
<1>8. ASSUME key = "gridDca"
      PROVE
          /\ Level(config, "stepPercent", Ratio(1, 10), Whole(50))
          /\ Level(config, "maxLevels", Whole(1), Whole(50))
          /\ Length(config, "lookback", 3, 200)
    <2>1. Library[key] = GridSettings
        BY <1>8 DEF Library
    <2> DEFINE specs == Specs(key)
    <2>2. "stepPercent" \in DOMAIN specs /\ specs["stepPercent"] = NumberSpec(Whole(2), Ratio(1, 10), Whole(50))
        <3>1. "stepPercent" \in DOMAIN GridSettings /\ GridSettings["stepPercent"] = NumberSpec(Whole(2), Ratio(1, 10), Whole(50))
            BY DEF GridSettings, IntegerSpec
        <3> QED BY <2>1, <3>1, SpecIs
    <2>3. "maxLevels" \in DOMAIN specs /\ specs["maxLevels"] = NumberSpec(Whole(5), Whole(1), Whole(50))
        <3>1. "maxLevels" \in DOMAIN GridSettings /\ GridSettings["maxLevels"] = NumberSpec(Whole(5), Whole(1), Whole(50))
            BY DEF GridSettings, IntegerSpec
        <3> QED BY <2>1, <3>1, SpecIs
    <2>4. "lookback" \in DOMAIN specs /\ specs["lookback"] = IntegerSpec(20, 3, 200)
        <3>1. "lookback" \in DOMAIN GridSettings /\ GridSettings["lookback"] = IntegerSpec(20, 3, 200)
            BY DEF GridSettings, IntegerSpec
        <3> QED BY <2>1, <3>1, SpecIs
    <2> HIDE DEF specs
    <2>20. IsInput(asked) /\ Accepts(specs, asked) /\ config = Resolved(specs, asked)
        BY DEF specs
    <2>30. Level(config, "stepPercent", Ratio(1, 10), Whole(50))
        BY <2>2, <2>20, LevelsAre, NumberSetting
    <2>31. Level(config, "maxLevels", Whole(1), Whole(50))
        BY <2>3, <2>20, LevelsAre, NumberSetting
    <2>32. Length(config, "lookback", 3, 200)
        BY <2>4, <2>20, LengthSetting DEF Lengths
    <2> QED BY <2>30, <2>31, <2>32
<1> QED BY <1>1, <1>2, <1>3, <1>4, <1>5, <1>6, <1>7, <1>8

LEMMA GroupsAre ==
    ASSUME Configured, key = "customRules"
    PROVE  IsGroup(GroupOf(config, "entryRules")) /\ IsGroup(GroupOf(config, "exitRules"))
<1> USE DEF Configured
<1> DEFINE specs == Specs(key)
           rsi(operator, level) == <<Condition(Indicator("RSI", [period |-> 14]), operator, Constant(Whole(level)))>>
<1>1. ASSUME NEW operator \in Operators, NEW level \in Nat, NEW logic \in {"AND", "OR"}
      PROVE  IsGroup(Group(logic, rsi(operator, level))[2])
    <2> DEFINE o == Indicator("RSI", [period |-> 14])
               d == Constant(Whole(level))
               c == Condition(o, operator, d)
               g == [logic |-> logic, conditions |-> <<c>>]
    <2>1. Readable(o)
        <3>1. o.type = "indicator" /\ DOMAIN o.params = {"period"} /\ o.params["period"] = 14
            BY DEF Indicator
        <3> HIDE DEF o
        <3> QED BY <3>1 DEF Readable
    <2>2. Readable(d)
        <3>1. d.type = "constant" /\ d.value = Whole(level)
            BY DEF Constant
        <3>2. Gcd(Magnitude(level), 1) = 1
            <4>1. Magnitude(level) = level
                BY DEF Magnitude
            <4>2. (0 * level) + (1 * 1) = 1
                OBVIOUS
            <4> QED BY <4>1, <4>2, Coprime
        <3>3. InLowestTerms(Whole(level))
            BY <3>2 DEF InLowestTerms, Whole
        <3> HIDE DEF d
        <3> QED BY <3>1, <3>3 DEF Readable
    <2>3. c.left = o /\ c.operator = operator /\ c.right = <<d>>
        BY DEF Condition
    <2> HIDE DEF o, d
    <2>4. IsSequence(c.right) /\ Len(c.right) = 1
        BY <2>3 DEF IsSequence
    <2>5. DOMAIN OperandsOf(c) = 1 .. 2 /\ OperandsOf(c)[1] = o /\ OperandsOf(c)[2] = d
        <3>1. OperandsOf(c) = <<o>> \o <<d>>
            BY <2>3 DEF OperandsOf
        <3> QED BY <3>1
    <2>6. \A side \in DOMAIN OperandsOf(c) : Readable(OperandsOf(c)[side])
        BY <2>1, <2>2, <2>5
    <2> HIDE DEF c
    <2>7. g.logic = logic /\ g.conditions = <<c>> /\ DOMAIN g.conditions = {1} /\ g.conditions[1] = c
        OBVIOUS
    <2>8. IsSequence(g.conditions)
        BY <2>7 DEF IsSequence
    <2> HIDE DEF g
    <2>9. IsGroup(g)
        BY <2>3, <2>4, <2>6, <2>7, <2>8 DEF IsGroup
    <2>10. Group(logic, rsi(operator, level))[2] = g
        BY DEF Group, g, c, o, d
    <2> QED BY <2>9, <2>10
<1>2. Library[key] = CustomSettings
    BY DEF Library
<1>3. /\ "entryRules" \in DOMAIN CustomSettings
      /\ CustomSettings["entryRules"] = RulesSpec(Group("AND", rsi("lt", 30)))
      /\ "exitRules" \in DOMAIN CustomSettings
      /\ CustomSettings["exitRules"] = RulesSpec(Group("OR", rsi("gt", 70)))
    BY DEF CustomSettings
<1> HIDE DEF rsi
<1>4. /\ "entryRules" \in DOMAIN specs /\ specs["entryRules"] = RulesSpec(Group("AND", rsi("lt", 30)))
      /\ "exitRules" \in DOMAIN specs /\ specs["exitRules"] = RulesSpec(Group("OR", rsi("gt", 70)))
    BY <1>2, <1>3, SpecIs
<1>5. IsInput(asked) /\ Accepts(specs, asked) /\ config = Resolved(specs, asked)
    OBVIOUS
<1>6. IsGroup(Group("AND", rsi("lt", 30))[2]) /\ IsGroup(Group("OR", rsi("gt", 70))[2])
    BY <1>1 DEF Operators
<1> HIDE DEF specs
<1> QED BY <1>4, <1>5, <1>6, RulesSetting

(* From which candle on an indicator exists.                                *)
LEMMA ObvValid ==
    ASSUME NEW bs \in Seq(Candles)
    PROVE  Valid(Obv(bs), 1) /\ Len(Obv(bs)) = Len(bs)
<1> DEFINE n == Len(bs)
           e == Obv(bs)
           T == {i \in 1 .. n : e[i] \in Fraction}
<1>1. /\ e \in Seq(Numbers) /\ Len(e) = n /\ n \in Nat
      /\ \A i \in 1 .. n : /\ i = 1 => e[i] = Zero
                           /\ i > 1 => e[i] = ObvStep(bs, e[i - 1], i)
    BY ObvIs
<1> HIDE DEF e
<1>2. 1 <= n => 1 \in T
    BY <1>1, ConstantsAre
<1>3. \A i \in (1 + 1) .. n : i - 1 \in T => i \in T
    <2> SUFFICES ASSUME NEW i \in (1 + 1) .. n, i - 1 \in T PROVE i \in T
        OBVIOUS
    <2>1. i \in 1 .. n /\ i > 1 /\ e[i] = ObvStep(bs, e[i - 1], i) /\ e[i - 1] \in Fraction
        BY <1>1
    <2> DEFINE v == Whole(bs[i].volume)
    <2>2. v \in Fraction
        <3>1. bs[i].volume \in Int
            BY <2>1, CandleIs
        <3> QED BY <3>1, WholesAre
    <2>3. Plus(e[i - 1], v) \in Fraction /\ Minus(e[i - 1], v) \in Fraction
        BY <2>1, <2>2, Closed
    <2>4. ObvStep(bs, e[i - 1], i) \in {Plus(e[i - 1], v), Minus(e[i - 1], v), e[i - 1]}
        BY DEF ObvStep
    <2> QED BY <2>1, <2>3, <2>4
<1> HIDE DEF n, T
<1>4. \A i \in 1 .. n : i \in T
    BY <1>1, <1>2, <1>3, Steps
<1>5. \A i \in 1 .. n : e[i] \in Fraction /\ ~(i < 1)
    BY <1>1, <1>4 DEF T
<1> QED BY <1>1, <1>5 DEF Valid, e, n

LEMMA PsarValid ==
    ASSUME NEW bs \in Seq(Candles), SarSpeeds
    PROVE  /\ Psar(bs) \in Seq(Numbers) /\ Len(Psar(bs)) = Len(bs)
           /\ Len(bs) >= 3 => Valid(Psar(bs), 2)
<1> DEFINE n == Len(bs)
           e == Psar(bs)
<1>1. n \in Nat
    OBVIOUS
<1>2. PICK lo, hi : Bounds(bs, lo, hi)
    BY BoundsExists
<1>3. e \in Seq(Numbers) /\ Len(e) = n
    BY <1>2, PsarIs DEF Shows
<1>4. ASSUME n >= 3
      PROVE  Valid(e, 2)
    <2>1. n >= 2 /\ ~(n < 3)
        BY <1>1, <1>4
    <2> DEFINE start == SarStart(bs)
               step == StopSteps(bs, lo, hi)
    <2>2. PICK r : /\ Runs(r, n, 2, start, Stops(lo, hi), step)
                   /\ e = IF n < 3 THEN Nothing(n)
                          ELSE [i \in 1 .. n |-> IF i = 1 THEN NaN ELSE r[i].sar]
        <3>1. \E r : /\ Runs(r, Len(bs), 2, SarStart(bs), Stops(lo, hi), StopSteps(bs, lo, hi))
                    /\ Psar(bs) = IF Len(bs) < 3 THEN Nothing(Len(bs))
                                  ELSE [i \in 1 .. Len(bs) |-> IF i = 1 THEN NaN ELSE r[i].sar]
            BY <1>2, <2>1, PsarRuns
        <3> QED BY <3>1
    <2> HIDE DEF start, step, e
    <2>3. e = [i \in 1 .. n |-> IF i = 1 THEN NaN ELSE r[i].sar]
        BY <2>1, <2>2
    <2>4. ASSUME NEW i \in 1 .. n
          PROVE  IF i < 2 THEN e[i] = NaN ELSE e[i] \in Fraction
        <3>1. CASE i < 2
            <4>1. i = 1
                BY <1>1, <3>1
            <4>2. e[i] = NaN
                BY <2>3, <4>1
            <4> QED BY <3>1, <4>2
        <3>2. CASE ~(i < 2)
            <4>1. i >= 2 /\ i # 1
                BY <1>1, <3>2
            <4>2. r[i] \in Stops(lo, hi)
                BY <2>2, <4>1 DEF Runs
            <4>3. e[i] = r[i].sar
                BY <2>3, <4>1
            <4>4. e[i] \in Reached(lo, hi)
                BY <4>2, <4>3 DEF Stops
            <4> QED BY <3>2, <4>4 DEF Reached
        <3> QED BY <3>1, <3>2
    <2> QED BY <1>3, <2>4 DEF Valid
<1> QED BY <1>3, <1>4

LEMMA PricesValid ==
    ASSUME NEW s \in Seq(Fraction)
    PROVE  Valid(s, 1) /\ Len(s) \in Nat
<1>1. s \in Seq(Numbers) /\ \A i \in 1 .. Len(s) : s[i] \in Fraction /\ ~(i < 1)
    BY FractionsAre
<1> QED BY <1>1 DEF Valid

(* The history that is enough for an indicator, and what it shows on it.    *)
Enough(o, n) ==
    n \in Nat /\ n >= 5 /\ \A x \in DOMAIN Catalog[o.name].params : Param(o, x) \in Nat /\ 3 * Param(o, x) <= n
Starts(s, n, first) == Valid(s, first) /\ Len(s) = n /\ first \in Nat /\ first > 0

LEMMA HistogramValid ==
    ASSUME NEW n \in Nat, NEW s, NEW t, NEW a, NEW b, Starts(s, n, a), Starts(t, n, b)
    PROVE  Starts(Histogram(s, t), n, LargerOf(a, b))
<1>1. s \in Seq(Numbers) /\ t \in Seq(Numbers) /\ Len(s) = n /\ Len(t) = n
      /\ a \in Nat /\ b \in Nat /\ a > 0 /\ Valid(s, a) /\ Valid(t, b)
    BY DEF Starts, Valid
<1> DEFINE e == [i \in 1 .. n |-> Minus(s[i], t[i])]
<1>2. Valid(e, LargerOf(a, b)) /\ Len(e) = n
    BY <1>1, HistogramIs
<1>3. Histogram(s, t) = e
    BY <1>1, SeqParts DEF Histogram
<1> HIDE DEF e
<1>4. LargerOf(a, b) \in Nat /\ LargerOf(a, b) > 0
    BY <1>1, LargerOfIs
<1> QED BY <1>2, <1>3, <1>4 DEF Starts

(* The candle on which an indicator exists at the latest.                   *)
Latest(o) ==
    LET p(x) == Param(o, x) IN
    CASE o.name \in {"EMA", "SMA", "BOLLINGER", "CCI", "WILLIAMS_R", "VWAP", "VOLUME"} -> p("period")
      [] o.name \in {"RSI", "ATR", "MFI", "ROC", "KELTNER"} -> p("period") + 1
      [] o.name = "OBV" -> 1
      [] o.name = "PSAR" -> 2
      [] o.name = "ADX" -> 2 * p("period")
      [] o.name = "MACD" -> (LargerOf(p("fastPeriod"), p("slowPeriod")) + p("signalPeriod")) - 1
      [] o.name = "STOCHASTIC" -> (p("period") + p("smoothing")) - 1
      [] o.name = "ICHIMOKU" -> LargerOf(p("conversionPeriod"), LargerOf(p("basePeriod"), p("spanPeriod")))

LEMMA VwapValid ==
    ASSUME NEW bs \in Seq(Candles), NEW period \in Nat, period > 0
    PROVE  Starts(Vwap(bs, period), Len(bs), period)
<1>1. PICK lo \in Fraction : \E hi \in Fraction :
          \A i \in 1 .. Len(bs) : AtMost(lo, TypicalPrice(bs)[i]) /\ AtMost(TypicalPrice(bs)[i], hi)
    BY TypicalBounds
<1>2. PICK hi \in Fraction :
          \A i \in 1 .. Len(bs) : AtMost(lo, TypicalPrice(bs)[i]) /\ AtMost(TypicalPrice(bs)[i], hi)
    BY <1>1
<1>3. Kept(Vwap(bs, period), period, lo, hi) /\ Len(Vwap(bs, period)) = Len(bs)
    BY <1>2, VwapIs
<1> QED BY <1>3 DEF Kept, Starts

LEMMA SpanValid ==
    ASSUME NEW bs \in Seq(Candles), NEW a \in Nat, a > 0, NEW b \in Nat, b > 0
    PROVE  Starts(SpanA(Midpoint(bs, a), Midpoint(bs, b)), Len(bs), LargerOf(a, b))
<1> DEFINE s == Midpoint(bs, a)
           t == Midpoint(bs, b)
<1>1. PICK lo \in Fraction : \E hi \in Fraction :
          \A i \in 1 .. Len(bs) : AtMost(lo, Lows(bs)[i]) /\ AtMost(Highs(bs)[i], hi)
    BY PriceBounds
<1>2. PICK hi \in Fraction : \A i \in 1 .. Len(bs) : AtMost(lo, Lows(bs)[i]) /\ AtMost(Highs(bs)[i], hi)
    BY <1>1
<1>3. Kept(s, a, lo, hi) /\ Len(s) = Len(bs) /\ Kept(t, b, lo, hi) /\ Len(t) = Len(bs)
    BY <1>2, MidpointIs
<1> HIDE DEF s, t
<1>4. Kept(SpanA(s, t), LargerOf(a, b), lo, hi) /\ Len(SpanA(s, t)) = Len(bs)
    BY <1>3, SpanIs
<1>5. LargerOf(a, b) \in Nat /\ LargerOf(a, b) > 0
    BY LargerOfIs
<1> QED BY <1>4, <1>5 DEF Kept, Starts, s, t

LEMMA IndicatorStarts ==
    ASSUME NEW bs \in Seq(Candles), SarSpeeds, NEW o, o.type = "indicator", Known(o),
           o.name = "PSAR" => Len(bs) >= 3, o.name = "ADX" => Len(bs) >= 2 * Param(o, "period")
    PROVE  \E first \in 1 .. Latest(o) : Starts(IndicatorSeries(o, bs), Len(bs), first)
<1> DEFINE n == Len(bs)
<1>1. /\ Closes(bs) \in Seq(Fraction) /\ Len(Closes(bs)) = n /\ n \in Nat
      /\ Volumes(bs) \in Seq(Fraction) /\ Len(Volumes(bs)) = n
    BY CandlesBegin, PricesAre, NotNegativeSeq
<1>2. CASE o.name = "RSI"
    <2> DEFINE p == Param(o, "period")
    <2>1. p \in Nat /\ p > 0
        BY <1>2, KnownIs DEF Settled
    <2>2. IndicatorSeries(o, bs) = Rsi(Closes(bs), p)
        BY <1>2, IndicatorIs
    <2>3. Latest(o) = p + 1
        BY <1>2 DEF Latest
    <2> HIDE DEF p
    <2>4. Starts(Rsi(Closes(bs), p), n, p + 1)
        BY <1>1, <2>1, RsiIs DEF Kept, Starts
    <2> QED BY <2>1, <2>2, <2>3, <2>4
<1>3. CASE o.name = "EMA"
    <2> DEFINE p == Param(o, "period")
    <2>1. p \in Nat /\ p > 0
        BY <1>3, KnownIs DEF Settled
    <2>2. IndicatorSeries(o, bs) = Ema(Closes(bs), p)
        BY <1>3, IndicatorIs
    <2>3. Latest(o) = p
        BY <1>3 DEF Latest
    <2> HIDE DEF p
    <2>4. Starts(Ema(Closes(bs), p), n, p)
        BY <1>1, <2>1, AveragesAre DEF Kept, Starts
    <2> QED BY <2>1, <2>2, <2>3, <2>4
<1>4. CASE o.name = "SMA"
    <2> DEFINE p == Param(o, "period")
    <2>1. p \in Nat /\ p > 0
        BY <1>4, KnownIs DEF Settled
    <2>2. IndicatorSeries(o, bs) = Sma(Closes(bs), p)
        BY <1>4, IndicatorIs
    <2>3. Latest(o) = p
        BY <1>4 DEF Latest
    <2> HIDE DEF p
    <2>4. Starts(Sma(Closes(bs), p), n, p)
        BY <1>1, <2>1, AveragesAre DEF Kept, Starts
    <2> QED BY <2>1, <2>2, <2>3, <2>4
<1>5. CASE o.name = "BOLLINGER"
    <2> DEFINE p == Param(o, "period")
    <2>1. p \in Nat /\ p > 0
        BY <1>5, KnownIs DEF Settled
    <2>2. IndicatorSeries(o, bs) = Sma(Closes(bs), p)
        BY <1>5, IndicatorIs
    <2>3. Latest(o) = p
        BY <1>5 DEF Latest
    <2> HIDE DEF p
    <2>4. Starts(Sma(Closes(bs), p), n, p)
        BY <1>1, <2>1, AveragesAre DEF Kept, Starts
    <2> QED BY <2>1, <2>2, <2>3, <2>4
<1>6. CASE o.name = "ATR"
    <2> DEFINE p == Param(o, "period")
    <2>1. p \in Nat /\ p > 0
        BY <1>6, KnownIs DEF Settled
    <2>2. IndicatorSeries(o, bs) = Atr(bs, p)
        BY <1>6, IndicatorIs
    <2>3. Latest(o) = p + 1
        BY <1>6 DEF Latest
    <2> HIDE DEF p
    <2>4. Starts(Atr(bs, p), n, p + 1)
        BY <1>1, <2>1, AtrIs DEF Kept, Starts
    <2> QED BY <2>1, <2>2, <2>3, <2>4
<1>7. CASE o.name = "CCI"
    <2> DEFINE p == Param(o, "period")
    <2>1. p \in Nat /\ p > 0
        BY <1>7, KnownIs DEF Settled
    <2>2. IndicatorSeries(o, bs) = Cci(bs, p)
        BY <1>7, IndicatorIs
    <2>3. Latest(o) = p
        BY <1>7 DEF Latest
    <2> HIDE DEF p
    <2>4. Starts(Cci(bs, p), n, p)
        BY <1>1, <2>1, CciIs DEF Kept, Starts
    <2> QED BY <2>1, <2>2, <2>3, <2>4
<1>8. CASE o.name = "WILLIAMS_R"
    <2> DEFINE p == Param(o, "period")
    <2>1. p \in Nat /\ p > 0
        BY <1>8, KnownIs DEF Settled
    <2>2. IndicatorSeries(o, bs) = WilliamsR(bs, p)
        BY <1>8, IndicatorIs
    <2>3. Latest(o) = p
        BY <1>8 DEF Latest
    <2> HIDE DEF p
    <2>4. Starts(WilliamsR(bs, p), n, p)
        BY <1>1, <2>1, WilliamsIs DEF Kept, Starts
    <2> QED BY <2>1, <2>2, <2>3, <2>4
<1>9. CASE o.name = "MFI"
    <2> DEFINE p == Param(o, "period")
    <2>1. p \in Nat /\ p > 0
        BY <1>9, KnownIs DEF Settled
    <2>2. IndicatorSeries(o, bs) = Mfi(bs, p)
        BY <1>9, IndicatorIs
    <2>3. Latest(o) = p + 1
        BY <1>9 DEF Latest
    <2> HIDE DEF p
    <2>4. Starts(Mfi(bs, p), n, p + 1)
        BY <1>1, <2>1, MfiIs DEF Kept, Starts
    <2> QED BY <2>1, <2>2, <2>3, <2>4
<1>10. CASE o.name = "ROC"
    <2> DEFINE p == Param(o, "period")
    <2>1. p \in Nat /\ p > 0
        BY <1>10, KnownIs DEF Settled
    <2>2. IndicatorSeries(o, bs) = Roc(Closes(bs), p)
        BY <1>10, IndicatorIs
    <2>3. Latest(o) = p + 1
        BY <1>10 DEF Latest
    <2> HIDE DEF p
    <2>4. Starts(Roc(Closes(bs), p), n, p + 1)
        BY <1>1, <2>1, RocIs DEF Kept, Starts
    <2> QED BY <2>1, <2>2, <2>3, <2>4
<1>11. CASE o.name = "VWAP"
    <2> DEFINE p == Param(o, "period")
    <2>1. p \in Nat /\ p > 0
        BY <1>11, KnownIs DEF Settled
    <2>2. IndicatorSeries(o, bs) = Vwap(bs, p)
        BY <1>11, IndicatorIs
    <2>3. Latest(o) = p
        BY <1>11 DEF Latest
    <2> HIDE DEF p
    <2>4. Starts(Vwap(bs, p), n, p)
        BY <1>1, <2>1, VwapValid DEF Kept, Starts
    <2> QED BY <2>1, <2>2, <2>3, <2>4
<1>12. CASE o.name = "OBV"
    <2>1. IndicatorSeries(o, bs) = Obv(bs)
        BY <1>12, IndicatorIs
    <2>2. Latest(o) = 1
        BY <1>12 DEF Latest
    <2>3. Starts(Obv(bs), n, 1)
        BY ObvValid DEF Starts
    <2> QED BY <2>1, <2>2, <2>3
<1>13. CASE o.name = "PSAR"
    <2>1. IndicatorSeries(o, bs) = Psar(bs)
        BY <1>13, IndicatorIs
    <2>2. Latest(o) = 2
        BY <1>13 DEF Latest
    <2>3. Starts(Psar(bs), n, 2)
        BY <1>13, PsarValid DEF Starts
    <2> QED BY <2>1, <2>2, <2>3
<1>14. CASE o.name = "ADX"
    <2> DEFINE p == Param(o, "period")
    <2>1. p \in Nat /\ p > 0 /\ OutputOf(o) \in AdxOutputs
        BY <1>14, KnownIs DEF Settled, AdxOutputs
    <2>2. IndicatorSeries(o, bs) = Adx(bs, p)[OutputOf(o)]
        BY <1>14, IndicatorIs
    <2>3. Latest(o) = 2 * p /\ Len(bs) >= 2 * p
        BY <1>14 DEF Latest
    <2> HIDE DEF p
    <2> DEFINE s == Adx(bs, p)[OutputOf(o)]
    <2>4. Len(s) = n /\ (Valid(s, 2 * p) \/ Valid(s, p + 1))
        BY <2>1, <2>3, AdxAre DEF Shows
    <2> HIDE DEF s
    <2>5. \E first \in 1 .. 2 * p : Starts(s, n, first)
        <3>1. CASE Valid(s, 2 * p)
            BY <2>1, <2>4, <3>1 DEF Starts
        <3>2. CASE Valid(s, p + 1)
            <4>1. p + 1 \in 1 .. 2 * p
                BY <2>1
            <4> QED BY <2>1, <2>4, <3>2, <4>1 DEF Starts
        <3> QED BY <2>4, <3>1, <3>2
    <2> QED BY <2>2, <2>3, <2>5 DEF s
<1>15. CASE o.name = "MACD"
    <2> DEFINE f == Param(o, "fastPeriod")
               l == Param(o, "slowPeriod")
               p == Param(o, "signalPeriod")
    <2>1. f \in Nat /\ f > 0 /\ l \in Nat /\ l > 0 /\ p \in Nat /\ p > 0 /\ OutputOf(o) \in {"macd", "signal", "histogram"}
        BY <1>15, KnownIs DEF Settled
    <2>2. Latest(o) = (LargerOf(f, l) + p) - 1
        BY <1>15 DEF Latest
    <2>3. LargerOf(f, l) \in Nat /\ LargerOf(f, l) > 0
        BY <2>1, LargerOfIs
    <2>4. Starts(MacdLine(Closes(bs), f, l), n, LargerOf(f, l))
        <3> HIDE DEF f, l
        <3> QED BY <1>1, <2>1, <2>3, LineIs DEF Starts
    <2> DEFINE line == MacdLine(Closes(bs), f, l)
               signals == MacdSignal(line, p)
               m == LargerOf(f, l)
    <2>5. Starts(signals, n, (m + p) - 1)
        <3>1. line \in Seq(Numbers) /\ Valid(line, m) /\ Len(line) = n
            BY <2>4 DEF Starts, Valid
        <3> HIDE DEF f, l, p, m, line
        <3>2. Valid(signals, (m + p) - 1) /\ Len(signals) = n
            BY <2>1, <2>3, <3>1, SignalIs DEF m
        <3> QED BY <2>1, <2>3, <3>2 DEF Starts, m
    <2>6. m \in 1 .. (m + p) - 1 /\ (m + p) - 1 \in 1 .. (m + p) - 1 /\ LargerOf(m, (m + p) - 1) = (m + p) - 1
        <3> HIDE DEF m, p
        <3>1. m \in Nat /\ m > 0 /\ p \in Nat /\ p > 0
            BY <2>1, <2>3 DEF m
        <3> QED BY <3>1 DEF LargerOf
    <2>7. Starts(Histogram(line, signals), n, (m + p) - 1)
        <3>1. Starts(line, n, m)
            BY <2>4
        <3> HIDE DEF m, line, signals
        <3>2. Starts(Histogram(line, signals), n, LargerOf(m, (m + p) - 1))
            BY <1>1, <2>5, <3>1, HistogramValid
        <3> QED BY <2>6, <3>2
    <2>10. CASE OutputOf(o) = "macd"
        <3>1. IndicatorSeries(o, bs) = MacdLine(Closes(bs), f, l)
            BY <1>15, <2>10, OutputIs DEF Line
        <3> HIDE DEF f, l, p
        <3>2. Starts(MacdLine(Closes(bs), f, l), n, LargerOf(f, l)) /\ LargerOf(f, l) \in 1 .. (LargerOf(f, l) + p) - 1
            BY <2>4, <2>6
        <3> QED BY <2>2, <3>1, <3>2
    <2>11. CASE OutputOf(o) = "signal"
        <3>1. IndicatorSeries(o, bs) = MacdSignal(MacdLine(Closes(bs), f, l), p)
            BY <1>15, <2>11, OutputIs DEF Line
        <3> HIDE DEF f, l, p
        <3>2. Starts(MacdSignal(MacdLine(Closes(bs), f, l), p), n, (LargerOf(f, l) + p) - 1) /\ (LargerOf(f, l) + p) - 1 \in 1 .. (LargerOf(f, l) + p) - 1
            BY <2>5, <2>6
        <3> QED BY <2>2, <3>1, <3>2
    <2>12. CASE OutputOf(o) = "histogram"
        <3>1. IndicatorSeries(o, bs) = Histogram(MacdLine(Closes(bs), f, l), MacdSignal(MacdLine(Closes(bs), f, l), p))
            BY <1>15, <2>12, OutputIs DEF Line
        <3> HIDE DEF f, l, p
        <3>2. Starts(Histogram(MacdLine(Closes(bs), f, l), MacdSignal(MacdLine(Closes(bs), f, l), p)), n, (LargerOf(f, l) + p) - 1) /\ (LargerOf(f, l) + p) - 1 \in 1 .. (LargerOf(f, l) + p) - 1
            BY <2>6, <2>7
        <3> QED BY <2>2, <3>1, <3>2
    <2> QED BY <2>1, <2>10, <2>11, <2>12
<1>16. CASE o.name = "STOCHASTIC"
    <2> DEFINE p == Param(o, "period")
               s == Param(o, "smoothing")
    <2>1. p \in Nat /\ p > 0 /\ s \in Nat /\ s > 0 /\ OutputOf(o) \in {"k", "d"}
        BY <1>16, KnownIs DEF Settled
    <2>2. Latest(o) = (p + s) - 1
        BY <1>16 DEF Latest
    <2>10. CASE OutputOf(o) = "k"
        <3>1. IndicatorSeries(o, bs) = StochasticK(bs, p)
            BY <1>16, <2>10, OutputIs DEF Line
        <3> HIDE DEF p, s
        <3>2. Starts(StochasticK(bs, p), n, p) /\ p \in 1 .. (p + s) - 1
            BY <1>1, <2>1, StochasticIs DEF Kept, Starts
        <3> QED BY <2>2, <3>1, <3>2
    <2>11. CASE OutputOf(o) = "d"
        <3>1. IndicatorSeries(o, bs) = StochasticD(StochasticK(bs, p), s)
            BY <1>16, <2>11, OutputIs DEF Line
        <3> HIDE DEF p, s
        <3>2. Starts(StochasticD(StochasticK(bs, p), s), n, (p + s) - 1) /\ (p + s) - 1 \in 1 .. (p + s) - 1
            <4> DEFINE d == StochasticD(StochasticK(bs, p), s)
            <4>1. Kept(d, (p + s) - 1, Zero, Hundred) /\ Len(d) = n
                BY <2>1, StochasticDIs
            <4> HIDE DEF d
            <4>2. Starts(d, n, (p + s) - 1)
                BY <2>1, <4>1 DEF Kept, Starts
            <4> QED BY <2>1, <4>2 DEF d
        <3> QED BY <2>2, <3>1, <3>2
    <2> QED BY <2>1, <2>10, <2>11
<1>17. CASE o.name = "KELTNER"
    <2> DEFINE p == Param(o, "period")
               m == Param(o, "multiplier")
    <2>1. p \in Nat /\ p > 0 /\ m \in Nat /\ m > 0 /\ OutputOf(o) \in {"upper", "middle", "lower"}
        BY <1>17, KnownIs DEF Settled
    <2>2. Latest(o) = p + 1
        BY <1>17 DEF Latest
    <2>10. CASE OutputOf(o) = "upper"
        <3>1. IndicatorSeries(o, bs) = Above(Ema(Closes(bs), p), Atr(bs, p), Whole(m))
            BY <1>17, <2>10, OutputIs DEF Line
        <3> HIDE DEF p, m
        <3>2. Starts(Above(Ema(Closes(bs), p), Atr(bs, p), Whole(m)), n, p + 1) /\ p + 1 \in 1 .. p + 1
            <4>1. Starts(Ema(Closes(bs), p), n, p) /\ Starts(Atr(bs, p), n, p + 1)
                BY <1>1, <2>1, AveragesAre, AtrIs DEF Starts
            <4> DEFINE x == Ema(Closes(bs), p)
                       y == Atr(bs, p)
                       z == Whole(m)
            <4>2. x \in Seq(Numbers) /\ y \in Seq(Numbers) /\ Len(x) = n /\ Len(y) = n /\ Valid(x, p) /\ Valid(y, p + 1)
                BY <4>1 DEF Starts, Valid
            <4>3. z \in Fraction
                BY <2>1, WholesAre
            <4> HIDE DEF x, y, z
            <4>4. /\ Valid(Above(x, y, z), LargerOf(p, p + 1)) /\ Len(Above(x, y, z)) = n
                  /\ Valid(Below(x, y, z), LargerOf(p, p + 1)) /\ Len(Below(x, y, z)) = n
                BY <2>1, <4>2, <4>3, ChannelIs
            <4>5. LargerOf(p, p + 1) = p + 1
                BY <2>1 DEF LargerOf
            <4> QED BY <2>1, <4>4, <4>5 DEF Starts, x, y, z
        <3> QED BY <2>2, <3>1, <3>2
    <2>11. CASE OutputOf(o) = "middle"
        <3>1. IndicatorSeries(o, bs) = Ema(Closes(bs), p)
            BY <1>17, <2>11, OutputIs DEF Line
        <3> HIDE DEF p, m
        <3>2. Starts(Ema(Closes(bs), p), n, p) /\ p \in 1 .. p + 1
            BY <1>1, <2>1, AveragesAre DEF Starts
        <3> QED BY <2>2, <3>1, <3>2
    <2>12. CASE OutputOf(o) = "lower"
        <3>1. IndicatorSeries(o, bs) = Below(Ema(Closes(bs), p), Atr(bs, p), Whole(m))
            BY <1>17, <2>12, OutputIs DEF Line
        <3> HIDE DEF p, m
        <3>2. Starts(Below(Ema(Closes(bs), p), Atr(bs, p), Whole(m)), n, p + 1) /\ p + 1 \in 1 .. p + 1
            <4>1. Starts(Ema(Closes(bs), p), n, p) /\ Starts(Atr(bs, p), n, p + 1)
                BY <1>1, <2>1, AveragesAre, AtrIs DEF Starts
            <4> DEFINE x == Ema(Closes(bs), p)
                       y == Atr(bs, p)
                       z == Whole(m)
            <4>2. x \in Seq(Numbers) /\ y \in Seq(Numbers) /\ Len(x) = n /\ Len(y) = n /\ Valid(x, p) /\ Valid(y, p + 1)
                BY <4>1 DEF Starts, Valid
            <4>3. z \in Fraction
                BY <2>1, WholesAre
            <4> HIDE DEF x, y, z
            <4>4. /\ Valid(Above(x, y, z), LargerOf(p, p + 1)) /\ Len(Above(x, y, z)) = n
                  /\ Valid(Below(x, y, z), LargerOf(p, p + 1)) /\ Len(Below(x, y, z)) = n
                BY <2>1, <4>2, <4>3, ChannelIs
            <4>5. LargerOf(p, p + 1) = p + 1
                BY <2>1 DEF LargerOf
            <4> QED BY <2>1, <4>4, <4>5 DEF Starts, x, y, z
        <3> QED BY <2>2, <3>1, <3>2
    <2> QED BY <2>1, <2>10, <2>11, <2>12
<1>18. CASE o.name = "ICHIMOKU"
    <2> DEFINE v == Param(o, "conversionPeriod")
               l == Param(o, "basePeriod")
               s == Param(o, "spanPeriod")
    <2>1. v \in Nat /\ v > 0 /\ l \in Nat /\ l > 0 /\ s \in Nat /\ s > 0 /\ OutputOf(o) \in {"conversion", "base", "spanA", "spanB"}
        BY <1>18, KnownIs DEF Settled
    <2>2. Latest(o) = LargerOf(v, LargerOf(l, s))
        BY <1>18 DEF Latest
    <2>3. LET m == LargerOf(v, LargerOf(l, s))
          IN m \in Nat /\ v \in 1 .. m /\ l \in 1 .. m /\ s \in 1 .. m /\ LargerOf(v, l) \in 1 .. m
        <3> HIDE DEF v, l, s
        <3> QED BY <2>1 DEF LargerOf
    <2>10. CASE OutputOf(o) = "conversion"
        <3>1. IndicatorSeries(o, bs) = Midpoint(bs, v)
            BY <1>18, <2>10, OutputIs DEF Line
        <3> HIDE DEF v, l, s
        <3>2. Starts(Midpoint(bs, v), n, v) /\ v \in 1 .. LargerOf(v, LargerOf(l, s))
            BY <2>1, <2>3, MidpointValid DEF Starts
        <3> QED BY <2>2, <3>1, <3>2
    <2>11. CASE OutputOf(o) = "base"
        <3>1. IndicatorSeries(o, bs) = Midpoint(bs, l)
            BY <1>18, <2>11, OutputIs DEF Line
        <3> HIDE DEF v, l, s
        <3>2. Starts(Midpoint(bs, l), n, l) /\ l \in 1 .. LargerOf(v, LargerOf(l, s))
            BY <2>1, <2>3, MidpointValid DEF Starts
        <3> QED BY <2>2, <3>1, <3>2
    <2>12. CASE OutputOf(o) = "spanA"
        <3>1. IndicatorSeries(o, bs) = SpanA(Midpoint(bs, v), Midpoint(bs, l))
            BY <1>18, <2>12, OutputIs DEF Line
        <3> HIDE DEF v, l, s
        <3>2. Starts(SpanA(Midpoint(bs, v), Midpoint(bs, l)), n, LargerOf(v, l)) /\ LargerOf(v, l) \in 1 .. LargerOf(v, LargerOf(l, s))
            BY <2>1, <2>3, SpanValid
        <3> QED BY <2>2, <3>1, <3>2
    <2>13. CASE OutputOf(o) = "spanB"
        <3>1. IndicatorSeries(o, bs) = Midpoint(bs, s)
            BY <1>18, <2>13, OutputIs DEF Line
        <3> HIDE DEF v, l, s
        <3>2. Starts(Midpoint(bs, s), n, s) /\ s \in 1 .. LargerOf(v, LargerOf(l, s))
            BY <2>1, <2>3, MidpointValid DEF Starts
        <3> QED BY <2>2, <3>1, <3>2
    <2> QED BY <2>1, <2>10, <2>11, <2>12, <2>13
<1>19. CASE o.name = "VOLUME"
    <2> DEFINE p == Param(o, "period")
    <2>1. p \in Nat /\ p > 0 /\ OutputOf(o) \in {"value", "average"}
        BY <1>19, KnownIs DEF Settled
    <2>2. Latest(o) = p
        BY <1>19 DEF Latest
    <2>10. CASE OutputOf(o) = "value"
        <3>1. IndicatorSeries(o, bs) = Volumes(bs)
            BY <1>19, <2>10, OutputIs DEF Line
        <3> HIDE DEF p
        <3>2. Starts(Volumes(bs), n, 1) /\ 1 \in 1 .. p
            BY <1>1, <2>1, PricesValid DEF Starts
        <3> QED BY <2>2, <3>1, <3>2
    <2>11. CASE OutputOf(o) = "average"
        <3>1. IndicatorSeries(o, bs) = Sma(Volumes(bs), p)
            BY <1>19, <2>11, OutputIs DEF Line
        <3> HIDE DEF p
        <3>2. Starts(Sma(Volumes(bs), p), n, p) /\ p \in 1 .. p
            BY <1>1, <2>1, AveragesAre DEF Starts
        <3> QED BY <2>2, <3>1, <3>2
    <2> QED BY <2>1, <2>10, <2>11
<1> QED BY KnownIs, <1>2, <1>3, <1>4, <1>5, <1>6, <1>7, <1>8, <1>9, <1>10, <1>11, <1>12, <1>13, <1>14, <1>15, <1>16, <1>17, <1>18, <1>19 DEF KnownNames

LEMMA EnoughIs ==
    ASSUME NEW o, o.type = "indicator", Known(o), NEW n, Enough(o, n)
    PROVE  /\ Latest(o) <= n - 1
           /\ o.name = "PSAR" => n >= 3
           /\ o.name = "ADX" => n >= 2 * Param(o, "period")
<1>0. n \in Nat /\ n >= 5
    BY DEF Enough
<1>1. \A keys : Keyed(o.name, keys) => \A x \in keys : Param(o, x) \in Nat /\ 3 * Param(o, x) <= n
    BY DEF Enough, Keyed
<1>2. CASE o.name \in {"EMA", "SMA", "BOLLINGER", "CCI", "WILLIAMS_R", "VWAP", "VOLUME"}
    <2>1. Keyed(o.name, {"period"})
        BY <1>2, KeysAre
    <2>2. Latest(o) = Param(o, "period")
        BY <1>2 DEF Latest
    <2>3. Param(o, "period") \in Nat /\ 3 * Param(o, "period") <= n
        BY <1>1, <2>1
    <2> QED BY <1>0, <1>2, <2>2, <2>3
<1>3. CASE o.name \in {"RSI", "ATR", "MFI", "ROC"}
    <2>1. Keyed(o.name, {"period"})
        BY <1>3, KeysAre
    <2>2. Latest(o) = Param(o, "period") + 1
        BY <1>3 DEF Latest
    <2>3. Param(o, "period") \in Nat /\ 3 * Param(o, "period") <= n
        BY <1>1, <2>1
    <2> QED BY <1>0, <1>3, <2>2, <2>3
<1>4. CASE o.name = "KELTNER"
    <2>1. Keyed(o.name, {"period", "multiplier"})
        BY <1>4, KeysAre
    <2>2. Latest(o) = Param(o, "period") + 1
        BY <1>4 DEF Latest
    <2>3. Param(o, "period") \in Nat /\ 3 * Param(o, "period") <= n
        BY <1>1, <2>1
    <2> QED BY <1>0, <1>4, <2>2, <2>3
<1>5. CASE o.name \in {"OBV", "PSAR"}
    BY <1>0, <1>5 DEF Latest
<1>6. CASE o.name = "ADX"
    <2>1. Keyed(o.name, {"period"})
        BY <1>6, KeysAre
    <2>2. Latest(o) = 2 * Param(o, "period")
        BY <1>6 DEF Latest
    <2>3. Param(o, "period") \in Nat /\ 3 * Param(o, "period") <= n
        BY <1>1, <2>1
    <2> QED BY <1>0, <1>6, <2>2, <2>3
<1>7. CASE o.name = "MACD"
    <2> DEFINE f == Param(o, "fastPeriod")
               l == Param(o, "slowPeriod")
               p == Param(o, "signalPeriod")
    <2>1. Keyed(o.name, {"fastPeriod", "slowPeriod", "signalPeriod"})
        BY <1>7, KeysAre
    <2>2. Latest(o) = (LargerOf(f, l) + p) - 1
        BY <1>7 DEF Latest
    <2>3. f \in Nat /\ 3 * f <= n /\ l \in Nat /\ 3 * l <= n /\ p \in Nat /\ 3 * p <= n
        BY <1>1, <2>1
    <2> HIDE DEF f, l, p
    <2> QED BY <1>0, <1>7, <2>2, <2>3 DEF LargerOf
<1>8. CASE o.name = "STOCHASTIC"
    <2>1. Keyed(o.name, {"period", "smoothing"})
        BY <1>8, KeysAre
    <2>2. Latest(o) = (Param(o, "period") + Param(o, "smoothing")) - 1
        BY <1>8 DEF Latest
    <2>3. /\ Param(o, "period") \in Nat /\ 3 * Param(o, "period") <= n
          /\ Param(o, "smoothing") \in Nat /\ 3 * Param(o, "smoothing") <= n
        BY <1>1, <2>1
    <2> QED BY <1>0, <1>8, <2>2, <2>3
<1>9. CASE o.name = "ICHIMOKU"
    <2> DEFINE f == Param(o, "conversionPeriod")
               l == Param(o, "basePeriod")
               p == Param(o, "spanPeriod")
    <2>1. Keyed(o.name, {"conversionPeriod", "basePeriod", "spanPeriod"})
        BY <1>9, KeysAre
    <2>2. Latest(o) = LargerOf(f, LargerOf(l, p))
        BY <1>9 DEF Latest
    <2>3. f \in Nat /\ 3 * f <= n /\ l \in Nat /\ 3 * l <= n /\ p \in Nat /\ 3 * p <= n
        BY <1>1, <2>1
    <2> HIDE DEF f, l, p
    <2> QED BY <1>0, <1>9, <2>2, <2>3 DEF LargerOf
<1> QED BY KnownIs, <1>2, <1>3, <1>4, <1>5, <1>6, <1>7, <1>8, <1>9 DEF KnownNames

LEMMA ReadyAt ==
    ASSUME NEW bs \in Seq(Candles), SarSpeeds, NEW o, o.type = "indicator", Known(o),
           NEW n \in Nat, Len(bs) = n, Latest(o) <= n - 1, o.name = "PSAR" => n >= 3,
           o.name = "ADX" => n >= 2 * Param(o, "period")
    PROVE  \A i \in {n - 1, n} : Series(o, bs)[i] \in Fraction /\ ~IsNaN(Series(o, bs)[i])
<1>1. PICK first \in 1 .. Latest(o) : Starts(IndicatorSeries(o, bs), n, first)
    BY IndicatorStarts
<1> DEFINE s == IndicatorSeries(o, bs)
<1>2. Series(o, bs) = s
    BY DEF Series
<1>3. Valid(s, first) /\ Len(s) = n /\ first \in Nat /\ first > 0
    BY <1>1 DEF Starts
<1> HIDE DEF s
<1>4. Latest(o) \in Nat /\ first <= n - 1
    <2>1. CASE Latest(o) \in Int
        BY <1>1, <2>1
    <2>2. CASE o.name \in KnownNames
        <3>1. Latest(o) \in Int
            <4> QED BY <2>2, KnownIs, LargerOfIs DEF Latest, KnownNames, Settled
        <3> QED BY <2>1, <3>1
    <2> QED BY <2>2, KnownIs
<1>5. \A i \in {n - 1, n} : i \in 1 .. n /\ ~(i < first)
    BY <1>3, <1>4
<1>6. \A i \in {n - 1, n} : s[i] \in Fraction
    BY <1>3, <1>5 DEF Valid
<1> QED BY <1>2, <1>6, FractionIs

(* The history that a bot asks for.                                         *)
LEMMA RequiredIs ==
    ASSUME Configured
    PROVE  /\ Needs(key, config) \in Nat /\ Needs(key, config) > 0
           /\ Required(key, config) \in Nat /\ Required(key, config) >= Needs(key, config)
           /\ Required(key, config) > 0
<1>1. Needs(key, config) \in Nat /\ Needs(key, config) > 0
    <2>1. CASE key = "customRules"
        <3> DEFINE a == GroupNeeds(GroupOf(config, "entryRules"))
                   b == GroupNeeds(GroupOf(config, "exitRules"))
        <3>1. a \in Nat /\ b \in Nat /\ a >= 5 /\ b >= 5
            BY <2>1, GroupsAre, GroupNeedsIs
        <3>2. Needs(key, config) = LargerOf(a, b)
            BY <2>1 DEF Needs
        <3> HIDE DEF a, b
        <3> QED BY <3>1, <3>2 DEF LargerOf
    <2>2. CASE key = "rsiReversal"
        BY <2>2, ConfigIs DEF Needs, Length
    <2>3. CASE key = "macdCross"
        BY <2>3, ConfigIs DEF Needs, Length
    <2>4. CASE key = "emaCross"
        BY <2>4, ConfigIs DEF Needs, Length
    <2>5. CASE key = "bollingerReversion"
        BY <2>5, ConfigIs DEF Needs, Length
    <2>6. CASE key = "stochasticCross"
        BY <2>6, ConfigIs DEF Needs, Length
    <2>7. CASE key = "donchianBreakout"
        BY <2>7, ConfigIs DEF Needs, Length, LargerOf
    <2>8. CASE key = "supertrend"
        BY <2>8, ConfigIs DEF Needs, Length
    <2>9. CASE key = "gridDca"
        BY <2>9, ConfigIs DEF Needs, Length
    <2> QED BY <2>1, <2>2, <2>3, <2>4, <2>5, <2>6, <2>7, <2>8, <2>9 DEF Configured, Library
<1>2. MinHistory \in Nat
    BY StrategiesAssumption
<1> QED BY <1>1, <1>2, LargerOfIs DEF Required

LEMMA SpeedsAre == SarSpeeds
<1>1. \A x \in {SarStep, SarMaxStep} : x \in Fraction /\ AtMost(Zero, x) /\ AtMost(x, One)
    BY StrategiesAssumption, LowestTerms DEF Between
<1> QED BY <1>1 DEF SarSpeeds, Speeds

(* What holds of a bot at any time: its settings are those that were        *)
(* accepted, its candles are candles, and its signal is the one the runner  *)
(* makes of them (before the first candle it has too few to make one).      *)
StrategiesInv ==
    /\ Configured
    /\ bars \in Seq(Candles)
    /\ signal = Evaluate(key, bars, config)

LEMMA BarsAre == Bars \subseteq Candles /\ StillBar \in Candles
BY StrategiesAssumption

LEMMA StrategiesInit ==
    Init => StrategiesInv
<1> SUFFICES ASSUME Init PROVE StrategiesInv
    OBVIOUS
<1>1. PICK i \in DOMAIN Setups :
          /\ Accepts(Specs(Setups[i].key), Setups[i].input)
          /\ key = Setups[i].key
          /\ asked = Setups[i].input
          /\ config = Resolved(Specs(Setups[i].key), Setups[i].input)
          /\ bars = Still(IF Setups[i].new THEN 0 ELSE Required(key, config) - 1)
    BY DEF Init
<1>2. Setups[i].key \in DOMAIN Library /\ Setups[i].new \in BOOLEAN /\ IsInput(Setups[i].input)
    BY StrategiesAssumption
<1>3. Configured
    BY <1>1, <1>2 DEF Configured
<1>4. Required(key, config) \in Nat /\ Required(key, config) > 0
    BY <1>3, RequiredIs
<1> DEFINE n == IF Setups[i].new THEN 0 ELSE Required(key, config) - 1
<1>5. n \in Nat /\ n < Required(key, config) /\ bars = Still(n)
    BY <1>1, <1>2, <1>4
<1> HIDE DEF n
<1>6. Still(n) \in [1 .. n -> Candles]
    BY BarsAre DEF Still
<1>7. bars \in Seq(Candles) /\ Len(bars) = n
    BY <1>5, <1>6, Tabled
<1>8. Evaluate(key, bars, config) = Hold
    BY <1>5, <1>7 DEF Evaluate
<1>9. signal = Hold
    BY DEF Init
<1> QED BY <1>3, <1>7, <1>8, <1>9 DEF StrategiesInv

LEMMA StrategiesNext ==
    StrategiesInv /\ [Next]_vars => StrategiesInv'
<1> SUFFICES ASSUME StrategiesInv, [Next]_vars PROVE StrategiesInv'
    OBVIOUS
<1>1. ASSUME NEW bar \in Bars, CloseBar(bar)
      PROVE  StrategiesInv'
    <2>1. key' = key /\ asked' = asked /\ config' = config /\ bars' = Append(bars, bar)
          /\ signal' = Evaluate(key, bars', config)
        BY <1>1 DEF CloseBar
    <2>2. Configured'
        BY <2>1 DEF StrategiesInv, Configured
    <2>3. bars' \in Seq(Candles)
        BY <2>1, BarsAre, Appended DEF StrategiesInv
    <2>4. signal' = Evaluate(key', bars', config')
        BY <2>1
    <2> QED BY <2>2, <2>3, <2>4 DEF StrategiesInv
<1>2. CASE UNCHANGED vars
    <2>1. key' = key /\ asked' = asked /\ config' = config /\ bars' = bars /\ signal' = signal
        BY <1>2 DEF vars
    <2> QED BY <2>1 DEF StrategiesInv, Configured
<1> QED BY <1>1, <1>2 DEF Next

(* What the proofs below start from, in every state: the setting is one of  *)
(* those accepted, the candles are the market's, and at most Bars of them.   *)
THEOREM StrategiesInvariant == Spec => []StrategiesInv
BY StrategiesInit, StrategiesNext, PTL DEF Spec

(* An indicator has as many values as there are candles.                    *)
LEMMA SeriesIs ==
    ASSUME NEW bs \in Seq(Candles), SarSpeeds, NEW o, o.type = "indicator", Known(o)
    PROVE  /\ Series(o, bs) = IndicatorSeries(o, bs)
           /\ IndicatorSeries(o, bs) \in Seq(Numbers) /\ Len(IndicatorSeries(o, bs)) = Len(bs)
           /\ DOMAIN IndicatorSeries(o, bs) = 1 .. Len(bs)
<1>1. Series(o, bs) = IndicatorSeries(o, bs)
    BY DEF Series
<1>2. CASE o.name = "PSAR"
    <2>1. IndicatorSeries(o, bs) = Psar(bs)
        BY <1>2, IndicatorIs
    <2> QED BY <1>1, <2>1, PsarValid, SeqParts
<1>3. CASE o.name = "ADX"
    <2>1. Settled(o, {"period"}, {"adx", "plusDI", "minusDI"})
        BY <1>3, KnownIs
    <2>2. Param(o, "period") \in Nat /\ Param(o, "period") > 0 /\ OutputOf(o) \in AdxOutputs
        BY <2>1 DEF Settled, AdxOutputs
    <2>3. IndicatorSeries(o, bs) = Adx(bs, Param(o, "period"))[OutputOf(o)]
        BY <1>3, IndicatorIs
    <2>4. Shows(Adx(bs, Param(o, "period"))[OutputOf(o)], Len(bs), Zero, Hundred)
        BY <2>2, AdxAre
    <2> QED BY <1>1, <2>3, <2>4, SeqParts DEF Shows
<1>4. CASE o.name # "PSAR" /\ o.name # "ADX"
    <2>1. \E first \in 1 .. Latest(o) : Starts(IndicatorSeries(o, bs), Len(bs), first)
        BY <1>4, IndicatorStarts
    <2>2. PICK first \in 1 .. Latest(o) : Starts(IndicatorSeries(o, bs), Len(bs), first)
        BY <2>1
    <2> QED BY <1>1, <2>2, SeqParts DEF Starts, Valid
<1> QED BY <1>2, <1>3, <1>4

LEMMA FirstOf ==
    ASSUME NEW W, NEW s \in Seq(W), NEW n \in 0 .. Len(s)
    PROVE  SubSeq(s, 1, n) \in Seq(W) /\ Len(SubSeq(s, 1, n)) = n /\ Begins(SubSeq(s, 1, n), s)
<1>1. Len(s) \in Nat /\ n \in Nat /\ n <= Len(s)
    BY SeqParts
<1>2. SubSeq(s, 1, n) = [i \in 1 .. n |-> s[i]]
    BY <1>1 DEF SubSeq
<1>3. [i \in 1 .. n |-> s[i]] \in [1 .. n -> W]
    BY <1>1, SeqParts
<1>4. SubSeq(s, 1, n) \in Seq(W) /\ Len(SubSeq(s, 1, n)) = n
    BY <1>1, <1>2, <1>3, Tabled
<1>5. \A i \in 1 .. n : SubSeq(s, 1, n)[i] = s[i]
    BY <1>2
<1> QED BY <1>1, <1>4, <1>5 DEF Begins

(* The indicators that are followed, and the chart that they are drawn on.  *)
LEMMA FollowedAre ==
    ASSUME StrategiesInv, NEW names, NEW o \in Followed(names)
    PROVE  /\ Chart = bars /\ bars \in Seq(Candles) /\ Len(bars) \in Nat /\ Len(bars) > 0
           /\ o.type = "indicator" /\ Known(o) /\ o.name \in names
<1>1. o \in Charted /\ Chart # <<>> /\ o.name \in names
    BY DEF Followed
<1>2. Chart = bars /\ bars \in Seq(Candles)
    BY <1>1 DEF Chart, StrategiesInv
<1>3. o.type = "indicator" /\ Known(o)
    BY <1>1, StrategiesAssumption
<1>4. Len(bars) \in Nat /\ Len(bars) # 0
    BY <1>1, <1>2
<1> QED BY <1>1, <1>2, <1>3, <1>4

(* No indicator of a bot looks ahead, whatever the candles and the periods. *)
LEMMA NeverRepaintsHolds ==
    StrategiesInv => NeverRepaints
<1> SUFFICES ASSUME StrategiesInv,
                    NEW o \in Followed(DOMAIN Catalog),
                    NEW before \in {Series(o, SubSeq(Chart, 1, n)) : n \in {Len(Chart) - 1, Len(Chart)}},
                    NEW after \in {Series(o, SubSeq(Chart, 1, n)) : n \in {Len(Chart) - 1, Len(Chart)}},
                    Len(before) < Len(after),
                    NEW i \in DOMAIN before
             PROVE  IsNaN(before[i]) \/ before[i] = after[i]
    BY DEF NeverRepaints
<1>1. /\ Chart = bars /\ bars \in Seq(Candles) /\ Len(bars) \in Nat /\ Len(bars) > 0
      /\ o.type = "indicator" /\ Known(o)
    BY FollowedAre
<1>2. PICK n \in {Len(bars) - 1, Len(bars)} : before = Series(o, SubSeq(bars, 1, n))
    BY <1>1
<1>3. PICK m \in {Len(bars) - 1, Len(bars)} : after = Series(o, SubSeq(bars, 1, m))
    BY <1>1
<1> DEFINE b == SubSeq(bars, 1, n)
           c == SubSeq(bars, 1, m)
<1>4. n \in 0 .. Len(bars) /\ m \in 0 .. Len(bars)
    BY <1>1
<1>5. b \in Seq(Candles) /\ Len(b) = n /\ Begins(b, bars)
    BY <1>1, <1>4, FirstOf
<1>6. c \in Seq(Candles) /\ Len(c) = m /\ Begins(c, bars)
    BY <1>1, <1>4, FirstOf
<1>7. before = Series(o, b) /\ after = Series(o, c)
    BY <1>2, <1>3
<1> HIDE DEF b, c
<1>8. /\ before = IndicatorSeries(o, b) /\ Len(before) = n /\ DOMAIN before = 1 .. n
      /\ after = IndicatorSeries(o, c) /\ Len(after) = m
    BY <1>1, <1>5, <1>6, <1>7, SeriesIs, SpeedsAre
<1>9. Begins(b, c)
    <2>1. n < m
        BY <1>8
    <2> QED BY <1>4, <1>5, <1>6, <2>1 DEF Begins
<1>10. Agrees(before, after)
    BY <1>1, <1>5, <1>6, <1>8, <1>9, SpeedsAre, IndicatorAgrees
<1> QED BY <1>8, <1>10 DEF Agrees

(* No indicator looks ahead: what was shown for a closed candle (resolve-   *)
(* Indicator, on the longer history) is what was shown for it before.       *)
THEOREM NeverRepaintsAlways == Spec => []NeverRepaints
BY StrategiesInvariant, NeverRepaintsHolds, PTL

(* The operands of the rules of a bot all have a value in time.             *)
LEMMA OperandReady ==
    ASSUME NEW bs \in Seq(Candles), NEW n \in Nat, Len(bs) = n, n >= 5, NEW g, IsGroup(g),
           GroupNeeds(g) <= n, NEW o \in Operands(g), Known(o)
    PROVE  \A i \in {n - 1, n} : ~IsNaN(Series(o, bs)[i])
<1>1. Readable(o)
    BY ReadableAll
<1>2. DOMAIN bs = 1 .. n /\ \A i \in {n - 1, n} : i \in 1 .. n
    BY SeqParts
<1>3. o.type \in {"constant", "price", "indicator"}
    BY <1>1 DEF Readable
<1>4. CASE o.type = "constant"
    <2>1. InLowestTerms(o.value)
        BY <1>1, <1>4 DEF Readable
    <2>2. o.value \in Fraction
        BY <2>1, LowestTerms
    <2>3. Series(o, bs) = [i \in DOMAIN bs |-> o.value]
        BY <1>4 DEF Series
    <2>4. ~IsNaN(o.value)
        BY <2>2, FractionIs
    <2> QED BY <1>2, <2>3, <2>4
<1>5. CASE o.type = "price"
    <2>1. o.source \in {"open", "high", "low", "close"}
        BY <1>1, <1>5 DEF Readable
    <2>2. Series(o, bs) = [i \in DOMAIN bs |-> Whole(bs[i][o.source])]
        BY <1>5 DEF Series
    <2>3. \A i \in 1 .. n : bs[i][o.source] \in Int
        BY <2>1, CandleIs
    <2>4. \A x \in Int : ~IsNaN(Whole(x))
        BY WholeIs, FractionIs
    <2> QED BY <1>2, <2>2, <2>3, <2>4
<1>6. CASE o.type = "indicator"
    <2>1. o.name \in DOMAIN Catalog
        BY <1>6 DEF Known
    <2>2. \A x \in DOMAIN Catalog[o.name].params : Param(o, x) \in Periods(g)
        BY <1>6, <2>1, PeriodsAre
    <2>3. GroupNeeds(g) \in Nat /\ \A p \in Periods(g) : p \in Nat /\ 3 * p <= GroupNeeds(g)
        BY GroupNeedsIs
    <2>4. \A x \in DOMAIN Catalog[o.name].params : Param(o, x) \in Nat /\ 3 * Param(o, x) <= n
        <3> SUFFICES ASSUME NEW x \in DOMAIN Catalog[o.name].params
                     PROVE  Param(o, x) \in Nat /\ 3 * Param(o, x) <= n
            OBVIOUS
        <3> DEFINE p == Param(o, x)
        <3>1. p \in Nat /\ 3 * p <= GroupNeeds(g)
            BY <2>2, <2>3
        <3> HIDE DEF p
        <3>2. p \in Nat /\ 3 * p <= n
            BY <2>3, <3>1
        <3> QED BY <3>2 DEF p
    <2>5. Enough(o, n)
        BY <2>4 DEF Enough
    <2>6. Latest(o) <= n - 1 /\ (o.name = "PSAR" => n >= 3)
          /\ (o.name = "ADX" => n >= 2 * Param(o, "period"))
        BY <1>6, <2>5, EnoughIs
    <2> QED BY <1>6, <2>6, SpeedsAre, ReadyAt
<1> QED BY <1>3, <1>4, <1>5, <1>6

(* What a preset reads: its periods are those of the bot.                   *)
LEMMA PresetReads ==
    ASSUME NEW a, NEW name
    PROVE  LET o == Indicator(name, [period |-> a])
           IN o.type = "indicator" /\ o.name = name /\ Param(o, "period") = a
BY DEF Indicator, Param

LEMMA PresetReady ==
    ASSUME StrategiesInv, key # "customRules", NEW o \in ReadOn(key, config)
    PROVE  /\ o.type = "indicator" /\ Latest(o) <= Required(key, config) - 1
           /\ o.name # "PSAR" /\ o.name # "ADX"
<1>0. Configured
    BY DEF StrategiesInv
<1>1. /\ Required(key, config) \in Nat /\ Needs(key, config) \in Nat
      /\ Needs(key, config) <= Required(key, config)
    BY <1>0, RequiredIs
<1> DEFINE n == Required(key, config)
           q == Needs(key, config)
           count(x) == Count(config, x)
<1>2. CASE key = "rsiReversal"
    <2>1. o = Indicator("RSI", [period |-> count("period")])
        BY <1>2 DEF ReadOn
    <2>2. o.type = "indicator" /\ o.name = "RSI" /\ Param(o, "period") = count("period")
        BY <2>1, PresetReads
    <2>3. count("period") \in 2 .. 100 /\ q = count("period") * 3
        BY <1>0, <1>2, ConfigIs DEF Length, Needs
    <2>4. Latest(o) = count("period") + 1
        BY <2>2 DEF Latest
    <2> HIDE DEF n, q, count
    <2> QED BY <1>1, <2>2, <2>3, <2>4 DEF n, q
<1>3. CASE key = "macdCross"
    <2>1. Ordered(config) /\ o = Output("MACD", [fastPeriod |-> count("fastPeriod"),
                              slowPeriod |-> count("slowPeriod"),
                              signalPeriod |-> count("signalPeriod")], "histogram")
        BY <1>3 DEF ReadOn
    <2>2. /\ o.type = "indicator" /\ o.name = "MACD" /\ Param(o, "fastPeriod") = count("fastPeriod")
          /\ Param(o, "slowPeriod") = count("slowPeriod")
          /\ Param(o, "signalPeriod") = count("signalPeriod")
        BY <2>1 DEF Output, Param
    <2>3. /\ count("fastPeriod") \in 2 .. 100 /\ count("slowPeriod") \in 3 .. 200
          /\ count("signalPeriod") \in 2 .. 50
          /\ q = count("slowPeriod") + count("signalPeriod") * 3
        BY <1>0, <1>3, ConfigIs DEF Length, Needs
    <2>4. Latest(o) = (LargerOf(count("fastPeriod"), count("slowPeriod")) + count("signalPeriod")) - 1
        BY <2>2 DEF Latest
    <2>5. count("fastPeriod") < count("slowPeriod")
        BY <2>1 DEF Ordered
    <2> HIDE DEF n, q, count
    <2>6. LargerOf(count("fastPeriod"), count("slowPeriod")) = count("slowPeriod")
        BY <2>3, <2>5 DEF LargerOf
    <2> DEFINE slow == count("slowPeriod")
               smooth == count("signalPeriod")
               latest == Latest(o)
    <2>7. slow \in Nat /\ smooth \in Nat /\ latest = (slow + smooth) - 1 /\ q = slow + smooth * 3
        BY <2>3, <2>4, <2>6
    <2> HIDE DEF slow, smooth, latest
    <2>8. latest <= q - 1
        BY <2>7
    <2>9. latest <= n - 1
        BY <1>1, <2>7, <2>8 DEF n, q
    <2> QED BY <2>2, <2>9 DEF n, latest
<1>4. CASE key = "emaCross"
    <2>1. Ordered(config) /\ \E x \in {"fastPeriod", "slowPeriod"} : o = Indicator("EMA", [period |-> count(x)])
        BY <1>4 DEF ReadOn
    <2>2. PICK x \in {"fastPeriod", "slowPeriod"} : o = Indicator("EMA", [period |-> count(x)])
        BY <2>1
    <2>3. o.type = "indicator" /\ o.name = "EMA" /\ Param(o, "period") = count(x)
        BY <2>2, PresetReads
    <2>4. /\ count("fastPeriod") \in 2 .. 200 /\ count("slowPeriod") \in 3 .. 500
          /\ q = count("slowPeriod") + 20
        BY <1>0, <1>4, ConfigIs DEF Length, Needs
    <2>5. Latest(o) = count(x)
        BY <2>3 DEF Latest
    <2>6. count("fastPeriod") < count("slowPeriod")
        BY <2>1 DEF Ordered
    <2> HIDE DEF n, q, count
    <2> QED BY <1>1, <2>3, <2>4, <2>5, <2>6 DEF n, q
<1>5. CASE key = "bollingerReversion"
    <2>1. o = Indicator("BOLLINGER", [period |-> count("period")])
        BY <1>5 DEF ReadOn
    <2>2. o.type = "indicator" /\ o.name = "BOLLINGER" /\ Param(o, "period") = count("period")
        BY <2>1, PresetReads
    <2>3. count("period") \in 5 .. 100 /\ q = count("period") * 2
        BY <1>0, <1>5, ConfigIs DEF Length, Needs
    <2>4. Latest(o) = count("period")
        BY <2>2 DEF Latest
    <2> HIDE DEF n, q, count
    <2> QED BY <1>1, <2>2, <2>3, <2>4 DEF n, q
<1>6. CASE key = "stochasticCross"
    <2>1. o = Output("STOCHASTIC", [period |-> count("period"), smoothing |-> count("smoothing")], "d")
        BY <1>6 DEF ReadOn
    <2>2. /\ o.type = "indicator" /\ o.name = "STOCHASTIC" /\ Param(o, "period") = count("period")
          /\ Param(o, "smoothing") = count("smoothing")
        BY <2>1 DEF Output, Param
    <2>3. /\ count("period") \in 2 .. 100 /\ count("smoothing") \in 1 .. 20
          /\ q = count("period") + count("smoothing") * 3
        BY <1>0, <1>6, ConfigIs DEF Length, Needs
    <2>4. Latest(o) = (count("period") + count("smoothing")) - 1
        BY <2>2 DEF Latest
    <2> HIDE DEF n, q, count
    <2> QED BY <1>1, <2>2, <2>3, <2>4 DEF n, q
<1>7. CASE key = "donchianBreakout"
    <2>1. o = Indicator("ATR", [period |-> count("atrPeriod")])
        BY <1>7 DEF ReadOn
    <2>2. o.type = "indicator" /\ o.name = "ATR" /\ Param(o, "period") = count("atrPeriod")
        BY <2>1, PresetReads
    <2>3. /\ count("period") \in 3 .. 200 /\ count("atrPeriod") \in 2 .. 100
          /\ q = LargerOf(count("period"), count("atrPeriod")) + 5
        BY <1>0, <1>7, ConfigIs DEF Length, Needs
    <2>4. Latest(o) = count("atrPeriod") + 1
        BY <2>2 DEF Latest
    <2> HIDE DEF n, q, count
    <2> QED BY <1>1, <2>2, <2>3, <2>4 DEF n, q, LargerOf
<1>8. CASE key = "supertrend"
    <2>1. o = Indicator("ATR", [period |-> count("atrPeriod")])
        BY <1>8 DEF ReadOn
    <2>2. o.type = "indicator" /\ o.name = "ATR" /\ Param(o, "period") = count("atrPeriod")
        BY <2>1, PresetReads
    <2>3. count("atrPeriod") \in 2 .. 100 /\ q = count("atrPeriod") * 3
        BY <1>0, <1>8, ConfigIs DEF Length, Needs
    <2>4. Latest(o) = count("atrPeriod") + 1
        BY <2>2 DEF Latest
    <2> HIDE DEF n, q, count
    <2> QED BY <1>1, <2>2, <2>3, <2>4 DEF n, q
<1>9. CASE key = "gridDca"
    BY <1>9 DEF ReadOn
<1> QED BY <1>0, <1>2, <1>3, <1>4, <1>5, <1>6, <1>7, <1>8, <1>9 DEF Configured, Library

(* As soon as a bot has the history it asks for, everything its rules read  *)
(* has a value on the last candle and on the one before.                    *)
LEMMA ReadyInTimeHolds ==
    StrategiesInv => ReadyInTime
<1> DEFINE n == Required(key, config)
<1> SUFFICES ASSUME StrategiesInv, Len(bars) = n, NEW o \in ReadOn(key, config), Known(o),
                    NEW i \in {n - 1, n}
             PROVE  ~IsNaN(Series(o, bars)[i])
    BY DEF ReadyInTime
<1>0. Configured /\ bars \in Seq(Candles)
    BY DEF StrategiesInv
<1>1. n \in Nat /\ n >= Needs(key, config) /\ Needs(key, config) \in Nat
    BY <1>0, RequiredIs
<1>2. CASE key = "customRules"
    <2> DEFINE entry == GroupOf(config, "entryRules")
               exit == GroupOf(config, "exitRules")
    <2>1. IsGroup(entry) /\ IsGroup(exit)
        BY <1>0, <1>2, GroupsAre
    <2>2. Needs(key, config) = LargerOf(GroupNeeds(entry), GroupNeeds(exit))
        BY <1>2 DEF Needs
    <2>3. o \in Operands(entry) \cup Operands(exit)
        BY <1>2 DEF ReadOn
    <2> HIDE DEF n, entry, exit
    <2>4. /\ GroupNeeds(entry) \in Nat /\ GroupNeeds(entry) >= 5
          /\ GroupNeeds(exit) \in Nat /\ GroupNeeds(exit) >= 5
        BY <2>1, GroupNeedsIs
    <2>5. GroupNeeds(entry) <= n /\ GroupNeeds(exit) <= n /\ n >= 5
        BY <1>1, <2>2, <2>4 DEF LargerOf
    <2>6. CASE o \in Operands(entry)
        BY <1>0, <1>1, <2>1, <2>5, <2>6, OperandReady
    <2>7. CASE o \in Operands(exit)
        BY <1>0, <1>1, <2>1, <2>5, <2>7, OperandReady
    <2> QED BY <2>3, <2>6, <2>7
<1>3. CASE key # "customRules"
    <2>1. o.type = "indicator" /\ Latest(o) <= n - 1 /\ o.name # "PSAR" /\ o.name # "ADX"
        BY <1>3, PresetReady
    <2> HIDE DEF n
    <2>2. \A j \in {n - 1, n} : Series(o, bars)[j] \in Fraction /\ ~IsNaN(Series(o, bars)[j])
        BY <1>0, <1>1, <2>1, SpeedsAre, ReadyAt
    <2> QED BY <2>2
<1> QED BY <1>2, <1>3

(* With the candles it asks for, a strategy reads no missing value, whatever *)
(* settings were accepted (requiredCandles against the indicators it reads). *)
THEOREM ReadyInTimeAlways == Spec => []ReadyInTime
BY StrategiesInvariant, ReadyInTimeHolds, PTL

(* The range of each indicator that has one: lo and hi bound the prices.    *)
LEMMA OscillatorShows ==
    ASSUME NEW bs \in Seq(Candles), NEW o, o.type = "indicator", Known(o)
    PROVE  /\ o.name \in {"RSI", "MFI", "STOCHASTIC", "ADX"} =>
                 Shows(IndicatorSeries(o, bs), Len(bs), Zero, Hundred)
           /\ o.name = "WILLIAMS_R" =>
                 Shows(IndicatorSeries(o, bs), Len(bs), Minus(Zero, Hundred), Zero)
<1> DEFINE p == Param(o, "period")
<1>0. Zero \in Fraction /\ Hundred \in Fraction /\ Minus(Zero, Hundred) \in Fraction
    BY ConstantsAre, FractionsAre
<1>1. CASE o.name = "RSI"
    <2>1. p \in Nat /\ p > 0 /\ IndicatorSeries(o, bs) = Rsi(Closes(bs), p)
        BY <1>1, KnownIs, IndicatorIs DEF Settled
    <2> HIDE DEF p
    <2>2. Closes(bs) \in Seq(Fraction) /\ Len(Closes(bs)) = Len(bs)
        BY PricesAre, NotNegativeSeq
    <2>3. Kept(Rsi(Closes(bs), p), p + 1, Zero, Hundred) /\ Len(Rsi(Closes(bs), p)) = Len(bs)
        BY <2>1, <2>2, RsiIs
    <2>4. p + 1 \in Nat
        BY <2>1
    <2>5. Shows(IndicatorSeries(o, bs), Len(bs), Zero, Hundred)
        BY <1>0, <2>1, <2>3, <2>4, KeptShows
    <2> QED BY <1>1, <2>5
<1>2. CASE o.name = "MFI"
    <2>1. p \in Nat /\ p > 0 /\ IndicatorSeries(o, bs) = Mfi(bs, p)
        BY <1>2, KnownIs, IndicatorIs DEF Settled
    <2> HIDE DEF p
    <2>2. Kept(Mfi(bs, p), p + 1, Zero, Hundred) /\ Len(Mfi(bs, p)) = Len(bs)
        BY <2>1, MfiIs
    <2>3. p + 1 \in Nat
        BY <2>1
    <2>4. Shows(IndicatorSeries(o, bs), Len(bs), Zero, Hundred)
        BY <1>0, <2>1, <2>2, <2>3, KeptShows
    <2> QED BY <1>2, <2>4
<1>3. CASE o.name = "STOCHASTIC"
    <2> DEFINE q == Param(o, "smoothing")
               k == StochasticK(bs, p)
               d == StochasticD(k, q)
    <2>1. p \in Nat /\ p > 0 /\ q \in Nat /\ q > 0 /\ OutputOf(o) \in {"k", "d"}
        BY <1>3, KnownIs DEF Settled
    <2>2. /\ OutputOf(o) = "k" => IndicatorSeries(o, bs) = k
          /\ OutputOf(o) = "d" => IndicatorSeries(o, bs) = d
        BY <1>3, OutputIs
    <2> HIDE DEF p, q
    <2>3. Kept(k, p, Zero, Hundred) /\ Len(k) = Len(bs)
        BY <2>1, StochasticIs
    <2>4. Kept(d, (p + q) - 1, Zero, Hundred) /\ Len(d) = Len(bs)
        BY <2>1, StochasticDIs
    <2>5. (p + q) - 1 \in Nat
        BY <2>1
    <2> HIDE DEF k, d
    <2>6. Shows(k, Len(bs), Zero, Hundred)
        BY <1>0, <2>1, <2>3, KeptShows
    <2>7. Shows(d, Len(bs), Zero, Hundred)
        BY <1>0, <2>4, <2>5, KeptShows
    <2>8. Shows(IndicatorSeries(o, bs), Len(bs), Zero, Hundred)
        BY <2>1, <2>2, <2>6, <2>7
    <2> QED BY <1>3, <2>8
<1>4. CASE o.name = "ADX"
    <2>1. p \in Nat /\ p > 0 /\ OutputOf(o) \in AdxOutputs
        BY <1>4, KnownIs DEF Settled, AdxOutputs
    <2>2. IndicatorSeries(o, bs) = Adx(bs, p)[OutputOf(o)]
        BY <1>4, IndicatorIs
    <2> HIDE DEF p
    <2>3. Shows(Adx(bs, p)[OutputOf(o)], Len(bs), Zero, Hundred)
        BY <2>1, AdxAre
    <2> QED BY <1>4, <2>2, <2>3
<1>5. CASE o.name = "WILLIAMS_R"
    <2>1. p \in Nat /\ p > 0 /\ IndicatorSeries(o, bs) = WilliamsR(bs, p)
        BY <1>5, KnownIs, IndicatorIs DEF Settled
    <2> HIDE DEF p
    <2>2. Kept(WilliamsR(bs, p), p, Minus(Zero, Hundred), Zero) /\ Len(WilliamsR(bs, p)) = Len(bs)
        BY <2>1, WilliamsIs
    <2>3. Shows(IndicatorSeries(o, bs), Len(bs), Minus(Zero, Hundred), Zero)
        BY <1>0, <2>1, <2>2, KeptShows
    <2> QED BY <1>5, <2>3
<1> QED BY <1>1, <1>2, <1>3, <1>4, <1>5

LEMMA AverageShows ==
    ASSUME NEW bs \in Seq(Candles), SarSpeeds, NEW lo, NEW hi, Bounds(bs, lo, hi),
           NEW o, o.type = "indicator", Known(o)
    PROVE  o.name \in {"SMA", "EMA", "VWAP", "PSAR"} =>
               Shows(IndicatorSeries(o, bs), Len(bs), lo, hi)
<1> DEFINE p == Param(o, "period")
<1>0. /\ lo \in Fraction /\ hi \in Fraction
      /\ \A i \in 1 .. Len(bs) : AtMost(lo, Lows(bs)[i]) /\ AtMost(Highs(bs)[i], hi)
    BY DEF Bounds
<1>1. /\ Closes(bs) \in Seq(Fraction) /\ Len(Closes(bs)) = Len(bs)
      /\ \A i \in 1 .. Len(bs) : AtMost(lo, Closes(bs)[i]) /\ AtMost(Closes(bs)[i], hi)
    <2>1. Closes(bs) \in Seq(Fraction) /\ Len(Closes(bs)) = Len(bs)
        BY PricesAre, NotNegativeSeq
    <2>2. ASSUME NEW i \in 1 .. Len(bs)
          PROVE  AtMost(lo, Closes(bs)[i]) /\ AtMost(Closes(bs)[i], hi)
        <3>1. /\ Highs(bs)[i] \in Fraction /\ Lows(bs)[i] \in Fraction /\ Closes(bs)[i] \in Fraction
              /\ AtMost(Lows(bs)[i], Closes(bs)[i]) /\ AtMost(Closes(bs)[i], Highs(bs)[i])
            BY PricesOf
        <3> QED BY <1>0, <3>1, OrderPasses
    <2> QED BY <2>1, <2>2
<1>2. CASE o.name = "SMA"
    <2>1. p \in Nat /\ p > 0 /\ IndicatorSeries(o, bs) = Sma(Closes(bs), p)
        BY <1>2, KnownIs, IndicatorIs DEF Settled
    <2> HIDE DEF p
    <2>2. Kept(Sma(Closes(bs), p), p, lo, hi) /\ Len(Sma(Closes(bs), p)) = Len(bs)
        BY <1>0, <1>1, <2>1, SmaBetween
    <2> QED BY <1>0, <2>1, <2>2, KeptShows
<1>3. CASE o.name = "EMA"
    <2>1. p \in Nat /\ p > 0 /\ IndicatorSeries(o, bs) = Ema(Closes(bs), p)
        BY <1>3, KnownIs, IndicatorIs DEF Settled
    <2> HIDE DEF p
    <2>2. Kept(Ema(Closes(bs), p), p, lo, hi) /\ Len(Ema(Closes(bs), p)) = Len(bs)
        BY <1>0, <1>1, <2>1, EmaBetween
    <2> QED BY <1>0, <2>1, <2>2, KeptShows
<1>4. CASE o.name = "VWAP"
    <2>1. p \in Nat /\ p > 0 /\ IndicatorSeries(o, bs) = Vwap(bs, p)
        BY <1>4, KnownIs, IndicatorIs DEF Settled
    <2> HIDE DEF p
    <2>2. \A i \in 1 .. Len(bs) : AtMost(lo, TypicalPrice(bs)[i]) /\ AtMost(TypicalPrice(bs)[i], hi)
        <3> SUFFICES ASSUME NEW i \in 1 .. Len(bs)
                     PROVE  AtMost(lo, TypicalPrice(bs)[i]) /\ AtMost(TypicalPrice(bs)[i], hi)
            OBVIOUS
        <3>1. Highs(bs)[i] \in Fraction /\ Lows(bs)[i] \in Fraction
            BY PricesOf
        <3>2. /\ TypicalPrice(bs)[i] \in NotNegative /\ AtMost(Lows(bs)[i], TypicalPrice(bs)[i])
              /\ AtMost(TypicalPrice(bs)[i], Highs(bs)[i])
            BY TypicalIs
        <3>3. TypicalPrice(bs)[i] \in Fraction
            BY <3>2, NotNegativeSeq
        <3> QED BY <1>0, <3>1, <3>2, <3>3, OrderPasses
    <2>3. Kept(Vwap(bs, p), p, lo, hi) /\ Len(Vwap(bs, p)) = Len(bs)
        BY <1>0, <2>1, <2>2, VwapIs
    <2> QED BY <1>0, <2>1, <2>3, KeptShows
<1>5. CASE o.name = "PSAR"
    <2>1. IndicatorSeries(o, bs) = Psar(bs)
        BY <1>5, IndicatorIs
    <2> QED BY <2>1, PsarIs
<1> QED BY <1>2, <1>3, <1>4, <1>5

LEMMA CloudShows ==
    ASSUME NEW bs \in Seq(Candles), NEW lo, NEW hi, Bounds(bs, lo, hi),
           NEW o, o.type = "indicator", Known(o), o.name = "ICHIMOKU"
    PROVE  Shows(IndicatorSeries(o, bs), Len(bs), lo, hi)
<1> DEFINE a == Param(o, "conversionPeriod")
           b == Param(o, "basePeriod")
           c == Param(o, "spanPeriod")
           x == Midpoint(bs, a)
           y == Midpoint(bs, b)
           z == Midpoint(bs, c)
           s == SpanA(x, y)
<1>0. /\ lo \in Fraction /\ hi \in Fraction
      /\ \A i \in 1 .. Len(bs) : AtMost(lo, Lows(bs)[i]) /\ AtMost(Highs(bs)[i], hi)
    BY DEF Bounds
<1>1. /\ a \in Nat /\ a > 0 /\ b \in Nat /\ b > 0 /\ c \in Nat /\ c > 0
      /\ OutputOf(o) \in {"conversion", "base", "spanA", "spanB"}
    BY KnownIs DEF Settled
<1>2. /\ OutputOf(o) = "conversion" => IndicatorSeries(o, bs) = x
      /\ OutputOf(o) = "base" => IndicatorSeries(o, bs) = y
      /\ OutputOf(o) = "spanA" => IndicatorSeries(o, bs) = s
      /\ OutputOf(o) = "spanB" => IndicatorSeries(o, bs) = z
    BY OutputIs
<1> HIDE DEF a, b, c
<1>3. Kept(x, a, lo, hi) /\ Len(x) = Len(bs)
    BY <1>0, <1>1, MidpointIs
<1>4. Kept(y, b, lo, hi) /\ Len(y) = Len(bs)
    BY <1>0, <1>1, MidpointIs
<1>5. Kept(z, c, lo, hi) /\ Len(z) = Len(bs)
    BY <1>0, <1>1, MidpointIs
<1> HIDE DEF x, y, z
<1>6. Kept(s, LargerOf(a, b), lo, hi) /\ Len(s) = Len(bs)
    BY <1>0, <1>1, <1>3, <1>4, SpanIs
<1>7. LargerOf(a, b) \in Nat
    BY <1>1, LargerOfIs
<1> HIDE DEF s
<1>8. Shows(x, Len(bs), lo, hi)
    BY <1>0, <1>1, <1>3, KeptShows
<1>9. Shows(y, Len(bs), lo, hi)
    BY <1>0, <1>1, <1>4, KeptShows
<1>10. Shows(z, Len(bs), lo, hi)
    BY <1>0, <1>1, <1>5, KeptShows
<1>11. Shows(s, Len(bs), lo, hi)
    BY <1>0, <1>6, <1>7, KeptShows
<1> QED BY <1>1, <1>2, <1>8, <1>9, <1>10, <1>11

(* The lowest and the highest price bound the prices.                       *)
LEMMA PricesBound ==
    ASSUME NEW bs \in Seq(Candles), Len(bs) > 0
    PROVE  Bounds(bs, Lowest(Lows(bs)), Highest(Highs(bs)))
<1>1. /\ Lows(bs) \in Seq(Fraction) /\ Highs(bs) \in Seq(Fraction)
      /\ Len(Lows(bs)) = Len(bs) /\ Len(Highs(bs)) = Len(bs)
    BY PricesAre, NotNegativeSeq
<1>2. Lowest(Lows(bs)) \in Fraction /\ \A i \in 1 .. Len(bs) : AtMost(Lowest(Lows(bs)), Lows(bs)[i])
    BY <1>1, HighestOf
<1>3. Highest(Highs(bs)) \in Fraction /\ \A i \in 1 .. Len(bs) : AtMost(Highs(bs)[i], Highest(Highs(bs)))
    BY <1>1, HighestOf
<1> QED BY <1>2, <1>3 DEF Bounds

(* What a bounded indicator shows is in its range.                          *)
LEMMA RangesHold ==
    ASSUME StrategiesInv, NEW o \in Followed(Bounded)
    PROVE  Inside(RangeOf(o.name), Shown(o, Chart))
<1>1. /\ Chart = bars /\ bars \in Seq(Candles) /\ Len(bars) \in Nat /\ Len(bars) > 0
      /\ o.type = "indicator" /\ Known(o) /\ o.name \in Bounded
    BY FollowedAre
<1> DEFINE s == IndicatorSeries(o, bars)
           lo == Lowest(Lows(bars))
           hi == Highest(Highs(bars))
<1>2. Shown(o, Chart) = LastOf(s) /\ Len(s) = Len(bars)
    BY <1>1, SpeedsAre, SeriesIs DEF Shown
<1>3. ASSUME NEW a, NEW b, Shows(s, Len(bars), a, b), RangeOf(o.name) = <<a, b>>
      PROVE  Inside(RangeOf(o.name), Shown(o, Chart))
    <2>1. Shown(o, Chart) = s[Len(bars)] /\ Len(bars) \in 1 .. Len(bars)
        BY <1>1, <1>2 DEF LastOf
    <2>2. IsNaN(s[Len(bars)]) \/ Between(a, s[Len(bars)], b)
        BY <1>3, <2>1 DEF Shows
    <2> HIDE DEF s
    <2> QED BY <1>3, <2>1, <2>2 DEF Inside
<1>4. Bounds(bars, lo, hi)
    BY <1>1, PricesBound
<1>5. CASE o.name \in {"RSI", "MFI", "STOCHASTIC", "ADX"}
    <2>1. RangeOf(o.name) = <<Zero, Hundred>>
        BY <1>5 DEF RangeOf
    <2>2. Shows(s, Len(bars), Zero, Hundred)
        BY <1>1, <1>5, OscillatorShows
    <2> QED BY <1>3, <2>1, <2>2
<1>6. CASE o.name = "WILLIAMS_R"
    <2>1. RangeOf(o.name) = <<Minus(Zero, Hundred), Zero>>
        BY <1>6 DEF RangeOf
    <2>2. Shows(s, Len(bars), Minus(Zero, Hundred), Zero)
        BY <1>1, <1>6, OscillatorShows
    <2> QED BY <1>3, <2>1, <2>2
<1>7. CASE o.name \in {"SMA", "EMA", "VWAP", "PSAR", "ICHIMOKU"}
    <2>1. RangeOf(o.name) = <<lo, hi>>
        BY <1>1, <1>7 DEF RangeOf
    <2> HIDE DEF lo, hi
    <2>2. Shows(s, Len(bars), lo, hi)
        BY <1>1, <1>4, <1>7, SpeedsAre, AverageShows, CloudShows
    <2> QED BY <1>3, <2>1, <2>2
<1> QED BY <1>1, <1>5, <1>6, <1>7 DEF Bounded

(* The confidence of a signal is a share: from 0 to 1.                      *)
Sure(said) == Between(Zero, said.confidence, One)

LEMMA ShareRange ==
    /\ Between(Zero, Zero, One) /\ Between(Zero, One, One)
    /\ \A n \in Nat, d \in Nat : d # 0 /\ n <= d => Between(Zero, Ratio(n, d), One)
<1>1. Zero \in Fraction /\ One \in Fraction /\ AtMost(Zero, One)
    BY ConstantsAre, NotNegatives DEF NotNegative
<1>2. AtMost(Zero, Zero) /\ AtMost(One, One)
    BY <1>1, Order
<1>3. \A n \in Nat, d \in Nat : d # 0 /\ n <= d =>
          Ratio(n, d) \in Fraction /\ AtMost(Zero, Ratio(n, d)) /\ AtMost(Ratio(n, d), One)
    BY RatiosAre
<1> QED BY <1>1, <1>2, <1>3, BetweenIs

LEMMA ShareOf ==
    ASSUME NEW x \in Fraction
    PROVE  /\ Between(Zero, Greater(Zero, Lesser(One, x)), One)
           /\ AtMost(Zero, x) => Between(Zero, Lesser(One, x), One)
<1>1. Zero \in Fraction /\ One \in Fraction /\ AtMost(Zero, One)
    BY ConstantsAre, NotNegatives DEF NotNegative
<1> DEFINE y == Lesser(One, x)
           z == Greater(Zero, y)
<1>2. y \in {One, x} /\ AtMost(y, One) /\ AtMost(y, x)
    BY <1>1, Larger
<1>3. y \in Fraction
    BY <1>1, <1>2
<1> HIDE DEF y
<1>4. z \in {Zero, y} /\ AtMost(Zero, z)
    BY <1>1, <1>3, Larger
<1>5. z \in Fraction /\ AtMost(z, One)
    BY <1>1, <1>2, <1>3, <1>4
<1> HIDE DEF z
<1>6. Between(Zero, z, One)
    BY <1>1, <1>4, <1>5, BetweenIs
<1>7. AtMost(Zero, x) => AtMost(Zero, y)
    BY <1>1, <1>2
<1>8. AtMost(Zero, y) => Between(Zero, y, One)
    BY <1>1, <1>2, <1>3, BetweenIs
<1> QED BY <1>6, <1>7, <1>8 DEF y, z

LEMMA ConfidenceIs ==
    ASSUME NEW x \in Numbers, NEW full \in Numbers
    PROVE  Between(Zero, ConfidenceFrom(x, full), One)
<1>1. CASE IsNaN(x) \/ ~Less(Zero, full)
    BY <1>1, ShareRange DEF ConfidenceFrom
<1>2. CASE ~(IsNaN(x) \/ ~Less(Zero, full))
    <2>1. Zero \in Fraction /\ Zero \in Numbers
        BY ConstantsAre, FractionsAre
    <2>2. x \in Fraction
        BY <1>2, NumbersAre
    <2>3. full \in Fraction
        <3>1. ~IsNaN(full)
            BY <1>2, <2>1, NumbersClosed
        <3> QED BY <3>1, NumbersAre
    <2>4. full \in Positive
        BY <1>2, <2>3, PositiveIs
    <2>5. Over(x, full) \in Fraction
        BY <2>2, <2>4, OverLaws
    <2>6. ConfidenceFrom(x, full) = Greater(Zero, Lesser(One, Over(x, full)))
        BY <1>2 DEF ConfidenceFrom
    <2> QED BY <2>5, <2>6, ShareOf
<1> QED BY <1>1, <1>2

LEMMA SignalsAre ==
    /\ Sure(Hold) /\ Sure(Error)
    /\ \A action, x : Between(Zero, x, One) => Sure(Signal(action, x))
BY ShareRange DEF Sure, Signal, Hold, Error

(* A strategy's values of the last candle are numbers.                      *)
LEMMA LastIs ==
    ASSUME NEW s \in Seq(Numbers), Len(s) > 0
    PROVE  LastOf(s) \in Numbers
<1>1. Len(s) \in 1 .. Len(s)
    BY SeqParts
<1> QED BY <1>1, SeqParts DEF LastOf

LEMMA RsiSure ==
    ASSUME NEW bs \in Seq(Candles), Len(bs) > 0, NEW p, NEW period \in Nat, period > 0,
           Count(p, "period") = period, Num(p, "oversold") \in Fraction,
           Num(p, "overbought") \in Fraction
    PROVE  Sure(RsiReversal(bs, p))
<1> DEFINE values == Rsi(Closes(bs), period)
           current == LastOf(values)
           below == Num(p, "oversold")
           above == Num(p, "overbought")
           buy == ConfidenceFrom(Minus(below, current), below)
           sell == ConfidenceFrom(Minus(current, above), Minus(Hundred, above))
<1>1. Closes(bs) \in Seq(Fraction) /\ Len(Closes(bs)) = Len(bs)
    BY PricesAre, NotNegativeSeq
<1>2. values \in Seq(Numbers) /\ Len(values) = Len(bs)
    BY <1>1, RsiIs DEF Kept, Valid
<1>3. RsiReversal(bs, p) \in {Signal("BUY", buy), Signal("SELL", sell), Hold}
    BY DEF RsiReversal
<1> HIDE DEF values
<1>4. current \in Numbers
    BY <1>2, LastIs
<1> HIDE DEF current
<1>5. below \in Numbers /\ above \in Numbers /\ Hundred \in Numbers
    BY ConstantsAre, FractionsAre
<1> HIDE DEF below, above
<1>6. /\ Minus(below, current) \in Numbers /\ Minus(current, above) \in Numbers
      /\ Minus(Hundred, above) \in Numbers
    BY <1>4, <1>5, NumbersClosed
<1>7. Between(Zero, buy, One) /\ Between(Zero, sell, One)
    BY <1>5, <1>6, ConfidenceIs
<1> HIDE DEF buy, sell
<1> QED BY <1>3, <1>7, SignalsAre

LEMMA SizeIs ==
    ASSUME NEW x \in Fraction
    PROVE  /\ Distance(x, Zero) \in NotNegative
           /\ x # Zero => Distance(x, Zero) \in Positive
<1>1. Zero \in Fraction
    BY ConstantsAre
<1> DEFINE y == Distance(x, Zero)
<1>2. y \in Fraction /\ AtMost(Zero, y) /\ y \in {Minus(x, Zero), Minus(Zero, x)}
    BY <1>1, DistanceIs
<1> HIDE DEF y
<1>3. y \in NotNegative
    BY <1>2 DEF NotNegative
<1>4. ASSUME y = Zero PROVE x = Zero
    <2>1. CASE y = Minus(x, Zero)
        <3>1. Plus(Minus(x, Zero), Zero) = x /\ Plus(Zero, Zero) = Zero
            BY <1>1, PlusLaws
        <3> QED BY <1>4, <2>1, <3>1
    <2>2. CASE y = Minus(Zero, x)
        <3>1. Plus(Minus(Zero, x), x) = Zero /\ Plus(Zero, x) = x
            BY <1>1, PlusLaws
        <3> QED BY <1>4, <2>2, <3>1
    <2> QED BY <1>2, <2>1, <2>2
<1>5. x # Zero => y \in Positive
    BY <1>3, <1>4, NotNegatives
<1> QED BY <1>3, <1>5 DEF y

LEMMA MacdSure ==
    ASSUME NEW bs \in Seq(Candles), Len(bs) > 0, NEW p,
           Count(p, "fastPeriod") \in Nat /\ Count(p, "fastPeriod") > 0, Count(p, "slowPeriod") \in Nat /\ Count(p, "slowPeriod") > 0,
           Count(p, "signalPeriod") \in Nat /\ Count(p, "signalPeriod") > 0
    PROVE  Sure(MacdCross(bs, p))
<1> DEFINE fast == Count(p, "fastPeriod")
           slow == Count(p, "slowPeriod")
           period == Count(p, "signalPeriod")
           line == MacdLine(Closes(bs), fast, slow)
           signals == MacdSignal(line, period)
           histogram == LastOf(Histogram(line, signals))
           full == IF LastOf(line) = Zero THEN One ELSE Distance(LastOf(line), Zero)
           confidence == Lesser(One, Over(Distance(histogram, Zero), full))
<1>1. Closes(bs) \in Seq(Fraction) /\ Len(Closes(bs)) = Len(bs) /\ Len(bs) \in Nat
    BY PricesAre, NotNegativeSeq
<1>2. /\ MacdCross(bs, p) \in {Signal("BUY", confidence), Signal("SELL", confidence), Hold}
      /\ IsNaN(histogram) => MacdCross(bs, p) = Hold
    BY DEF MacdCross
<1>3. fast \in Nat /\ fast > 0 /\ slow \in Nat /\ slow > 0 /\ period \in Nat /\ period > 0
    OBVIOUS
<1> HIDE DEF fast, slow, period
<1>4. LargerOf(fast, slow) \in Nat /\ LargerOf(fast, slow) > 0
    BY <1>3, LargerOfIs
<1>5. Valid(line, LargerOf(fast, slow)) /\ Len(line) = Len(bs) /\ line \in Seq(Numbers)
    BY <1>1, <1>3, LineIs DEF Valid
<1> HIDE DEF line
<1>6. signals \in Seq(Numbers) /\ Len(signals) = Len(bs)
    BY <1>3, <1>4, <1>5, SignalIs DEF Valid
<1> HIDE DEF signals
<1> DEFINE l == LastOf(line)
<1>7. l \in Numbers /\ LastOf(signals) \in Numbers
    BY <1>5, <1>6, LastIs
<1>8. histogram = Minus(l, LastOf(signals))
    <2>1. Histogram(line, signals) = [i \in DOMAIN line |-> Minus(line[i], signals[i])]
        BY DEF Histogram
    <2>2. DOMAIN line = 1 .. Len(bs) /\ Len(bs) \in 1 .. Len(bs)
        BY <1>1, <1>5, SeqParts
    <2>3. Len(Histogram(line, signals)) = Len(bs)
        BY <1>1, <2>1, <2>2
    <2> QED BY <1>5, <1>6, <2>1, <2>2, <2>3 DEF LastOf
<1>9. CASE IsNaN(histogram)
    BY <1>2, <1>9, SignalsAre
<1>10. CASE ~IsNaN(histogram)
    <2>1. ~IsNaN(l) /\ ~IsNaN(LastOf(signals))
        <3>1. IsNaN(l) \/ IsNaN(LastOf(signals)) => histogram = NaN
            BY <1>7, <1>8, NumbersClosed
        <3> QED BY <1>10, <3>1, NaNIs
    <2>2. l \in Fraction /\ LastOf(signals) \in Fraction
        BY <1>7, <2>1, NumbersAre
    <2>3. histogram \in Fraction
        BY <1>8, <2>2, FractionsAre
    <2>4. full = IF l = Zero THEN One ELSE Distance(l, Zero)
        OBVIOUS
    <2> HIDE DEF l, histogram, full
    <2>5. full \in Positive
        <3>1. One \in Positive
            BY WholesAre DEF One
        <3> QED BY <2>2, <2>4, <3>1, SizeIs
    <2>6. Distance(histogram, Zero) \in NotNegative
        BY <2>3, SizeIs
    <2> DEFINE x == Over(Distance(histogram, Zero), full)
    <2>7. x \in NotNegative
        BY <2>5, <2>6, NotNegatives
    <2>8. confidence = Lesser(One, x)
        OBVIOUS
    <2> HIDE DEF x, confidence
    <2>9. Between(Zero, confidence, One)
        BY <2>7, <2>8, ShareOf DEF NotNegative
    <2> QED BY <1>2, <2>9, SignalsAre
<1> QED BY <1>9, <1>10

LEMMA EmaSure ==
    ASSUME NEW bs \in Seq(Candles), Len(bs) > 0, NEW p,
           Count(p, "fastPeriod") \in Nat /\ Count(p, "fastPeriod") > 0, Count(p, "slowPeriod") \in Nat /\ Count(p, "slowPeriod") > 0
    PROVE  Sure(EmaCross(bs, p))
<1> DEFINE a == Count(p, "fastPeriod")
           b == Count(p, "slowPeriod")
           fast == Ema(Closes(bs), a)
           slow == Ema(Closes(bs), b)
           x == LastOf(fast)
           y == LastOf(slow)
           spread == Over(Distance(x, y), y)
           confidence == ConfidenceFrom(spread, Ratio(1, 50))
<1>1. Closes(bs) \in Seq(Fraction) /\ Len(Closes(bs)) = Len(bs) /\ Closes(bs) \in Seq(Numbers)
    BY PricesAre, NotNegativeSeq
<1>2. EmaCross(bs, p) \in {Signal("BUY", confidence), Signal("SELL", confidence), Hold}
    BY DEF EmaCross
<1>3. a \in Nat /\ a > 0 /\ b \in Nat /\ b > 0
    OBVIOUS
<1> HIDE DEF a, b
<1>4. fast \in Seq(Numbers) /\ Len(fast) = Len(bs) /\ slow \in Seq(Numbers) /\ Len(slow) = Len(bs)
    BY <1>1, <1>3, EmaIs
<1> HIDE DEF fast, slow
<1>5. x \in Numbers /\ y \in Numbers
    BY <1>4, LastIs
<1> HIDE DEF x, y
<1>6. spread \in Numbers
    BY <1>5, LargerOfNumbers, NumbersClosed
<1>7. Ratio(1, 50) \in Numbers
    BY RatiosAre, FractionsAre
<1>8. Between(Zero, confidence, One)
    BY <1>6, <1>7, ConfidenceIs
<1> HIDE DEF confidence
<1> QED BY <1>2, <1>8, SignalsAre

LEMMA BollingerSure ==
    ASSUME NEW bs \in Seq(Candles), Len(bs) > 0, NEW p, Count(p, "period") \in Nat /\ Count(p, "period") > 0
    PROVE  Sure(BollingerReversion(bs, p))
<1> DEFINE period == Count(p, "period")
           price == Closes(bs)
           middle == Sma(price, period)
           square(z) == Times(z, z)
           away == Minus(LastOf(price), LastOf(middle))
           band == Times(square(Num(p, "multiplier")), LastOf(Variance(price, period)))
           confidence == CASE band = Zero -> ConfidenceFrom(away, Zero)
                           [] Less(Zero, band) /\ square(away) = band -> Zero
                           [] Less(Zero, band) /\ AtMost(Times(Ratio(9, 4), band), square(away)) -> One
                           [] OTHER -> Ratio(1, 2)
           part == Ratio(3, 10)
<1>1. BollingerReversion(bs, p) \in {Signal("BUY", confidence), Signal("SELL", confidence),
                                     Signal("SELL", part), Hold}
    BY DEF BollingerReversion
<1>2. price \in Seq(Fraction) /\ Len(price) = Len(bs)
    BY PricesAre, NotNegativeSeq
<1>3. period \in Nat /\ period > 0
    OBVIOUS
<1> HIDE DEF period
<1>4. middle \in Seq(Numbers) /\ Len(middle) = Len(bs) /\ price \in Seq(Numbers)
    BY <1>2, <1>3, AveragesAre, FractionsAre DEF Valid
<1> HIDE DEF middle, price
<1>5. away \in Numbers
    BY <1>2, <1>4, LastIs, NumbersClosed
<1>6. confidence \in {ConfidenceFrom(away, Zero), Zero, One, Ratio(1, 2)}
    OBVIOUS
<1> HIDE DEF away, confidence, band
<1>7. Zero \in Numbers
    BY ConstantsAre, FractionsAre
<1>8. Between(Zero, ConfidenceFrom(away, Zero), One)
    BY <1>5, <1>7, ConfidenceIs
<1>9. Between(Zero, confidence, One) /\ Between(Zero, part, One)
    BY <1>6, <1>8, ShareRange
<1> HIDE DEF part
<1> QED BY <1>1, <1>9, SignalsAre

LEMMA StochasticSure ==
    ASSUME NEW bs \in Seq(Candles), Len(bs) > 0, NEW p, Count(p, "period") \in Nat /\ Count(p, "period") > 0,
           Num(p, "oversold") \in Fraction, Num(p, "overbought") \in Fraction
    PROVE  Sure(StochasticCross(bs, p))
<1> DEFINE period == Count(p, "period")
           k == StochasticK(bs, period)
           current == LastOf(k)
           below == Num(p, "oversold")
           above == Num(p, "overbought")
           buy == ConfidenceFrom(Minus(below, current), below)
           sell == ConfidenceFrom(Minus(current, above), Minus(Hundred, above))
<1>1. StochasticCross(bs, p) \in {Signal("BUY", buy), Signal("SELL", sell), Hold}
    BY DEF StochasticCross
<1>2. k \in Seq(Numbers) /\ Len(k) = Len(bs)
    BY StochasticIs DEF Kept, Valid
<1> HIDE DEF k
<1>3. current \in Numbers
    BY <1>2, LastIs
<1> HIDE DEF current
<1>4. below \in Numbers /\ above \in Numbers /\ Hundred \in Numbers
    BY ConstantsAre, FractionsAre
<1> HIDE DEF below, above
<1>5. /\ Minus(below, current) \in Numbers /\ Minus(current, above) \in Numbers
      /\ Minus(Hundred, above) \in Numbers
    BY <1>3, <1>4, NumbersClosed
<1>6. Between(Zero, buy, One) /\ Between(Zero, sell, One)
    BY <1>4, <1>5, ConfidenceIs
<1> HIDE DEF buy, sell
<1> QED BY <1>1, <1>6, SignalsAre

(* The range of the candles before the last one.                            *)
LEMMA ChannelRange ==
    ASSUME NEW bs \in Seq(Candles), NEW period \in Nat, period > 0, Len(bs) >= period + 1
    PROVE  LET channel == Channel(bs, period)
           IN channel.upper \in Fraction /\ channel.lower \in Fraction
<1>1. Len(bs) \in Nat /\ Len(bs) - 1 \in 1 .. Len(bs) /\ period <= Len(bs) - 1
    BY SeqParts
<1> DEFINE w == Window(bs, Len(bs) - 1, period)
<1>2. w \in Seq(Candles) /\ Len(w) = period
    BY <1>1, WindowIs
<1>3. Channel(bs, period).upper = Highest(Highs(w)) /\ Channel(bs, period).lower = Lowest(Lows(w))
    BY DEF Channel
<1> HIDE DEF w
<1>4. /\ Highs(w) \in Seq(Fraction) /\ Lows(w) \in Seq(Fraction)
      /\ Len(Highs(w)) = Len(w) /\ Len(Lows(w)) = Len(w)
    BY <1>2, PricesAre, NotNegativeSeq
<1> QED BY <1>2, <1>3, <1>4, HighestOf

LEMMA DonchianSure ==
    ASSUME NEW bs \in Seq(Candles), Len(bs) > 0, NEW p, Count(p, "period") \in Nat /\ Count(p, "period") > 0
    PROVE  Sure(DonchianBreakout(bs, p))
<1> DEFINE period == Count(p, "period")
           channel == Channel(bs, period)
           upper == channel.upper
           lower == channel.lower
           price == LastOf(Closes(bs))
           buy == ConfidenceFrom(Over(Minus(price, upper), upper), Ratio(1, 100))
           sell == ConfidenceFrom(Over(Minus(lower, price), lower), Ratio(1, 100))
<1>1. /\ DonchianBreakout(bs, p) \in {Signal("BUY", buy), Signal("SELL", sell), Hold}
      /\ Len(bs) < period + 2 => DonchianBreakout(bs, p) = Hold
    BY DEF DonchianBreakout
<1>2. period \in Nat /\ period > 0 /\ Len(bs) \in Nat
    BY SeqParts
<1>3. CASE Len(bs) < period + 2
    BY <1>1, <1>3, SignalsAre
<1>4. CASE ~(Len(bs) < period + 2)
    <2> HIDE DEF period
    <2>1. upper \in Fraction /\ lower \in Fraction
        BY <1>2, <1>4, ChannelRange
    <2>2. Closes(bs) \in Seq(Numbers) /\ Len(Closes(bs)) = Len(bs)
        BY PricesAre, NotNegativeSeq
    <2>3. price \in Numbers
        BY <2>2, LastIs
    <2> HIDE DEF upper, lower, price
    <2>4. upper \in Numbers /\ lower \in Numbers /\ Ratio(1, 100) \in Numbers
        BY <2>1, RatiosAre, FractionsAre
    <2>5. Over(Minus(price, upper), upper) \in Numbers /\ Over(Minus(lower, price), lower) \in Numbers
        BY <2>3, <2>4, NumbersClosed
    <2>6. Between(Zero, buy, One) /\ Between(Zero, sell, One)
        BY <2>4, <2>5, ConfidenceIs
    <2> HIDE DEF buy, sell
    <2> QED BY <1>1, <2>6, SignalsAre
<1> QED BY <1>3, <1>4

LEMMA SupertrendSure ==
    ASSUME NEW bs, NEW p
    PROVE  Sure(Supertrend(bs, p))
<1> DEFINE x == Ratio(7, 10)
<1>1. Supertrend(bs, p) \in {Signal("BUY", x), Signal("SELL", x), Hold}
    BY DEF Supertrend
<1>2. Between(Zero, x, One)
    BY ShareRange
<1> HIDE DEF x
<1> QED BY <1>1, <1>2, SignalsAre

(* The fall from the peak, in steps.                                        *)
LEMMA GridSure ==
    ASSUME NEW bs \in Seq(Candles), Len(bs) > 0, NEW p, Count(p, "lookback") \in Nat /\ Count(p, "lookback") > 0,
           Num(p, "stepPercent") \in Positive, Num(p, "maxLevels") \in Fraction
    PROVE  Sure(GridDca(bs, p))
<1> DEFINE n == Len(bs)
           period == Count(p, "lookback")
           w == Window(bs, n, period)
           peak == Highest(Highs(Window(bs, n, period)))
           drop == Times(Over(Minus(peak, Whole(bs[n].close)), peak), Hundred)
           steps == Over(drop, Num(p, "stepPercent"))
           most == Num(p, "maxLevels")
           level == Lesser(Whole(steps[1] \div steps[2]), most)
           buy == ConfidenceFrom(level, most)
<1>1. GridDca(bs, p) \in {Signal("BUY", buy), Hold}
    BY DEF GridDca
<1>2. n \in Nat /\ n > 0 /\ period \in Nat /\ period > 0
    BY SeqParts
<1>3. n < period => GridDca(bs, p) = Hold
    BY <1>2 DEF GridDca
<1>4. CASE n < period
    BY <1>3, <1>4, SignalsAre
<1>5. CASE n >= period
    <2> HIDE DEF period
    <2>1. n \in 1 .. Len(bs) /\ period <= n
        BY <1>2, <1>5
    <2>2. w \in Seq(Candles) /\ Len(w) = period
        BY <1>2, <2>1, WindowIs
    <2>3. \A i \in 1 .. period : Highs(w)[i] \in Positive
        <3> SUFFICES ASSUME NEW i \in 1 .. period PROVE Highs(w)[i] \in Positive
            OBVIOUS
        <3>1. w[i].high \in Nat /\ w[i].low > 0 /\ w[i].low <= w[i].close /\ w[i].close <= w[i].high
              /\ w[i].low \in Nat /\ w[i].close \in Nat
            BY <2>2, CandleIs
        <3>2. w[i].high > 0
            BY <3>1
        <3>3. Highs(w)[i] = Whole(w[i].high)
            BY <2>2, PricesAre
        <3>4. \A x \in Nat : x > 0 => Whole(x) \in Positive
            BY WholesAre
        <3> QED BY <3>1, <3>2, <3>3, <3>4
    <2>4. Highs(w) \in Seq(Fraction) /\ Len(Highs(w)) = period
        BY <2>2, PricesAre, NotNegativeSeq
    <2> HIDE DEF w
    <2>5. peak = Highest(Highs(w))
        BY DEF w
    <2>6. peak \in Positive
        <3>1. \E j \in 1 .. Len(Highs(w)) : Highest(Highs(w)) = Highs(w)[j]
            BY <1>2, <2>4, HighestIs
        <3> QED BY <2>3, <2>4, <2>5, <3>1
    <2> HIDE DEF peak
    <2>7. Whole(bs[n].close) \in Fraction
        <3>1. bs[n].close \in Nat
            BY <2>1, CandleIs
        <3>2. \A x \in Nat : Whole(x) \in Fraction
            BY WholesAre
        <3> QED BY <3>1, <3>2
    <2>8. peak \in Fraction /\ Hundred \in Fraction
        BY <2>6, ConstantsAre DEF Positive
    <2> DEFINE x == Minus(peak, Whole(bs[n].close))
    <2>9. x \in Fraction
        BY <2>7, <2>8, FractionsAre
    <2> HIDE DEF x
    <2>10. drop \in Fraction
        <3>1. drop = Times(Over(x, peak), Hundred)
            BY DEF x
        <3>2. Over(x, peak) \in Fraction
            BY <2>6, <2>9, OverLaws
        <3> QED BY <2>8, <3>1, <3>2, FractionsAre
    <2> HIDE DEF drop
    <2>11. steps \in Fraction
        BY <2>10, OverLaws
    <2> HIDE DEF steps
    <2>12. steps[1] \div steps[2] \in Int
        <3>1. steps[1] \in Int /\ steps[2] \in Nat /\ steps[2] # 0
            BY <2>11, FractionIs
        <3> QED BY <3>1
    <2>13. Whole(steps[1] \div steps[2]) \in Fraction
        BY <2>12, WholesAre
    <2>14. level \in Fraction
        <3>1. level \in {Whole(steps[1] \div steps[2]), most}
            BY <2>13, Larger
        <3> QED BY <2>13, <3>1
    <2> HIDE DEF level, most
    <2>15. level \in Numbers /\ most \in Numbers
        BY <2>14, FractionsAre DEF most
    <2>16. Between(Zero, buy, One)
        BY <2>15, ConfidenceIs
    <2> HIDE DEF buy
    <2> QED BY <1>1, <2>16, SignalsAre
<1> QED BY <1>2, <1>4, <1>5

(* The share of the conditions of a group that pass.                        *)
LEMMA JudgedSure ==
    ASSUME NEW g, IsGroup(g), NEW results, DOMAIN results = DOMAIN g.conditions, NEW action,
           NEW otherwise, Sure(otherwise)
    PROVE  Sure(Judged(g, results, action, otherwise))
<1> DEFINE matched == With("passed", results)
           n == Len(g.conditions)
           x == Ratio(Cardinality(matched), n)
<1>1. /\ Judged(g, results, action, otherwise) \in {Error, Signal(action, x), otherwise}
      /\ ~GroupPasses(g, matched) => Judged(g, results, action, otherwise) \in {Error, otherwise}
    BY DEF Judged
<1>2. n \in Nat /\ DOMAIN g.conditions = 1 .. n
    BY ReadableAll
<1>3. matched \subseteq 1 .. n
    BY <1>2 DEF With
<1> HIDE DEF matched, n
<1>4. CASE ~GroupPasses(g, matched)
    BY <1>1, <1>4, SignalsAre
<1>5. CASE GroupPasses(g, matched)
    <2>1. matched # {}
        BY <1>5 DEF GroupPasses
    <2>2. IsFiniteSet(1 .. n) /\ Cardinality(1 .. n) = n
        BY <1>2, FS_Interval
    <2>3. IsFiniteSet(matched) /\ Cardinality(matched) <= n
        BY <1>3, <2>2, FS_Subset
    <2>4. Cardinality(matched) \in Nat
        BY <2>3, FS_CardinalityType
    <2>5. n # 0
        <3>1. CASE n = 0
            <4>1. 1 .. n = {}
                BY <3>1
            <4> QED BY <1>3, <2>1, <4>1
        <3> QED BY <3>1
    <2>6. Between(Zero, x, One)
        BY <1>2, <2>3, <2>4, <2>5, ShareRange
    <2> HIDE DEF x
    <2> QED BY <1>1, <2>6, SignalsAre
<1> QED BY <1>4, <1>5

LEMMA CustomSure ==
    ASSUME NEW bs, NEW p, IsGroup(GroupOf(p, "entryRules")), IsGroup(GroupOf(p, "exitRules"))
    PROVE  Sure(CustomRules(bs, p))
<1> DEFINE entry == GroupOf(p, "entryRules")
           exit == GroupOf(p, "exitRules")
           a == Results(entry, bs)
           b == Results(exit, bs)
           otherwise == Judged(entry, a, "BUY", Hold)
<1>1. CustomRules(bs, p) = Judged(exit, b, "SELL", otherwise)
    BY DEF CustomRules, Decided
<1>2. DOMAIN a = DOMAIN entry.conditions /\ DOMAIN b = DOMAIN exit.conditions
    BY DEF Results
<1> HIDE DEF entry, exit, a, b
<1>3. Sure(otherwise)
    BY <1>2, SignalsAre, JudgedSure DEF entry
<1> HIDE DEF otherwise
<1>4. Sure(Judged(exit, b, "SELL", otherwise))
    BY <1>2, <1>3, JudgedSure DEF exit
<1> QED BY <1>1, <1>4

(* The periods of a bot count candles.                                      *)
LEMMA CountsAre ==
    ASSUME Configured
    PROVE  /\ key = "rsiReversal" => (Count(config, "period") \in Nat /\ Count(config, "period") > 0)
           /\ key = "macdCross" => (Count(config, "fastPeriod") \in Nat /\ Count(config, "fastPeriod") > 0) /\ (Count(config, "slowPeriod") \in Nat /\ Count(config, "slowPeriod") > 0) /\ (Count(config, "signalPeriod") \in Nat /\ Count(config, "signalPeriod") > 0)
           /\ key = "emaCross" => (Count(config, "fastPeriod") \in Nat /\ Count(config, "fastPeriod") > 0) /\ (Count(config, "slowPeriod") \in Nat /\ Count(config, "slowPeriod") > 0)
           /\ key = "bollingerReversion" => (Count(config, "period") \in Nat /\ Count(config, "period") > 0)
           /\ key = "stochasticCross" => (Count(config, "period") \in Nat /\ Count(config, "period") > 0)
           /\ key = "donchianBreakout" => (Count(config, "period") \in Nat /\ Count(config, "period") > 0)
           /\ key = "gridDca" => (Count(config, "lookback") \in Nat /\ Count(config, "lookback") > 0)
<1>1. ASSUME key = "rsiReversal"
      PROVE  /\ Count(config, "period") \in Nat /\ Count(config, "period") > 0
    <2>1. /\ Count(config, "period") \in 2 .. 100
        BY <1>1, ConfigIs DEF Length
    <2> QED BY <2>1
<1>2. ASSUME key = "macdCross"
      PROVE  /\ Count(config, "fastPeriod") \in Nat /\ Count(config, "fastPeriod") > 0
             /\ Count(config, "slowPeriod") \in Nat /\ Count(config, "slowPeriod") > 0
             /\ Count(config, "signalPeriod") \in Nat /\ Count(config, "signalPeriod") > 0
    <2>1. /\ Count(config, "fastPeriod") \in 2 .. 100
          /\ Count(config, "slowPeriod") \in 3 .. 200
          /\ Count(config, "signalPeriod") \in 2 .. 50
        BY <1>2, ConfigIs DEF Length
    <2> QED BY <2>1
<1>3. ASSUME key = "emaCross"
      PROVE  /\ Count(config, "fastPeriod") \in Nat /\ Count(config, "fastPeriod") > 0
             /\ Count(config, "slowPeriod") \in Nat /\ Count(config, "slowPeriod") > 0
    <2>1. /\ Count(config, "fastPeriod") \in 2 .. 200
          /\ Count(config, "slowPeriod") \in 3 .. 500
        BY <1>3, ConfigIs DEF Length
    <2> QED BY <2>1
<1>4. ASSUME key = "bollingerReversion"
      PROVE  /\ Count(config, "period") \in Nat /\ Count(config, "period") > 0
    <2>1. /\ Count(config, "period") \in 5 .. 100
        BY <1>4, ConfigIs DEF Length
    <2> QED BY <2>1
<1>5. ASSUME key = "stochasticCross"
      PROVE  /\ Count(config, "period") \in Nat /\ Count(config, "period") > 0
    <2>1. /\ Count(config, "period") \in 2 .. 100
        BY <1>5, ConfigIs DEF Length
    <2> QED BY <2>1
<1>6. ASSUME key = "donchianBreakout"
      PROVE  /\ Count(config, "period") \in Nat /\ Count(config, "period") > 0
    <2>1. /\ Count(config, "period") \in 3 .. 200
        BY <1>6, ConfigIs DEF Length
    <2> QED BY <2>1
<1>7. ASSUME key = "gridDca"
      PROVE  /\ Count(config, "lookback") \in Nat /\ Count(config, "lookback") > 0
    <2>1. /\ Count(config, "lookback") \in 3 .. 200
        BY <1>7, ConfigIs DEF Length
    <2> QED BY <2>1
<1> QED BY <1>1, <1>2, <1>3, <1>4, <1>5, <1>6, <1>7

LEMMA VerdictSure ==
    ASSUME Configured, NEW bs \in Seq(Candles), Len(bs) > 0
    PROVE  Sure(Verdict(key, bs, config))
<1>1. CASE key = "customRules"
    BY <1>1, GroupsAre, CustomSure DEF Verdict
<1>2. CASE key = "rsiReversal"
    <2>1. Count(config, "period") \in Nat /\ Count(config, "period") > 0
        BY <1>2, CountsAre
    <2>3. Num(config, "oversold") \in Fraction /\ Num(config, "overbought") \in Fraction
        BY <1>2, ConfigIs DEF Level
    <2>2. Sure(RsiReversal(bs, config))
        BY <2>1, <2>3, RsiSure
    <2> QED BY <1>2, <2>2 DEF Verdict
<1>3. CASE key = "macdCross"
    <2>1. /\ Count(config, "fastPeriod") \in Nat /\ Count(config, "fastPeriod") > 0 /\ Count(config, "slowPeriod") \in Nat /\ Count(config, "slowPeriod") > 0
          /\ Count(config, "signalPeriod") \in Nat /\ Count(config, "signalPeriod") > 0
        BY <1>3, CountsAre
    <2>2. Sure(MacdCross(bs, config))
        BY <2>1, MacdSure
    <2> QED BY <1>3, <2>2 DEF Verdict
<1>4. CASE key = "emaCross"
    <2>1. Count(config, "fastPeriod") \in Nat /\ Count(config, "fastPeriod") > 0 /\ Count(config, "slowPeriod") \in Nat /\ Count(config, "slowPeriod") > 0
        BY <1>4, CountsAre
    <2>2. Sure(EmaCross(bs, config))
        BY <2>1, EmaSure
    <2> QED BY <1>4, <2>2 DEF Verdict
<1>5. CASE key = "bollingerReversion"
    <2>1. Count(config, "period") \in Nat /\ Count(config, "period") > 0
        BY <1>5, CountsAre
    <2>2. Sure(BollingerReversion(bs, config))
        BY <2>1, BollingerSure
    <2> QED BY <1>5, <2>2 DEF Verdict
<1>6. CASE key = "stochasticCross"
    <2>1. Count(config, "period") \in Nat /\ Count(config, "period") > 0
        BY <1>6, CountsAre
    <2>3. Num(config, "oversold") \in Fraction /\ Num(config, "overbought") \in Fraction
        BY <1>6, ConfigIs DEF Level
    <2>2. Sure(StochasticCross(bs, config))
        BY <2>1, <2>3, StochasticSure
    <2> QED BY <1>6, <2>2 DEF Verdict
<1>7. CASE key = "donchianBreakout"
    <2>1. Count(config, "period") \in Nat /\ Count(config, "period") > 0
        BY <1>7, CountsAre
    <2>2. Sure(DonchianBreakout(bs, config))
        BY <2>1, DonchianSure
    <2> QED BY <1>7, <2>2 DEF Verdict
<1>8. CASE key = "supertrend"
    <2>1. Sure(Supertrend(bs, config))
        BY SupertrendSure
    <2> QED BY <1>8, <2>1 DEF Verdict
<1>9. CASE key = "gridDca"
    <2>1. Count(config, "lookback") \in Nat /\ Count(config, "lookback") > 0
        BY <1>9, CountsAre
    <2>3. Num(config, "maxLevels") \in Fraction /\ Num(config, "stepPercent") \in Fraction /\ AtMost(Ratio(1, 10), Num(config, "stepPercent"))
        BY <1>9, ConfigIs DEF Level
    <2>2. Num(config, "stepPercent") \in Positive
        <3>1. Ratio(1, 10) \in Fraction /\ Ratio(1, 10) \in Positive
            BY RatiosAre
        <3>2. Zero \in Fraction /\ Less(Zero, Ratio(1, 10))
            BY <3>1, ConstantsAre, PositiveIs
        <3>3. Less(Zero, Num(config, "stepPercent"))
            BY <2>3, <3>1, <3>2, LessPasses
        <3> QED BY <2>3, <3>3, PositiveIs
    <2>4. Sure(GridDca(bs, config))
        BY <2>1, <2>2, <2>3, GridSure
    <2> QED BY <1>9, <2>4 DEF Verdict
<1> QED BY <1>1, <1>2, <1>3, <1>4, <1>5, <1>6, <1>7, <1>8, <1>9 DEF Configured, Library

(* The candles that a bot is evaluated on.                                  *)
LEMMA EvaluatedOn ==
    ASSUME StrategiesInv, Len(bars) >= Required(key, config)
    PROVE  LET n == Required(key, config)
               w == Window(bars, Len(bars), n)
           IN /\ n \in Nat /\ n > 0 /\ Len(bars) \in Nat
              /\ w \in Seq(Candles) /\ Len(w) = n /\ Part(w, bars, Len(bars) - n)
              /\ signal = Verdict(key, w, config)
<1> DEFINE n == Required(key, config)
           w == Window(bars, Len(bars), n)
           d == Len(bars) - n
<1>1. bars \in Seq(Candles) /\ Len(bars) \in Nat /\ Configured /\ signal = Evaluate(key, bars, config)
    BY SeqParts DEF StrategiesInv
<1>2. n \in Nat /\ n > 0
    BY <1>1, RequiredIs
<1>3. signal = Verdict(key, w, config)
    BY <1>1, <1>2 DEF Evaluate
<1>4. n <= Len(bars)
    BY <1>1, <1>2
<1> HIDE DEF n
<1>5. Len(bars) \in 1 .. Len(bars)
    BY <1>1, <1>2, <1>4
<1>6. /\ w \in Seq(Candles) /\ Len(w) = n
      /\ \A j \in 1 .. n : w[j] = bars[(Len(bars) - n) + j]
    BY <1>1, <1>2, <1>4, <1>5, WindowIs
<1> HIDE DEF w
<1>7. Part(w, bars, d)
    BY <1>1, <1>2, <1>4, <1>6 DEF Part
<1> QED BY <1>1, <1>2, <1>3, <1>6, <1>7 DEF n, w

(* Confidences are shares and what is shown is in its range, for every      *)
(* configuration that is accepted and every sequence of candles.            *)
LEMMA NumbersHold ==
    StrategiesInv => NumbersStayInRange
<1> SUFFICES ASSUME StrategiesInv PROVE NumbersStayInRange
    OBVIOUS
<1>1. Sure(signal)
    <2>1. /\ Configured /\ signal = Evaluate(key, bars, config)
          /\ Required(key, config) \in Nat /\ Len(bars) \in Nat
        BY RequiredIs, SeqParts DEF StrategiesInv
    <2>2. CASE Len(bars) < Required(key, config)
        BY <2>1, <2>2, SignalsAre DEF Evaluate
    <2>3. CASE ~(Len(bars) < Required(key, config))
        <3> DEFINE n == Required(key, config)
                   w == Window(bars, Len(bars), n)
        <3>1. n > 0 /\ w \in Seq(Candles) /\ Len(w) = n /\ signal = Verdict(key, w, config)
            BY <2>1, <2>3, EvaluatedOn
        <3> HIDE DEF n, w
        <3> QED BY <2>1, <3>1, VerdictSure
    <2> QED BY <2>2, <2>3
<1>2. \A o \in Followed(Bounded) : Inside(RangeOf(o.name), Shown(o, Chart))
    BY RangesHold
<1> QED BY <1>1, <1>2 DEF NumbersStayInRange, Sure

(* The confidence of a signal lies between 0 and 1 and every bounded        *)
(* indicator in its range, in a market that does not move too.              *)
THEOREM NumbersStayInRangeAlways == Spec => []NumbersStayInRange
BY StrategiesInvariant, NumbersHold, PTL

(* The moving place and the deviation, on a part of the candles.            *)
LEMMA StochasticPart ==
    ASSUME NEW b \in Seq(Candles), NEW c \in Seq(Candles), NEW d, Part(b, c, d),
           NEW period \in Nat, period > 0, NEW smoothing \in Nat, smoothing > 0,
           NEW i \in 1 .. Len(b)
    PROVE  /\ i >= period => StochasticK(b, period)[i] = StochasticK(c, period)[d + i]
           /\ i >= (period + smoothing) - 1 =>
                 StochasticD(StochasticK(b, period), smoothing)[i] =
                     StochasticD(StochasticK(c, period), smoothing)[d + i]
<1> DEFINE k == StochasticK(b, period)
           l == StochasticK(c, period)
<1>1. /\ d \in Nat /\ Len(b) \in Nat /\ Len(c) \in Nat /\ Len(b) + d <= Len(c)
      /\ \A j \in 1 .. Len(b) : d + j \in 1 .. Len(c)
    BY PartIs
<1>2. /\ Valid(k, period) /\ k \in Seq(Numbers) /\ Len(k) = Len(b)
      /\ \A j \in 1 .. Len(b) : j >= period => k[j] = Times(Place(b, j, period), Hundred)
    BY StochasticIs DEF Kept, Valid
<1>3. /\ Valid(l, period) /\ l \in Seq(Numbers) /\ Len(l) = Len(c)
      /\ \A j \in 1 .. Len(c) : j >= period => l[j] = Times(Place(c, j, period), Hundred)
    BY StochasticIs DEF Kept, Valid
<1> HIDE DEF k, l
<1>4. ASSUME NEW j \in 1 .. Len(b), j >= period PROVE k[j] = l[d + j]
    <2>1. Place(b, j, period) = Place(c, d + j, period)
        BY <1>4, PlacePart
    <2>2. d + j \in 1 .. Len(c) /\ d + j >= period
        BY <1>1, <1>4
    <2> QED BY <1>2, <1>3, <1>4, <2>1, <2>2
<1>5. ASSUME i >= (period + smoothing) - 1
      PROVE  StochasticD(k, smoothing)[i] = StochasticD(l, smoothing)[d + i]
    <2> DEFINE x == Existing(k)
               y == Existing(l)
               n == Len(b)
               m == Len(c)
               r == (i - period) + 1
    <2>1. n \in Nat /\ m \in Nat /\ n + d <= m /\ d \in Nat /\ i \in 1 .. n /\ i >= period
        BY <1>1, <1>5
    <2>2. /\ x \in Seq(Fraction) /\ Len(x) = (n - period) + 1
          /\ \A j \in 1 .. Len(x) : x[j] = k[(period + j) - 1]
        BY <1>2, <2>1, ExistingIs
    <2>3. /\ y \in Seq(Fraction) /\ Len(y) = (m - period) + 1
          /\ \A j \in 1 .. Len(y) : y[j] = l[(period + j) - 1]
        <3>1. period <= m
            BY <2>1
        <3>2. period <= Len(l) /\ Len(l) = m
            BY <1>3, <3>1
        <3> HIDE DEF m, n
        <3> QED BY <1>3, <3>2, ExistingIs
    <2>4. \A j \in 1 .. n : j >= period => k[j] = l[d + j]
        BY <1>4
    <2> HIDE DEF x, y, n, m
    <2>5. Len(x) + d <= Len(y)
        BY <2>1, <2>2, <2>3
    <2>6. ASSUME NEW j \in 1 .. Len(x) PROVE x[j] = y[d + j]
        <3>1. /\ (period + j) - 1 \in 1 .. n /\ (period + j) - 1 >= period
              /\ d + j \in 1 .. Len(y) /\ d + ((period + j) - 1) = (period + (d + j)) - 1
            BY <2>1, <2>2, <2>3
        <3>2. k[(period + j) - 1] = l[d + ((period + j) - 1)]
            BY <2>4, <3>1
        <3>3. y[d + j] = l[(period + (d + j)) - 1]
            BY <2>3, <3>1
        <3> QED BY <2>2, <3>1, <3>2, <3>3
    <2>7. Part(x, y, d)
        BY <2>1, <2>5, <2>6 DEF Part
    <2>8. r \in 1 .. Len(x) /\ r >= smoothing /\ ((d + i) - period) + 1 = d + r
        BY <1>5, <2>1, <2>2
    <2> DEFINE u == Sma(x, smoothing)
               v == Sma(y, smoothing)
    <2>9. Valid(u, smoothing) /\ Len(u) = Len(x) /\ Valid(v, smoothing) /\ Len(v) = Len(y)
        BY <2>2, <2>3, AveragesAre
    <2> HIDE DEF r
    <2>10. u[r] = v[d + r]
        BY <2>2, <2>3, <2>7, <2>8, SmaPart
    <2> HIDE DEF u, v
    <2>11. Len(u) = Len(Existing(k)) /\ Len(v) = Len(Existing(l))
        BY <2>9 DEF x, y
    <2>12. \A j \in 1 .. Len(k) : j >= period => InPlace(u, k)[j] = u[(j - period) + 1]
        BY <1>2, <2>9, <2>11, InPlaceIs
    <2>13. \A j \in 1 .. Len(l) : j >= period => InPlace(v, l)[j] = v[(j - period) + 1]
        BY <1>3, <2>9, <2>11, InPlaceIs
    <2>14. i \in 1 .. Len(k) /\ d + i \in 1 .. Len(l) /\ d + i >= period
        BY <1>2, <1>3, <2>1 DEF n, m
    <2>15. InPlace(u, k)[i] = u[r]
        BY <2>1, <2>12, <2>14 DEF r
    <2>16. InPlace(v, l)[d + i] = v[((d + i) - period) + 1]
        BY <2>13, <2>14
    <2> QED BY <2>8, <2>10, <2>15, <2>16 DEF StochasticD, u, v, x, y
<1> QED BY <1>4, <1>5 DEF k, l

LEMMA VariancePart ==
    ASSUME NEW s \in Seq(Fraction), NEW t \in Seq(Fraction), NEW d, Part(s, t, d),
           NEW period \in Nat, period > 0, NEW i \in 1 .. Len(s), i >= period
    PROVE  Variance(s, period)[i] = Variance(t, period)[d + i]
<1>1. /\ d \in Nat /\ Len(s) \in Nat /\ Len(t) \in Nat
      /\ d + i \in 1 .. Len(t) /\ DOMAIN s = 1 .. Len(s) /\ DOMAIN t = 1 .. Len(t)
    BY PartIs
<1>2. Sma(s, period)[i] = Sma(t, period)[d + i]
    BY SmaPart
<1>3. Window(s, i, period) = Window(t, d + i, period)
    BY WindowPart
<1>4. ~(i < period) /\ ~(d + i < period)
    BY <1>1
<1> QED BY <1>1, <1>2, <1>3, <1>4 DEF Variance

(* An indicator that looks at a window, on a part of the candles.           *)
LEMMA IndicatorPart ==
    ASSUME NEW b \in Seq(Candles), NEW c \in Seq(Candles), NEW d, Part(b, c, d),
           NEW o, o.type = "indicator", Known(o), o.name \in Windowed,
           NEW i \in 1 .. Len(b), i >= Reach(o)
    PROVE  IndicatorSeries(o, b)[i] = IndicatorSeries(o, c)[d + i]
<1> DEFINE period == Param(o, "period")
           smoothing == Param(o, "smoothing")
<1>1. /\ Closes(b) \in Seq(Fraction) /\ Closes(c) \in Seq(Fraction) /\ Part(Closes(b), Closes(c), d)
      /\ Volumes(b) \in Seq(Fraction) /\ Volumes(c) \in Seq(Fraction) /\ Part(Volumes(b), Volumes(c), d)
      /\ Len(Closes(b)) = Len(b) /\ Len(Volumes(b)) = Len(b)
    BY PricesAre, PricesPart, NotNegativeSeq
<1>2. i \in 1 .. Len(Closes(b)) /\ i \in 1 .. Len(Volumes(b))
    BY <1>1
<1>3. CASE o.name # "STOCHASTIC"
    <2>1. o.name \in {"SMA", "CCI", "WILLIAMS_R", "MFI", "ROC", "VWAP", "VOLUME"}
        BY <1>3 DEF Windowed
    <2>2. period \in Nat /\ period > 0
        BY <2>1, KnownIs DEF Settled
    <2>3. i >= period + 1 /\ i \in Nat
        BY <1>3 DEF Reach
    <2> DEFINE q == period
    <2>4. q \in Nat /\ q > 0 /\ i > q /\ i >= q
        BY <2>2, <2>3
    <2> HIDE DEF q
    <2>5. CASE o.name = "SMA"
        <3>1. Sma(Closes(b), q)[i] = Sma(Closes(c), q)[d + i]
            BY <1>1, <1>2, <2>4, SmaPart
        <3> QED BY <2>5, <3>1, IndicatorIs DEF q
    <2>6. CASE o.name = "CCI"
        <3>1. Cci(b, q)[i] = Cci(c, q)[d + i]
            BY <2>4, CciPart
        <3> QED BY <2>6, <3>1, IndicatorIs DEF q
    <2>7. CASE o.name = "WILLIAMS_R"
        <3>1. Place(b, i, q) = Place(c, d + i, q)
            BY <2>4, PlacePart
        <3>2. d + i \in 1 .. Len(c) /\ d + i >= q
            BY <2>4, PartIs
        <3>3. WilliamsR(b, q)[i] = WilliamsR(c, q)[d + i]
            BY <2>4, <3>1, <3>2, WilliamsIs
        <3> QED BY <2>7, <3>3, IndicatorIs DEF q
    <2>8. CASE o.name = "MFI"
        <3>1. Mfi(b, q)[i] = Mfi(c, q)[d + i]
            BY <2>4, MfiPart
        <3> QED BY <2>8, <3>1, IndicatorIs DEF q
    <2>9. CASE o.name = "ROC"
        <3>1. Roc(Closes(b), q)[i] = Roc(Closes(c), q)[d + i]
            BY <1>1, <1>2, <2>4, RocPart
        <3> QED BY <2>9, <3>1, IndicatorIs DEF q
    <2>10. CASE o.name = "VWAP"
        <3>1. Vwap(b, q)[i] = Vwap(c, q)[d + i]
            BY <2>4, VwapPart
        <3> QED BY <2>10, <3>1, IndicatorIs DEF q
    <2>11. CASE o.name = "VOLUME"
        <3>1. OutputOf(o) \in {"value", "average"}
            BY <2>11, KnownIs DEF Settled
        <3>2. Volumes(b)[i] = Volumes(c)[d + i]
            BY <1>1, <1>2, PartIs
        <3>3. Sma(Volumes(b), q)[i] = Sma(Volumes(c), q)[d + i]
            BY <1>1, <1>2, <2>4, SmaPart
        <3>4. CASE OutputOf(o) = "value"
            <4>1. \A x : IndicatorSeries(o, x) = Volumes(x)
                BY <2>11, <3>4, OutputIs
            <4> QED BY <3>2, <4>1
        <3>5. CASE OutputOf(o) = "average"
            <4>1. \A x : IndicatorSeries(o, x) = Sma(Volumes(x), q)
                BY <2>11, <3>5, OutputIs DEF q
            <4> QED BY <3>3, <4>1
        <3> QED BY <3>1, <3>4, <3>5
    <2> QED BY <2>1, <2>5, <2>6, <2>7, <2>8, <2>9, <2>10, <2>11
<1>4. CASE o.name = "STOCHASTIC"
    <2>1. period \in Nat /\ period > 0 /\ smoothing \in Nat /\ smoothing > 0 /\ OutputOf(o) \in {"k", "d"}
        BY <1>4, KnownIs DEF Settled
    <2>2. i >= period + smoothing /\ i \in Nat
        BY <1>4 DEF Reach
    <2> HIDE DEF period, smoothing
    <2>3. i >= period /\ i >= (period + smoothing) - 1
        BY <2>1, <2>2
    <2>4. /\ StochasticK(b, period)[i] = StochasticK(c, period)[d + i]
          /\ StochasticD(StochasticK(b, period), smoothing)[i] =
                 StochasticD(StochasticK(c, period), smoothing)[d + i]
        BY <2>1, <2>3, StochasticPart
    <2>5. CASE OutputOf(o) = "k"
        <3>1. \A x : IndicatorSeries(o, x) = StochasticK(x, period)
            BY <1>4, <2>5, OutputIs DEF period
        <3> QED BY <2>4, <3>1
    <2>6. CASE OutputOf(o) = "d"
        <3>1. \A x : IndicatorSeries(o, x) = StochasticD(StochasticK(x, period), smoothing)
            BY <1>4, <2>6, OutputIs DEF period, smoothing
        <3> QED BY <2>4, <3>1
    <2> QED BY <2>1, <2>5, <2>6
<1> QED BY <1>3, <1>4

(* A strategy that looks at a window says the same on a part of the candles *)
(* that ends with them.                                                     *)
Ends(b, c, d) ==
    b \in Seq(Candles) /\ c \in Seq(Candles) /\ Part(b, c, d) /\ Len(b) + d = Len(c) /\ Len(b) > 1

LEMMA EndsAre ==
    ASSUME NEW b, NEW c, NEW d, Ends(b, c, d)
    PROVE  /\ b \in Seq(Candles) /\ c \in Seq(Candles) /\ Part(b, c, d)
           /\ Len(b) \in Nat /\ Len(c) \in Nat /\ d \in Nat /\ Len(b) > 1 /\ Len(c) > 1
           /\ Len(b) \in 1 .. Len(b) /\ Len(b) - 1 \in 1 .. Len(b)
           /\ d + Len(b) = Len(c) /\ d + (Len(b) - 1) = Len(c) - 1
<1> DEFINE n == Len(b)
           m == Len(c)
<1>1. b \in Seq(Candles) /\ c \in Seq(Candles) /\ Part(b, c, d)
    BY DEF Ends
<1>2. n \in Nat /\ m \in Nat /\ d \in Nat /\ n + d = m /\ n > 1
    BY <1>1, PartIs DEF Ends
<1> HIDE DEF n, m
<1>3. /\ m > 1 /\ n \in 1 .. n /\ n - 1 \in 1 .. n
      /\ d + n = m /\ d + (n - 1) = m - 1
    BY <1>2
<1> QED BY <1>1, <1>2, <1>3 DEF n, m

(* Two series that end alike.                                               *)
Alike(s, t) ==
    /\ Len(s) \in Nat /\ Len(t) \in Nat /\ Len(s) > 1 /\ Len(t) > 1
    /\ s[Len(s)] = t[Len(t)] /\ s[Len(s) - 1] = t[Len(t) - 1]

LEMMA AlikeIs ==
    ASSUME NEW n \in Nat, n > 1, NEW m \in Nat, m > 1, NEW s, NEW t, Len(s) = n, Len(t) = m,
           s[n] = t[m], s[n - 1] = t[m - 1]
    PROVE  Alike(s, t)
BY DEF Alike

LEMMA CrossedAlike ==
    ASSUME NEW s, NEW t, Alike(s, t), NEW x, NEW y, Alike(x, y), Len(x) = Len(s), Len(y) = Len(t)
    PROVE  /\ LastOf(s) = LastOf(t) /\ LastOf(x) = LastOf(y)
           /\ CrossedAbove(s, x) <=> CrossedAbove(t, y)
           /\ CrossedBelow(s, x) <=> CrossedBelow(t, y)
BY DEF Alike, CrossedAbove, CrossedBelow, LastOf

LEMMA BollingerSame ==
    ASSUME NEW b, NEW c, NEW d, Ends(b, c, d), NEW p,
           Count(p, "period") \in Nat /\ Count(p, "period") > 0, Len(b) > Count(p, "period")
    PROVE  BollingerReversion(b, p) = BollingerReversion(c, p)
<1> DEFINE n == Len(b)
           m == Len(c)
           period == Count(p, "period")
           s == Closes(b)
           t == Closes(c)
           x == Sma(s, period)
           y == Sma(t, period)
<1>1. /\ b \in Seq(Candles) /\ c \in Seq(Candles) /\ Part(b, c, d)
      /\ n \in Nat /\ m \in Nat /\ d \in Nat /\ n > 1 /\ m > 1
      /\ n \in 1 .. n /\ n - 1 \in 1 .. n /\ d + n = m /\ d + (n - 1) = m - 1
    BY EndsAre
<1>2. /\ s \in Seq(Fraction) /\ t \in Seq(Fraction) /\ Part(s, t, d) /\ Len(s) = n /\ Len(t) = m
    BY <1>1, PricesAre, PricesPart, NotNegativeSeq
<1>3. period \in Nat /\ period > 0 /\ n > period
    OBVIOUS
<1> HIDE DEF n, m, s, t, period
<1>4. n >= period /\ n - 1 >= period
    BY <1>1, <1>3
<1>5. Len(x) = n /\ Len(y) = m
    BY <1>2, <1>3, AveragesAre
<1> DEFINE k == n - 1
<1>7. k \in 1 .. Len(s) /\ k >= period /\ n \in 1 .. Len(s)
    BY <1>1, <1>2, <1>4
<1> HIDE DEF k
<1>6. s[n] = t[d + n] /\ s[k] = t[d + k]
    <2>1. \A j \in 1 .. Len(s) : s[j] = t[d + j]
        BY <1>2, PartIs
    <2> QED BY <1>7, <2>1
<1>8. x[n] = y[d + n] /\ x[k] = y[d + k]
    BY <1>2, <1>3, <1>4, <1>7, SmaPart
<1>9. Variance(s, period)[n] = Variance(t, period)[d + n]
    BY <1>2, <1>3, <1>4, <1>7, VariancePart
<1> HIDE DEF x, y
<1>10. s[n] = t[m] /\ s[n - 1] = t[m - 1] /\ x[n] = y[m] /\ x[n - 1] = y[m - 1]
    BY <1>1, <1>6, <1>8 DEF k
<1>11. Alike(s, t) /\ Alike(x, y)
    BY <1>1, <1>2, <1>5, <1>10, AlikeIs
<1>12. /\ LastOf(s) = LastOf(t) /\ LastOf(x) = LastOf(y)
       /\ CrossedAbove(s, x) <=> CrossedAbove(t, y)
    BY <1>2, <1>5, <1>11, CrossedAlike
<1> DEFINE u == LastOf(Variance(s, period))
           v == LastOf(Variance(t, period))
<1>13. u = v
    <2>1. Len(Variance(s, period)) = n /\ Len(Variance(t, period)) = m
        <3>1. DOMAIN s = 1 .. n /\ DOMAIN t = 1 .. m
            BY <1>1, <1>2, SeqParts
        <3> QED BY <1>1, <3>1, TabledLength DEF Variance
    <2> QED BY <1>1, <1>9, <2>1 DEF LastOf
<1> QED BY <1>12, <1>13 DEF BollingerReversion, s, t, x, y, period, u, v

LEMMA StochasticSame ==
    ASSUME NEW b, NEW c, NEW d, Ends(b, c, d), NEW p,
           Count(p, "period") \in Nat /\ Count(p, "period") > 0,
           Count(p, "smoothing") \in Nat /\ Count(p, "smoothing") > 0,
           Len(b) >= Count(p, "period") + Count(p, "smoothing")
    PROVE  StochasticCross(b, p) = StochasticCross(c, p)
<1> DEFINE n == Len(b)
           m == Len(c)
           k == n - 1
           period == Count(p, "period")
           smoothing == Count(p, "smoothing")
           s == StochasticK(b, period)
           t == StochasticK(c, period)
           x == StochasticD(s, smoothing)
           y == StochasticD(t, smoothing)
<1>1. /\ b \in Seq(Candles) /\ c \in Seq(Candles) /\ Part(b, c, d)
      /\ n \in Nat /\ m \in Nat /\ d \in Nat /\ n > 1 /\ m > 1
      /\ n \in 1 .. n /\ k \in 1 .. n /\ d + n = m /\ d + k = m - 1
    BY EndsAre
<1>2. /\ period \in Nat /\ period > 0 /\ smoothing \in Nat /\ smoothing > 0
      /\ n >= period + smoothing
    OBVIOUS
<1> HIDE DEF period, smoothing
<1>3. Len(s) = n /\ Len(t) = m
    BY <1>1, <1>2, StochasticIs
<1>4. Len(x) = n /\ Len(y) = m
    BY <1>1, <1>2, StochasticDIs
<1>5. k \in 1 .. Len(b) /\ n \in 1 .. Len(b)
    BY <1>1
<1>6. n >= period /\ k >= period /\ n >= (period + smoothing) - 1 /\ k >= (period + smoothing) - 1
    <2> HIDE DEF n, m
    <2> QED BY <1>1, <1>2
<1> HIDE DEF n, m, k
<1>7. s[n] = t[d + n] /\ x[n] = y[d + n]
    BY <1>1, <1>2, <1>5, <1>6, StochasticPart
<1>8. s[k] = t[d + k] /\ x[k] = y[d + k]
    BY <1>1, <1>2, <1>5, <1>6, StochasticPart
<1> HIDE DEF s, t, x, y
<1>9. s[n] = t[m] /\ s[n - 1] = t[m - 1] /\ x[n] = y[m] /\ x[n - 1] = y[m - 1]
    BY <1>1, <1>7, <1>8 DEF k
<1>10. Alike(s, t) /\ Alike(x, y)
    BY <1>1, <1>3, <1>4, <1>9, AlikeIs
<1>11. /\ LastOf(s) = LastOf(t)
       /\ CrossedAbove(s, x) <=> CrossedAbove(t, y)
       /\ CrossedBelow(s, x) <=> CrossedBelow(t, y)
    BY <1>3, <1>4, <1>10, CrossedAlike
<1> QED BY <1>11 DEF StochasticCross, s, t, x, y, period, smoothing

(* The range before the last candle.                                        *)
LEMMA DonchianSame ==
    ASSUME NEW b, NEW c, NEW d, Ends(b, c, d), NEW p, ~Bool(p, "atrFilter"),
           Count(p, "period") \in Nat /\ Count(p, "period") > 0, Len(b) >= Count(p, "period") + 2
    PROVE  DonchianBreakout(b, p) = DonchianBreakout(c, p)
<1> DEFINE n == Len(b)
           m == Len(c)
           k == n - 1
           period == Count(p, "period")
           s == Window(b, k, period)
           t == Window(c, m - 1, period)
<1>1. /\ b \in Seq(Candles) /\ c \in Seq(Candles) /\ Part(b, c, d)
      /\ n \in Nat /\ m \in Nat /\ d \in Nat /\ n > 1 /\ m > 1
      /\ n \in 1 .. n /\ k \in 1 .. n /\ d + n = m /\ d + k = m - 1
    BY EndsAre
<1>2. period \in Nat /\ period > 0 /\ n >= period + 2
    OBVIOUS
<1> HIDE DEF period
<1>3. k \in 1 .. Len(b) /\ n \in 1 .. Len(b)
    BY <1>1
<1>4. period <= k /\ ~(n < period + 2) /\ ~(m < period + 2)
    <2> HIDE DEF n, m
    <2> QED BY <1>1, <1>2
<1> HIDE DEF n, m, k
<1>5. Window(b, k, period) = Window(c, d + k, period)
    BY <1>1, <1>2, <1>3, <1>4, WindowPart
<1>6. s = t
    BY <1>1, <1>5
<1>7. Channel(b, period) = Channel(c, period)
    BY <1>6 DEF Channel, n, m, k
<1> DEFINE x == Closes(b)
           y == Closes(c)
<1>8. /\ x \in Seq(Fraction) /\ y \in Seq(Fraction) /\ Part(x, y, d) /\ Len(x) = n /\ Len(y) = m
    BY <1>1, PricesAre, PricesPart, NotNegativeSeq DEF n, m
<1> HIDE DEF x, y
<1>9. n \in 1 .. Len(x)
    BY <1>1, <1>8
<1>10. x[n] = y[d + n]
    BY <1>8, <1>9, PartIs
<1>11. LastOf(x) = LastOf(y)
    BY <1>1, <1>8, <1>10 DEF LastOf
<1>12. ~(Len(b) < period + 2) /\ ~(Len(c) < period + 2)
    BY <1>4 DEF n, m
<1> QED BY <1>7, <1>11, <1>12 DEF DonchianBreakout, x, y, period

LEMMA GridSame ==
    ASSUME NEW b, NEW c, NEW d, Ends(b, c, d), NEW p,
           Count(p, "lookback") \in Nat /\ Count(p, "lookback") > 0, Len(b) >= Count(p, "lookback")
    PROVE  GridDca(b, p) = GridDca(c, p)
<1> DEFINE n == Len(b)
           m == Len(c)
           period == Count(p, "lookback")
<1>1. /\ b \in Seq(Candles) /\ c \in Seq(Candles) /\ Part(b, c, d)
      /\ n \in Nat /\ m \in Nat /\ d \in Nat /\ n > 1 /\ m > 1
      /\ n \in 1 .. n /\ d + n = m
    BY EndsAre
<1>2. period \in Nat /\ period > 0 /\ n >= period
    OBVIOUS
<1> HIDE DEF period
<1>3. n \in 1 .. Len(b)
    BY <1>1
<1>4. period <= n /\ m >= period
    <2> HIDE DEF n, m
    <2> QED BY <1>1, <1>2
<1> HIDE DEF n, m
<1>5. Window(b, n, period) = Window(c, d + n, period)
    BY <1>1, <1>2, <1>3, <1>4, WindowPart
<1>9. \A i \in 1 .. Len(b) : b[i] = c[d + i]
    BY <1>1 DEF Part
<1>6. b[n] = c[d + n]
    BY <1>3, <1>9
<1>7. Window(b, n, period) = Window(c, m, period) /\ b[n] = c[m]
    BY <1>1, <1>5, <1>6
<1>8. Len(b) >= period /\ Len(c) >= period /\ b[Len(b)] = c[Len(c)]
      /\ Window(b, Len(b), period) = Window(c, Len(c), period)
    BY <1>4, <1>7 DEF n, m
<1> QED BY <1>8 DEF GridDca, period

(* How far the strategies look that look at a window.                       *)
LEMMA SpansAre ==
    ASSUME Configured
    PROVE  LET n == Required(key, config)
               count(x) == Count(config, x)
           IN /\ key = "bollingerReversion" =>
                    count("period") \in Nat /\ count("period") > 0 /\ n > count("period") /\ n > 1
              /\ key = "stochasticCross" =>
                    /\ count("period") \in Nat /\ count("period") > 0
                    /\ count("smoothing") \in Nat /\ count("smoothing") > 0
                    /\ n >= count("period") + count("smoothing") /\ n > 1
              /\ key = "donchianBreakout" =>
                    count("period") \in Nat /\ count("period") > 0 /\ n >= count("period") + 2 /\ n > 1
              /\ key = "gridDca" =>
                    count("lookback") \in Nat /\ count("lookback") > 0 /\ n >= count("lookback") /\ n > 1
<1> DEFINE n == Required(key, config)
           q == Needs(key, config)
           count(x) == Count(config, x)
<1>1. q \in Nat /\ n \in Nat /\ n >= q
    BY RequiredIs
<1>2. CASE key = "bollingerReversion"
    <2>1. count("period") \in 5 .. 100 /\ q = count("period") * 2
        BY <1>2, ConfigIs DEF Length, Needs
    <2> HIDE DEF n, q, count
    <2>2. count("period") \in Nat /\ count("period") > 0 /\ n > count("period") /\ n > 1
        BY <1>1, <2>1
    <2> QED BY <1>2, <2>2 DEF n, count
<1>3. CASE key = "stochasticCross"
    <2>1. /\ count("period") \in 2 .. 100 /\ count("smoothing") \in 1 .. 20
          /\ q = count("period") + count("smoothing") * 3
        BY <1>3, ConfigIs DEF Length, Needs
    <2> HIDE DEF n, q, count
    <2>2. /\ count("period") \in Nat /\ count("period") > 0
          /\ count("smoothing") \in Nat /\ count("smoothing") > 0
          /\ n >= count("period") + count("smoothing") /\ n > 1
        BY <1>1, <2>1
    <2> QED BY <1>3, <2>2 DEF n, count
<1>4. CASE key = "donchianBreakout"
    <2>1. /\ count("period") \in 3 .. 200 /\ count("atrPeriod") \in 2 .. 100
          /\ q = LargerOf(count("period"), count("atrPeriod")) + 5
        BY <1>4, ConfigIs DEF Length, Needs
    <2> HIDE DEF n, q, count
    <2>2. count("period") \in Nat /\ count("period") > 0 /\ n >= count("period") + 2 /\ n > 1
        BY <1>1, <2>1 DEF LargerOf
    <2> QED BY <1>4, <2>2 DEF n, count
<1>5. CASE key = "gridDca"
    <2>1. count("lookback") \in 3 .. 200 /\ q = count("lookback") + 5
        BY <1>5, ConfigIs DEF Length, Needs
    <2> HIDE DEF n, q, count
    <2>2. count("lookback") \in Nat /\ count("lookback") > 0 /\ n >= count("lookback") /\ n > 1
        BY <1>1, <2>1
    <2> QED BY <1>5, <2>2 DEF n, count
<1> QED BY <1>2, <1>3, <1>4, <1>5

(* What looks at a window sees nothing else.                                *)
LEMMA WindowSufficesHolds ==
    StrategiesInv => WindowSuffices
<1> SUFFICES ASSUME StrategiesInv PROVE WindowSuffices
    OBVIOUS
<1>0. /\ Configured /\ bars \in Seq(Candles) /\ Len(bars) \in Nat
    BY SeqParts DEF StrategiesInv
<1>1. ASSUME \/ key \in {"bollingerReversion", "stochasticCross", "gridDca"}
             \/ key = "donchianBreakout" /\ ~Bool(config, "atrFilter"),
             Len(bars) >= Required(key, config)
      PROVE  signal = Verdict(key, bars, config)
    <2> DEFINE n == Required(key, config)
               w == Window(bars, Len(bars), n)
               d == Len(bars) - n
    <2>1. /\ n \in Nat /\ n > 0 /\ w \in Seq(Candles) /\ Len(w) = n /\ Part(w, bars, d)
          /\ signal = Verdict(key, w, config)
        BY <1>1, EvaluatedOn
    <2>2. n > 1
        BY <1>0, <1>1, SpansAre
    <2> HIDE DEF w
    <2>3. Len(w) + d = Len(bars)
        BY <1>0, <2>1
    <2>4. Ends(w, bars, d)
        BY <1>0, <2>1, <2>2, <2>3 DEF Ends
    <2> HIDE DEF d
    <2>5. CASE key = "bollingerReversion"
        <3>1. Count(config, "period") \in Nat /\ Count(config, "period") > 0 /\ n > Count(config, "period")
            BY <1>0, <2>5, SpansAre
        <3>2. Len(w) > Count(config, "period")
            BY <2>1, <3>1
        <3>3. BollingerReversion(w, config) = BollingerReversion(bars, config)
            BY <2>4, <3>1, <3>2, BollingerSame
        <3>4. \A x : Verdict(key, x, config) = BollingerReversion(x, config)
            BY <2>5 DEF Verdict
        <3> QED BY <2>1, <3>3, <3>4
    <2>6. CASE key = "stochasticCross"
        <3>1. /\ Count(config, "period") \in Nat /\ Count(config, "period") > 0
              /\ Count(config, "smoothing") \in Nat /\ Count(config, "smoothing") > 0
              /\ n >= Count(config, "period") + Count(config, "smoothing")
            BY <1>0, <2>6, SpansAre
        <3>2. Len(w) >= Count(config, "period") + Count(config, "smoothing")
            BY <2>1, <3>1
        <3>3. StochasticCross(w, config) = StochasticCross(bars, config)
            BY <2>4, <3>1, <3>2, StochasticSame
        <3>4. \A x : Verdict(key, x, config) = StochasticCross(x, config)
            BY <2>6 DEF Verdict
        <3> QED BY <2>1, <3>3, <3>4
    <2>7. CASE key = "gridDca"
        <3>1. Count(config, "lookback") \in Nat /\ Count(config, "lookback") > 0 /\ n >= Count(config, "lookback")
            BY <1>0, <2>7, SpansAre
        <3>2. Len(w) >= Count(config, "lookback")
            BY <2>1, <3>1
        <3>3. GridDca(w, config) = GridDca(bars, config)
            BY <2>4, <3>1, <3>2, GridSame
        <3>4. \A x : Verdict(key, x, config) = GridDca(x, config)
            BY <2>7 DEF Verdict
        <3> QED BY <2>1, <3>3, <3>4
    <2>8. CASE key = "donchianBreakout" /\ ~Bool(config, "atrFilter")
        <3>1. Count(config, "period") \in Nat /\ Count(config, "period") > 0 /\ n >= Count(config, "period") + 2
            BY <1>0, <2>8, SpansAre
        <3>2. Len(w) >= Count(config, "period") + 2
            BY <2>1, <3>1
        <3>3. DonchianBreakout(w, config) = DonchianBreakout(bars, config)
            BY <2>4, <2>8, <3>1, <3>2, DonchianSame
        <3>4. \A x : Verdict(key, x, config) = DonchianBreakout(x, config)
            BY <2>8 DEF Verdict
        <3> QED BY <2>1, <3>3, <3>4
    <2> QED BY <1>1, <2>5, <2>6, <2>7, <2>8
<1>2. ASSUME NEW o \in Followed(Windowed), Len(Chart) > Reach(o)
      PROVE  Cardinality({Shown(o, Window(Chart, Len(Chart), n)) : n \in {Reach(o), Len(Chart)}}) = 1
    <2> DEFINE m == Len(bars)
               r == Reach(o)
               value == IndicatorSeries(o, bars)[m]
    <2>1. /\ Chart = bars /\ m \in Nat /\ m > 0
          /\ o.type = "indicator" /\ Known(o) /\ o.name \in Windowed
        BY <1>2, FollowedAre
    <2>2. r \in Nat /\ r > 0
        <3>1. CASE o.name = "STOCHASTIC"
            <4>1. /\ Param(o, "period") \in Nat /\ Param(o, "period") > 0
                  /\ Param(o, "smoothing") \in Nat /\ Param(o, "smoothing") > 0
                BY <2>1, <3>1, KnownIs DEF Settled
            <4> QED BY <3>1, <4>1 DEF Reach
        <3>2. CASE o.name # "STOCHASTIC"
            <4>1. o.name \in {"SMA", "CCI", "WILLIAMS_R", "MFI", "ROC", "VWAP", "VOLUME"}
                BY <2>1, <3>2 DEF Windowed
            <4>2. Param(o, "period") \in Nat /\ Param(o, "period") > 0
                BY <2>1, <4>1, KnownIs DEF Settled
            <4> QED BY <3>2, <4>2 DEF Reach
        <3> QED BY <3>1, <3>2
    <2> HIDE DEF r
    <2>3. ASSUME NEW n \in {r, m}
          PROVE  Shown(o, Window(bars, m, n)) = value
        <3> DEFINE w == Window(bars, m, n)
                   d == m - n
        <3>1. n \in Nat /\ n > 0 /\ n <= m /\ n >= r /\ m \in 1 .. m
            BY <1>2, <2>1, <2>2 DEF r
        <3>2. w \in Seq(Candles) /\ Len(w) = n /\ \A j \in 1 .. n : w[j] = bars[(m - n) + j]
            BY <1>0, <3>1, WindowIs
        <3> HIDE DEF w
        <3>3. Part(w, bars, d)
            BY <2>1, <3>1, <3>2 DEF Part
        <3>4. n \in 1 .. Len(w) /\ n >= Reach(o) /\ d + n = m
            BY <2>1, <3>1, <3>2 DEF r
        <3> HIDE DEF d, m
        <3>5. IndicatorSeries(o, w)[n] = IndicatorSeries(o, bars)[d + n]
            BY <1>0, <2>1, <3>2, <3>3, <3>4, IndicatorPart
        <3>6. Series(o, w) = IndicatorSeries(o, w) /\ Len(IndicatorSeries(o, w)) = Len(w)
            BY <2>1, <3>2, SpeedsAre, SeriesIs
        <3>7. Shown(o, w) = value
            BY <3>2, <3>4, <3>5, <3>6 DEF Shown, LastOf
        <3> QED BY <3>7 DEF w
    <2> HIDE DEF value
    <2>4. {Shown(o, Window(bars, m, n)) : n \in {r, m}} = {value}
        BY <2>3
    <2>5. Cardinality({value}) = 1
        BY FS_Singleton
    <2> QED BY <2>1, <2>4, <2>5 DEF r
<1> QED BY <1>1, <1>2 DEF WindowSuffices

(* A strategy that looks at a window, and an indicator that does, give on   *)
(* the fetched candles what they give on the whole history.                 *)
THEOREM WindowSufficesAlways == Spec => []WindowSuffices
BY StrategiesInvariant, WindowSufficesHolds, PTL

(* What a condition over two series makes of them.                          *)
LEMMA ReadingsAre ==
    ASSUME NEW l, NEW operator, NEW r, NEW bs
    PROVE  LET c == Condition(l, operator, r)
           IN /\ c.left = l /\ c.operator = operator /\ c.right[1] = r
              /\ Readings(c, bs)[1] = Series(l, bs) /\ Readings(c, bs)[2] = Series(r, bs)
<1> DEFINE c == Condition(l, operator, r)
           W == {l, r}
<1>1. c.left = l /\ c.operator = operator /\ c.right = <<r>> /\ c.right[1] = r
    BY DEF Condition
<1> HIDE DEF c
<1>2. <<l>> \in Seq(W) /\ <<r>> \in Seq(W) /\ Len(<<l>>) = 1 /\ Len(<<r>>) = 1
    OBVIOUS
<1> DEFINE both == <<l>> \o <<r>>
<1>3. both \in Seq(W) /\ Len(both) = 2 /\ both[1] = l /\ both[2] = r
    <2>1. /\ both \in Seq(W) /\ Len(both) = Len(<<l>>) + Len(<<r>>)
          /\ \A i \in 1 .. Len(<<l>>) : both[i] = <<l>>[i]
          /\ \A i \in 1 .. Len(<<r>>) : both[Len(<<l>>) + i] = <<r>>[i]
        BY <1>2, Joined
    <2> HIDE DEF both
    <2>2. both[1] = l /\ both[1 + 1] = r
        BY <1>2, <2>1
    <2> QED BY <1>2, <2>1, <2>2
<1>4. OperandsOf(c) = both
    BY <1>1 DEF OperandsOf
<1> HIDE DEF both
<1>5. DOMAIN both = 1 .. 2
    BY <1>3, SeqParts
<1>6. Readings(c, bs)[1] = Series(l, bs) /\ Readings(c, bs)[2] = Series(r, bs)
    BY <1>3, <1>4, <1>5 DEF Readings
<1> QED BY <1>1, <1>6 DEF c

Passes(l, operator, r, bs) ==
    Result(Condition(l, operator, r), Readings(Condition(l, operator, r), bs)) = "passed"

(* A tolerance lets through what was at most the other, and what was past   *)
(* it by no more than the tolerance.                                        *)
LEMMA Tolerates ==
    ASSUME NEW x \in Numbers, NEW y \in Numbers
    PROVE  /\ AtMost(x, y) => AtMost(x, Plus(y, NumericTolerance))
           /\ AtMost(x, y) => AtMost(Minus(x, NumericTolerance), y)
           /\ AtMost(x, Plus(y, NumericTolerance)) \/ AtMost(Minus(x, NumericTolerance), y) =>
                  \/ AtMost(x, y)
                  \/ Less(Zero, Minus(x, y)) /\ AtMost(Minus(x, y), NumericTolerance)
<1> DEFINE e == NumericTolerance
           gap == Minus(x, y)
<1>1. e \in Fraction /\ e \in Numbers /\ AtMost(Zero, e)
  <2>1. e \in Fraction /\ AtMost(Zero, e)
      BY StrategiesAssumption, LowestTerms
  <2> QED BY <2>1, FractionIs
<1> HIDE DEF e
<1>2. CASE IsNaN(x) \/ IsNaN(y)
  <2>1. ~AtMost(x, y)
      BY <1>2, NumbersClosed
  <2>2. /\ Plus(y, e) \in Numbers /\ Minus(x, e) \in Numbers
        /\ IsNaN(y) => IsNaN(Plus(y, e))
        /\ IsNaN(x) => IsNaN(Minus(x, e))
      BY <1>1, NumbersClosed, NaNIs
  <2>3. ~AtMost(x, Plus(y, e)) /\ ~AtMost(Minus(x, e), y)
      BY <1>2, <2>2, NumbersClosed
  <2> QED BY <2>1, <2>3 DEF e
<1>3. CASE ~IsNaN(x) /\ ~IsNaN(y)
  <2>1. x \in Fraction /\ y \in Fraction /\ Zero \in Fraction
      BY <1>3, NumbersAre, ConstantsAre
  <2>2. /\ Plus(y, e) \in Fraction /\ Minus(x, e) \in Fraction /\ gap \in Fraction
        /\ Plus(e, y) = Plus(y, e) /\ Plus(Zero, y) = y /\ Plus(Minus(x, e), e) = x
        /\ Minus(Plus(e, y), y) = e /\ Minus(y, y) = Zero
      BY <1>1, <2>1, Closed, PlusLaws
  <2>3. AtMost(y, Plus(y, e))
      BY <1>1, <2>1, <2>2, OrderAdds
  <2>4. AtMost(Minus(x, e), y) <=> AtMost(x, Plus(y, e))
      BY <1>1, <2>1, <2>2, OrderAdds
  <2>5. AtMost(x, y) => AtMost(x, Plus(y, e))
      BY <2>1, <2>2, <2>3, OrderPasses
  <2>6. AtMost(x, y) <=> AtMost(gap, Zero)
      BY <2>1, <2>2, OrderAdds
  <2>7. ~AtMost(x, y) => Less(Zero, gap)
      BY <2>1, <2>2, <2>6, Order
  <2>8. AtMost(x, Plus(y, e)) => AtMost(gap, e)
      BY <1>1, <2>1, <2>2, OrderAdds
  <2> QED BY <2>4, <2>5, <2>7, <2>8 DEF e
<1> QED BY <1>2, <1>3

LEMMA ConditionPasses ==
    ASSUME NEW l, NEW r, Known(l), Known(r), NEW bs, NEW n \in Nat, n > 1, Len(bs) = n,
           NEW operator \in {"gt", "lt", "crossesAbove", "crossesBelow"},
           NEW s \in Seq(Numbers), NEW t \in Seq(Numbers), Len(s) = n, Len(t) = n,
           Series(l, bs) = s, Series(r, bs) = t
    PROVE  /\ Result(Condition(l, operator, r), Readings(Condition(l, operator, r), bs)) # "thrown"
           /\ operator = "gt" => (Passes(l, operator, r, bs) <=> Less(LastOf(t), LastOf(s)))
           /\ operator = "lt" => (Passes(l, operator, r, bs) <=> Less(LastOf(s), LastOf(t)))
           /\ operator = "crossesAbove" =>
                 /\ CrossedAbove(s, t) => Passes(l, operator, r, bs)
                 /\ Passes(l, operator, r, bs) =>
                        /\ Less(LastOf(t), LastOf(s))
                        /\ CrossedAbove(s, t) \/ Grazed(Condition(l, operator, r), bs)
           /\ operator = "crossesBelow" =>
                 /\ CrossedBelow(s, t) => Passes(l, operator, r, bs)
                 /\ Passes(l, operator, r, bs) =>
                        /\ Less(LastOf(s), LastOf(t))
                        /\ CrossedBelow(s, t) \/ Grazed(Condition(l, operator, r), bs)
<1> DEFINE c == Condition(l, operator, r)
           readings == Readings(c, bs)
<1>1. c.left = l /\ c.operator = operator /\ c.right[1] = r /\ readings[1] = s /\ readings[2] = t
    BY ReadingsAre
<1> HIDE DEF c, readings
<1>2. ~ConditionThrows(c, readings)
    BY <1>1 DEF ConditionThrows
<1> DEFINE bound == readings[3]
           passes == Compares(operator, s, t, bound)
<1>3. Result(c, readings) = IF passes THEN "passed" ELSE "failed"
    BY <1>1, <1>2 DEF Result
<1>4. n \in 1 .. n /\ s[n] \in Numbers /\ t[n] \in Numbers
    BY SeqParts
<1>5. \A x \in Numbers, y \in Numbers : Less(x, y) => ~IsNaN(x) /\ ~IsNaN(y)
    BY NumbersClosed
<1>6. LastOf(s) = s[n] /\ LastOf(t) = t[n]
    BY DEF LastOf
<1>7. passes <=> /\ ~IsNaN(s[n]) /\ ~IsNaN(t[n])
                 /\ CASE operator = "gt" -> Less(t[n], s[n])
                      [] operator = "lt" -> Less(s[n], t[n])
                      [] operator = "crossesAbove" ->
                             AtMost(s[n - 1], Plus(t[n - 1], NumericTolerance)) /\ Less(t[n], s[n])
                      [] operator = "crossesBelow" ->
                             AtMost(Minus(t[n - 1], NumericTolerance), s[n - 1]) /\ Less(s[n], t[n])
    BY DEF Compares
<1> HIDE DEF passes
<1>8. CrossedAbove(s, t) <=> AtMost(s[n - 1], t[n - 1]) /\ Less(t[n], s[n])
    BY <1>6 DEF CrossedAbove
<1>9. CrossedBelow(s, t) <=> AtMost(t[n - 1], s[n - 1]) /\ Less(s[n], t[n])
    BY <1>6 DEF CrossedAbove, CrossedBelow
<1>10. /\ operator = "gt" => (passes <=> Less(LastOf(t), LastOf(s)))
       /\ operator = "lt" => (passes <=> Less(LastOf(s), LastOf(t)))
    BY <1>4, <1>5, <1>6, <1>7
<1> DEFINE x == s[n - 1]
           y == t[n - 1]
<1>15. x \in Numbers /\ y \in Numbers
  <2>1. n - 1 \in 1 .. n
      OBVIOUS
  <2> QED BY <2>1, SeqParts
<1>16. /\ operator = "crossesAbove" =>
              (Grazed(c, bs) <=> Less(Zero, Minus(x, y)) /\ AtMost(Minus(x, y), NumericTolerance))
       /\ operator = "crossesBelow" =>
              (Grazed(c, bs) <=> Less(Zero, Minus(y, x)) /\ AtMost(Minus(y, x), NumericTolerance))
    BY <1>1 DEF Grazed, Grazes, Barely, readings
<1>11. ASSUME operator = "crossesAbove"
       PROVE  /\ CrossedAbove(s, t) => passes
              /\ passes => Less(t[n], s[n]) /\ (CrossedAbove(s, t) \/ Grazed(c, bs))
  <2>1. passes <=> /\ ~IsNaN(s[n]) /\ ~IsNaN(t[n])
                   /\ AtMost(x, Plus(y, NumericTolerance)) /\ Less(t[n], s[n])
      BY <1>7, <1>11
  <2>2. CrossedAbove(s, t) <=> AtMost(x, y) /\ Less(t[n], s[n])
      BY <1>8
  <2>3. Less(t[n], s[n]) => ~IsNaN(s[n]) /\ ~IsNaN(t[n])
      BY <1>4, <1>5
  <2> HIDE DEF x, y
  <2>4. /\ AtMost(x, y) => AtMost(x, Plus(y, NumericTolerance))
        /\ AtMost(x, Plus(y, NumericTolerance)) =>
               AtMost(x, y) \/ (Less(Zero, Minus(x, y)) /\ AtMost(Minus(x, y), NumericTolerance))
      BY <1>15, Tolerates
  <2> QED BY <1>11, <1>16, <2>1, <2>2, <2>3, <2>4
<1>12. ASSUME operator = "crossesBelow"
       PROVE  /\ CrossedBelow(s, t) => passes
              /\ passes => Less(s[n], t[n]) /\ (CrossedBelow(s, t) \/ Grazed(c, bs))
  <2>1. passes <=> /\ ~IsNaN(s[n]) /\ ~IsNaN(t[n])
                   /\ AtMost(Minus(y, NumericTolerance), x) /\ Less(s[n], t[n])
      BY <1>7, <1>12
  <2>2. CrossedBelow(s, t) <=> AtMost(y, x) /\ Less(s[n], t[n])
      BY <1>9
  <2>3. Less(s[n], t[n]) => ~IsNaN(s[n]) /\ ~IsNaN(t[n])
      BY <1>4, <1>5
  <2> HIDE DEF x, y
  <2>4. /\ AtMost(y, x) => AtMost(Minus(y, NumericTolerance), x)
        /\ AtMost(Minus(y, NumericTolerance), x) =>
               AtMost(y, x) \/ (Less(Zero, Minus(y, x)) /\ AtMost(Minus(y, x), NumericTolerance))
      BY <1>15, Tolerates
  <2> QED BY <1>12, <1>16, <2>1, <2>2, <2>3, <2>4
<1> HIDE DEF x, y
<1>13. Passes(l, operator, r, bs) <=> passes
    BY <1>3 DEF Passes, c, readings
<1>14. Result(c, readings) # "thrown"
    BY <1>3
<1> QED BY <1>6, <1>10, <1>11, <1>12, <1>13, <1>14 DEF c, readings

(* What a group that is joined by AND says, and rules of two such groups.   *)
LEMMA JudgedAll ==
    ASSUME NEW g, g.logic = "AND", NEW n \in Nat, n > 0, DOMAIN g.conditions = 1 .. n,
           NEW results, DOMAIN results = 1 .. n, \A i \in 1 .. n : results[i] # "thrown",
           NEW action, NEW otherwise
    PROVE  Judged(g, results, action, otherwise).action =
               IF \A i \in 1 .. n : results[i] = "passed" THEN action ELSE otherwise.action
<1> DEFINE matched == With("passed", results)
           x == Ratio(Cardinality(matched), Len(g.conditions))
<1>1. With("thrown", results) = {}
    BY DEF With
<1>2. matched = {i \in 1 .. n : results[i] = "passed"}
    BY DEF With
<1> HIDE DEF matched
<1>3. 1 \in 1 .. n
    OBVIOUS
<1>4. GroupPasses(g, matched) <=> \A i \in 1 .. n : results[i] = "passed"
    BY <1>2, <1>3 DEF GroupPasses
<1>5. Signal(action, x).action = action
    BY DEF Signal
<1> HIDE DEF x
<1>6. CASE GroupPasses(g, matched)
    <2>1. Judged(g, results, action, otherwise) = Signal(action, x)
        BY <1>1, <1>6 DEF Judged, matched, x
    <2> QED BY <1>4, <1>5, <1>6, <2>1
<1>7. CASE ~GroupPasses(g, matched)
    <2>1. Judged(g, results, action, otherwise) = otherwise
        BY <1>1, <1>7 DEF Judged, matched
    <2> QED BY <1>4, <1>7, <2>1
<1> QED BY <1>6, <1>7

Said(c, bs) == Result(c, Readings(c, bs))
Ruled(e, x) == [entryRules |-> Group("AND", e), exitRules |-> Group("AND", x)]

LEMMA RuledSays ==
    ASSUME NEW e, NEW x, NEW n \in Nat, n > 0, DOMAIN e = 1 .. n, DOMAIN x = 1 .. n, NEW bs,
           \A i \in 1 .. n : Said(e[i], bs) # "thrown" /\ Said(x[i], bs) # "thrown"
    PROVE  CustomRules(bs, Ruled(e, x)).action =
               IF \A i \in 1 .. n : Said(x[i], bs) = "passed" THEN "SELL"
               ELSE IF \A i \in 1 .. n : Said(e[i], bs) = "passed" THEN "BUY" ELSE "HOLD"
<1> DEFINE p == Ruled(e, x)
           g == GroupOf(p, "entryRules")
           h == GroupOf(p, "exitRules")
           a == Results(g, bs)
           b == Results(h, bs)
           otherwise == Judged(g, a, "BUY", Hold)
<1>1. g = [logic |-> "AND", conditions |-> e] /\ h = [logic |-> "AND", conditions |-> x]
    BY DEF GroupOf, Group, Ruled
<1>2. CustomRules(bs, p) = Judged(h, b, "SELL", otherwise)
    BY DEF CustomRules, Decided
<1> HIDE DEF p, g, h
<1>3. a = [i \in 1 .. n |-> Said(e[i], bs)] /\ b = [i \in 1 .. n |-> Said(x[i], bs)]
    BY <1>1 DEF Results, Said
<1> HIDE DEF a, b
<1>4. g.logic = "AND" /\ DOMAIN g.conditions = 1 .. n /\ h.logic = "AND" /\ DOMAIN h.conditions = 1 .. n
    BY <1>1
<1>5. otherwise.action = IF \A i \in 1 .. n : a[i] = "passed" THEN "BUY" ELSE Hold.action
    <2>1. DOMAIN a = 1 .. n /\ \A i \in 1 .. n : a[i] # "thrown"
        BY <1>3
    <2> QED BY <1>4, <2>1, JudgedAll
<1> HIDE DEF otherwise
<1>6. Judged(h, b, "SELL", otherwise).action =
          IF \A i \in 1 .. n : b[i] = "passed" THEN "SELL" ELSE otherwise.action
    <2>1. DOMAIN b = 1 .. n /\ \A i \in 1 .. n : b[i] # "thrown"
        BY <1>3
    <2> QED BY <1>4, <2>1, JudgedAll
<1>7. Hold.action = "HOLD"
    BY DEF Hold, Signal
<1>8. /\ (\A i \in 1 .. n : b[i] = "passed") <=> (\A i \in 1 .. n : Said(x[i], bs) = "passed")
      /\ (\A i \in 1 .. n : a[i] = "passed") <=> (\A i \in 1 .. n : Said(e[i], bs) = "passed")
    BY <1>3
<1> QED BY <1>2, <1>5, <1>6, <1>7, <1>8 DEF p

LEMMA OneSays ==
    ASSUME NEW c, NEW d, NEW bs, Said(c, bs) # "thrown", Said(d, bs) # "thrown"
    PROVE  CustomRules(bs, Ruled(<<c>>, <<d>>)).action =
               IF Said(d, bs) = "passed" THEN "SELL"
               ELSE IF Said(c, bs) = "passed" THEN "BUY" ELSE "HOLD"
<1> DEFINE e == <<c>>
           x == <<d>>
<1>1. DOMAIN e = 1 .. 1 /\ DOMAIN x = 1 .. 1 /\ e[1] = c /\ x[1] = d /\ 1 \in Nat /\ 1 > 0
    OBVIOUS
<1>2. \A i \in 1 .. 1 : i = 1
    OBVIOUS
<1> HIDE DEF e, x
<1>3. \A i \in 1 .. 1 : Said(e[i], bs) # "thrown" /\ Said(x[i], bs) # "thrown"
    BY <1>1, <1>2
<1>4. CustomRules(bs, Ruled(e, x)).action =
               IF \A i \in 1 .. 1 : Said(x[i], bs) = "passed" THEN "SELL"
               ELSE IF \A i \in 1 .. 1 : Said(e[i], bs) = "passed" THEN "BUY" ELSE "HOLD"
    BY <1>1, <1>3, RuledSays
<1>5. /\ (\A i \in 1 .. 1 : Said(x[i], bs) = "passed") <=> Said(d, bs) = "passed"
      /\ (\A i \in 1 .. 1 : Said(e[i], bs) = "passed") <=> Said(c, bs) = "passed"
    BY <1>1, <1>2
<1> QED BY <1>4, <1>5 DEF e, x

LEMMA TwoSay ==
    ASSUME NEW c, NEW d, NEW f, NEW g, NEW bs, Said(c, bs) # "thrown", Said(d, bs) # "thrown",
           Said(f, bs) # "thrown", Said(g, bs) # "thrown"
    PROVE  CustomRules(bs, Ruled(<<c, d>>, <<f, g>>)).action =
               IF Said(f, bs) = "passed" /\ Said(g, bs) = "passed" THEN "SELL"
               ELSE IF Said(c, bs) = "passed" /\ Said(d, bs) = "passed" THEN "BUY" ELSE "HOLD"
<1> DEFINE e == <<c, d>>
           x == <<f, g>>
<1>1. /\ DOMAIN e = 1 .. 2 /\ DOMAIN x = 1 .. 2 /\ e[1] = c /\ x[1] = f /\ e[2] = d /\ x[2] = g
      /\ 2 \in Nat /\ 2 > 0 /\ 1 \in 1 .. 2 /\ 2 \in 1 .. 2
    OBVIOUS
<1>2. \A i \in 1 .. 2 : i = 1 \/ i = 2
    OBVIOUS
<1> HIDE DEF e, x
<1>3. \A i \in 1 .. 2 : Said(e[i], bs) # "thrown" /\ Said(x[i], bs) # "thrown"
    BY <1>1, <1>2
<1>4. CustomRules(bs, Ruled(e, x)).action =
               IF \A i \in 1 .. 2 : Said(x[i], bs) = "passed" THEN "SELL"
               ELSE IF \A i \in 1 .. 2 : Said(e[i], bs) = "passed" THEN "BUY" ELSE "HOLD"
    BY <1>1, <1>3, RuledSays
<1>5. /\ (\A i \in 1 .. 2 : Said(x[i], bs) = "passed") <=> Said(f, bs) = "passed" /\ Said(g, bs) = "passed"
      /\ (\A i \in 1 .. 2 : Said(e[i], bs) = "passed") <=> Said(c, bs) = "passed" /\ Said(d, bs) = "passed"
    BY <1>1, <1>2
<1> QED BY <1>4, <1>5 DEF e, x

(* The operands that the presets are rebuilt with are known, and their      *)
(* series are those of the presets.                                         *)
LEMMA LevelKnown ==
    ASSUME NEW bs \in Seq(Candles), NEW v \in Fraction
    PROVE  LET s == Series(Constant(v), bs)
           IN /\ Known(Constant(v)) /\ s \in Seq(Numbers) /\ Len(s) = Len(bs)
              /\ Len(bs) > 0 => LastOf(s) = v
<1> DEFINE o == Constant(v)
           s == Series(o, bs)
           n == Len(bs)
<1>1. o.type = "constant" /\ o.value = v
    BY DEF Constant
<1> HIDE DEF o
<1>2. Known(o)
    BY <1>1 DEF Known
<1>3. n \in Nat /\ DOMAIN bs = 1 .. n
    BY SeqParts
<1>4. s = [i \in 1 .. n |-> v]
    BY <1>1, <1>3 DEF Series
<1> HIDE DEF s, n
<1>5. s \in [1 .. n -> Numbers]
    BY <1>4 DEF Numbers
<1>6. s \in Seq(Numbers) /\ Len(s) = n
    BY <1>3, <1>5, Tabled
<1>7. n > 0 => s[n] = v
    BY <1>3, <1>4
<1> QED BY <1>2, <1>6, <1>7 DEF LastOf, o, s, n

LEMMA EntryKnown ==
    ASSUME NEW o, o.type = "indicator", NEW name, o.name = name, name \in DOMAIN Catalog,
           NEW outputs, NEW params, Catalog[name] = Entry(outputs, params),
           \A x \in DOMAIN params : Param(o, x) \in params[x][2] .. params[x][3],
           NEW i \in DOMAIN outputs, OutputOf(o) = outputs[i]
    PROVE  Known(o)
<1>1. Catalog[o.name].params = params /\ Catalog[o.name].outputs = outputs
    BY DEF Entry
<1> QED BY <1>1 DEF Known

LEMMA PeriodKnown ==
    ASSUME NEW name \in {"RSI", "EMA"}, NEW q \in Nat, q >= 2, q <= 200 \/ (name = "EMA" /\ q <= 500)
    PROVE  LET o == Indicator(name, [period |-> q])
           IN Known(o) /\ o.type = "indicator" /\ o.name = name /\ Param(o, "period") = q
<1> DEFINE o == Indicator(name, [period |-> q])
<1>1. o.type = "indicator" /\ o.name = name /\ Param(o, "period") = q /\ o.output = ""
    BY DEF Indicator, Param
<1> HIDE DEF o
<1> DEFINE outputs == <<"value">>
           params == [period |-> IF name = "RSI" THEN <<14, 2, 200>> ELSE <<20, 2, 500>>]
<1>2. Catalog[name] = Entry(outputs, params) /\ name \in DOMAIN Catalog
    <2>1. CASE name = "RSI"
        BY <2>1 DEF Catalog
    <2>2. CASE name = "EMA"
        BY <2>2 DEF Catalog
    <2> QED BY <2>1, <2>2
<1>3. \A x \in DOMAIN params : Param(o, x) \in params[x][2] .. params[x][3]
    <2>1. CASE name = "RSI"
        <3>1. DOMAIN params = {"period"} /\ params["period"][2] = 2 /\ params["period"][3] = 200
            BY <2>1
        <3> HIDE DEF params
        <3>2. q \in 2 .. 200
            BY <2>1
        <3>3. Param(o, "period") \in params["period"][2] .. params["period"][3]
            BY <1>1, <3>1, <3>2
        <3> QED BY <3>1, <3>3, Zenon
    <2>2. CASE name = "EMA"
        <3>1. DOMAIN params = {"period"} /\ params["period"][2] = 2 /\ params["period"][3] = 500
            BY <2>2
        <3> HIDE DEF params
        <3>2. q \in 2 .. 500
            BY <2>2
        <3>3. Param(o, "period") \in params["period"][2] .. params["period"][3]
            BY <1>1, <3>1, <3>2
        <3> QED BY <3>1, <3>3, Zenon
    <2> QED BY <2>1, <2>2
<1>4. 1 \in DOMAIN outputs /\ outputs[1] = "value" /\ OutputOf(o) = "value"
    <2>1. Catalog[name].outputs[1] = "value"
        BY <1>2 DEF Entry
    <2>2. OutputOf(o) = "value"
        BY <1>1, <2>1 DEF OutputOf
    <2>3. 1 \in DOMAIN outputs /\ outputs[1] = "value"
        OBVIOUS
    <2> QED BY <2>2, <2>3
<1> HIDE DEF outputs, params
<1>5. Known(o)
    BY <1>1, <1>2, <1>3, <1>4, EntryKnown
<1> QED BY <1>1, <1>5 DEF o

LEMMA LinesKnown ==
    ASSUME NEW fast \in Nat, fast >= 2, fast <= 100, NEW slow \in Nat, slow >= 3, slow <= 200,
           NEW period \in Nat, period >= 2, period <= 50, NEW output \in {"macd", "signal"}
    PROVE  LET o == Output("MACD", [fastPeriod |-> fast, slowPeriod |-> slow, signalPeriod |-> period], output)
           IN /\ Known(o) /\ o.type = "indicator" /\ o.name = "MACD" /\ OutputOf(o) = output
              /\ Param(o, "fastPeriod") = fast /\ Param(o, "slowPeriod") = slow
              /\ Param(o, "signalPeriod") = period
<1> DEFINE o == Output("MACD", [fastPeriod |-> fast, slowPeriod |-> slow, signalPeriod |-> period], output)
<1>1. /\ o.type = "indicator" /\ o.name = "MACD" /\ OutputOf(o) = output
      /\ Param(o, "fastPeriod") = fast /\ Param(o, "slowPeriod") = slow
      /\ Param(o, "signalPeriod") = period
    BY DEF Output, Param, OutputOf
<1> HIDE DEF o
<1> DEFINE outputs == <<"macd", "signal", "histogram">>
           params == [fastPeriod |-> <<12, 2, 100>>, slowPeriod |-> <<26, 3, 200>>,
                      signalPeriod |-> <<9, 2, 50>>]
<1>2. Catalog["MACD"] = Entry(outputs, params) /\ "MACD" \in DOMAIN Catalog
    BY DEF Catalog
<1>3. \A x \in DOMAIN params : Param(o, x) \in params[x][2] .. params[x][3]
    <2>1. /\ DOMAIN params = {"fastPeriod", "slowPeriod", "signalPeriod"}
          /\ params["fastPeriod"][2] = 2 /\ params["fastPeriod"][3] = 100
          /\ params["slowPeriod"][2] = 3 /\ params["slowPeriod"][3] = 200
          /\ params["signalPeriod"][2] = 2 /\ params["signalPeriod"][3] = 50
        OBVIOUS
    <2> HIDE DEF params
    <2>2. fast \in 2 .. 100 /\ slow \in 3 .. 200 /\ period \in 2 .. 50
        OBVIOUS
    <2> QED BY <1>1, <2>1, <2>2
<1>4. \E i \in DOMAIN outputs : OutputOf(o) = outputs[i]
    <2>1. 1 \in DOMAIN outputs /\ 2 \in DOMAIN outputs /\ outputs[1] = "macd" /\ outputs[2] = "signal"
        OBVIOUS
    <2> HIDE DEF outputs
    <2> QED BY <1>1, <2>1
<1> HIDE DEF outputs, params
<1>5. Known(o)
    BY <1>1, <1>2, <1>3, <1>4, EntryKnown
<1> QED BY <1>1, <1>5 DEF o

LEMMA PlaceKnown ==
    ASSUME NEW period \in Nat, period >= 2, period <= 200, NEW smoothing \in Nat, smoothing >= 1,
           smoothing <= 50, NEW output \in {"k", "d"}
    PROVE  LET o == Output("STOCHASTIC", [period |-> period, smoothing |-> smoothing], output)
           IN /\ Known(o) /\ o.type = "indicator" /\ o.name = "STOCHASTIC" /\ OutputOf(o) = output
              /\ Param(o, "period") = period /\ Param(o, "smoothing") = smoothing
<1> DEFINE o == Output("STOCHASTIC", [period |-> period, smoothing |-> smoothing], output)
<1>1. /\ o.type = "indicator" /\ o.name = "STOCHASTIC" /\ OutputOf(o) = output
      /\ Param(o, "period") = period /\ Param(o, "smoothing") = smoothing
    BY DEF Output, Param, OutputOf
<1> HIDE DEF o
<1> DEFINE outputs == <<"k", "d">>
           params == [period |-> <<14, 2, 200>>, smoothing |-> <<3, 1, 50>>]
<1>2. Catalog["STOCHASTIC"] = Entry(outputs, params) /\ "STOCHASTIC" \in DOMAIN Catalog
    BY DEF Catalog
<1>3. \A x \in DOMAIN params : Param(o, x) \in params[x][2] .. params[x][3]
    <2>1. /\ DOMAIN params = {"period", "smoothing"}
          /\ params["period"][2] = 2 /\ params["period"][3] = 200
          /\ params["smoothing"][2] = 1 /\ params["smoothing"][3] = 50
        OBVIOUS
    <2> HIDE DEF params
    <2>2. period \in 2 .. 200 /\ smoothing \in 1 .. 50
        OBVIOUS
    <2> QED BY <1>1, <2>1, <2>2
<1>4. \E i \in DOMAIN outputs : OutputOf(o) = outputs[i]
    <2>1. 1 \in DOMAIN outputs /\ 2 \in DOMAIN outputs /\ outputs[1] = "k" /\ outputs[2] = "d"
        OBVIOUS
    <2> HIDE DEF outputs
    <2> QED BY <1>1, <2>1
<1> HIDE DEF outputs, params
<1>5. Known(o)
    BY <1>1, <1>2, <1>3, <1>4, EntryKnown
<1> QED BY <1>1, <1>5 DEF o

(* What a series that is read by a rule ends with.                          *)
LEMMA ReadIs ==
    ASSUME NEW bs \in Seq(Candles), NEW o, o.type = "indicator", Known(o)
    PROVE  /\ Series(o, bs) = IndicatorSeries(o, bs)
           /\ Series(o, bs) \in Seq(Numbers) /\ Len(Series(o, bs)) = Len(bs)
BY SpeedsAre, SeriesIs

(* When rules do what is done, or only a grazed crossing parts them.        *)
LEMMA SaidByRules ==
    ASSUME NEW e, NEW x, NEW bs, NEW action, NEW rebuilt,
           CustomRules(bs, Ruled(e, x)).action = rebuilt,
           action # "HOLD" => rebuilt = action,
           rebuilt # action => \/ rebuilt = "BUY" /\ \E i \in DOMAIN e : Grazed(e[i], bs)
                               \/ rebuilt = "SELL" /\ \E i \in DOMAIN x : Grazed(x[i], bs)
    PROVE  SaidBy(Ruled(e, x), action, bs)
<1> DEFINE rules == Ruled(e, x)
           grazes(conditions) == \E i \in DOMAIN conditions : Grazed(conditions[i], bs)
<1>1. GroupOf(rules, "entryRules").conditions = e /\ GroupOf(rules, "exitRules").conditions = x
    BY DEF Ruled, GroupOf, Group
<1>2. rebuilt # action => \/ rebuilt = "BUY" /\ grazes(e)
                          \/ rebuilt = "SELL" /\ grazes(x)
    OBVIOUS
<1> HIDE DEF rules, grazes
<1>3. rebuilt # action =>
          grazes(GroupOf(rules, IF rebuilt = "BUY" THEN "entryRules" ELSE "exitRules").conditions)
    BY <1>1, <1>2
<1> QED BY <1>3 DEF SaidBy, Explains, rules, grazes

(* Each preset says what the rules say that it is rebuilt with.             *)
LEMMA RsiRebuilt ==
    ASSUME NEW bs \in Seq(Candles), NEW n \in Nat, Len(bs) = n, n > 1, NEW p, NEW q \in Nat,
           Count(p, "period") = q, q >= 2, q <= 200, NEW lo \in Fraction, NEW hi \in Fraction,
           Num(p, "oversold") = lo, Num(p, "overbought") = hi, AtMost(lo, hi),
           ~Bool(p, "requireTurn")
    PROVE  SaidBy(Rebuilt("rsiReversal", p), RsiReversal(bs, p).action, bs)
<1> DEFINE o == Indicator("RSI", [period |-> q])
           c == Condition(o, "lt", Constant(lo))
           d == Condition(o, "gt", Constant(hi))
           s == Rsi(Closes(bs), q)
           x == LastOf(s)
<1>1. Known(o) /\ o.type = "indicator" /\ o.name = "RSI" /\ Param(o, "period") = q
    BY PeriodKnown
<1>2. Rebuilt("rsiReversal", p) = Ruled(<<c>>, <<d>>)
    BY DEF Rebuilt, Ruled
<1> HIDE DEF o
<1>3. Series(o, bs) = s /\ s \in Seq(Numbers) /\ Len(s) = n
    BY <1>1, ReadIs, IndicatorIs
<1>5. x \in Numbers
    BY <1>3, LastIs
<1>6. ASSUME NEW v \in Fraction
      PROVE  /\ Known(Constant(v)) /\ Series(Constant(v), bs) \in Seq(Numbers)
             /\ Len(Series(Constant(v), bs)) = n /\ LastOf(Series(Constant(v), bs)) = v
    BY LevelKnown
<1>7. Said(c, bs) # "thrown" /\ (Said(c, bs) = "passed" <=> Less(x, lo))
    BY <1>1, <1>3, <1>6, ConditionPasses DEF Said, Passes
<1>8. Said(d, bs) # "thrown" /\ (Said(d, bs) = "passed" <=> Less(hi, x))
    BY <1>1, <1>3, <1>6, ConditionPasses DEF Said, Passes
<1>9. ~(Less(x, lo) /\ Less(hi, x))
    <2>1. CASE x = NaN
        BY <1>5, <2>1, NaNIs, NumbersClosed DEF Numbers
    <2>2. CASE x \in Fraction
        <3>1. Less(x, lo) => Less(x, hi)
            BY <2>2, LessPasses
        <3>2. Less(x, hi) => ~Less(hi, x)
            BY <2>2, Order
        <3> QED BY <3>1, <3>2
    <2> QED BY <1>5, <2>1, <2>2 DEF Numbers
<1>4. RsiReversal(bs, p).action = IF Less(x, lo) THEN "BUY" ELSE IF Less(hi, x) THEN "SELL" ELSE "HOLD"
    <2> DEFINE buy == ConfidenceFrom(Minus(lo, x), lo)
               sell == ConfidenceFrom(Minus(x, hi), Minus(Hundred, hi))
    <2>1. RsiReversal(bs, p) = CASE Less(x, lo) -> Signal("BUY", buy)
                                 [] Less(hi, x) -> Signal("SELL", sell)
                                 [] OTHER -> Hold
        BY DEF RsiReversal
    <2> HIDE DEF x, buy, sell
    <2> QED BY <1>9, <2>1 DEF Signal, Hold
<1> HIDE DEF c, d, x, s
<1>10. CustomRules(bs, Ruled(<<c>>, <<d>>)).action =
           IF Said(d, bs) = "passed" THEN "SELL" ELSE IF Said(c, bs) = "passed" THEN "BUY" ELSE "HOLD"
    BY <1>7, <1>8, OneSays
<1>11. CustomRules(bs, Ruled(<<c>>, <<d>>)).action = RsiReversal(bs, p).action
    BY <1>4, <1>7, <1>8, <1>9, <1>10
<1> QED BY <1>2, <1>11, SaidByRules

LEMMA NotBoth ==
    ASSUME NEW s \in Seq(Numbers), NEW t \in Seq(Numbers), NEW n \in Nat, n > 1, Len(s) = n, Len(t) = n
    PROVE  /\ ~(CrossedAbove(s, t) /\ CrossedBelow(s, t))
           /\ IsNaN(LastOf(s)) \/ IsNaN(LastOf(t)) => ~CrossedAbove(s, t) /\ ~CrossedBelow(s, t)
           /\ ~(Less(LastOf(s), LastOf(t)) /\ Less(LastOf(t), LastOf(s)))
<1>1. LastOf(s) \in Numbers /\ LastOf(t) \in Numbers
    BY LastIs
<1> DEFINE x == LastOf(s)
           y == LastOf(t)
<1>2. /\ CrossedAbove(s, t) => Less(y, x)
      /\ CrossedBelow(s, t) => Less(x, y)
    BY DEF CrossedAbove, CrossedBelow
<1> HIDE DEF x, y
<1>3. /\ IsNaN(x) \/ IsNaN(y) => ~Less(x, y) /\ ~Less(y, x)
    BY <1>1, NumbersClosed DEF x, y
<1>4. ~IsNaN(x) /\ ~IsNaN(y) => ~(Less(x, y) /\ Less(y, x))
    <2>1. ~IsNaN(x) /\ ~IsNaN(y) => x \in Fraction /\ y \in Fraction
        BY <1>1, NumbersAre DEF x, y
    <2> QED BY <2>1, Order
<1> QED BY <1>2, <1>3, <1>4 DEF x, y

LEMMA MacdRebuilt ==
    ASSUME NEW bs \in Seq(Candles), NEW n \in Nat, Len(bs) = n, n > 1, NEW p,
           NEW fast \in Nat, fast >= 2, fast <= 100, NEW slow \in Nat, slow >= 3, slow <= 200,
           NEW q \in Nat, q >= 2, q <= 50, fast < slow, Count(p, "fastPeriod") = fast,
           Count(p, "slowPeriod") = slow, Count(p, "signalPeriod") = q,
           ~Bool(p, "requirePositiveHistogram")
    PROVE  SaidBy(Rebuilt("macdCross", p), MacdCross(bs, p).action, bs)
<1> DEFINE lines == [fastPeriod |-> fast, slowPeriod |-> slow, signalPeriod |-> q]
           l == Output("MACD", lines, "macd")
           r == Output("MACD", lines, "signal")
           c == Condition(l, "crossesAbove", r)
           d == Condition(l, "crossesBelow", r)
           s == MacdLine(Closes(bs), fast, slow)
           t == MacdSignal(s, q)
           z == LastOf(Histogram(s, t))
<1>1. /\ Known(l) /\ l.type = "indicator" /\ l.name = "MACD" /\ OutputOf(l) = "macd"
      /\ Param(l, "fastPeriod") = fast /\ Param(l, "slowPeriod") = slow /\ Param(l, "signalPeriod") = q
    BY LinesKnown
<1>2. /\ Known(r) /\ r.type = "indicator" /\ r.name = "MACD" /\ OutputOf(r) = "signal"
      /\ Param(r, "fastPeriod") = fast /\ Param(r, "slowPeriod") = slow /\ Param(r, "signalPeriod") = q
    BY LinesKnown
<1>3. Rebuilt("macdCross", p) = Ruled(<<c>>, <<d>>)
    BY DEF Rebuilt, Ruled
<1> HIDE DEF l, r
<1>4. Series(l, bs) = s /\ s \in Seq(Numbers) /\ Len(s) = n
    BY <1>1, ReadIs, OutputIs DEF Line
<1>5. Series(r, bs) = t /\ t \in Seq(Numbers) /\ Len(t) = n
    BY <1>2, ReadIs, OutputIs DEF Line
<1>7. z = Minus(LastOf(s), LastOf(t))
    <2> HIDE DEF s, t
    <2>1. DOMAIN s = 1 .. n /\ n \in 1 .. n
        BY <1>4, SeqParts
    <2>2. Len(Histogram(s, t)) = n
        BY <2>1, TabledLength DEF Histogram
    <2> QED BY <1>4, <1>5, <2>1, <2>2 DEF Histogram, LastOf
<1>8. LastOf(s) \in Numbers /\ LastOf(t) \in Numbers
    BY <1>4, <1>5, LastIs
<1>9. IsNaN(z) => IsNaN(LastOf(s)) \/ IsNaN(LastOf(t))
    <2> DEFINE x == LastOf(s)
               y == LastOf(t)
    <2>1. x \in Fraction /\ y \in Fraction => Minus(x, y) \in Fraction
        BY Closed
    <2>2. \A v \in Fraction : ~IsNaN(v)
        BY FractionIs
    <2> QED BY <1>7, <1>8, <2>1, <2>2, NumbersAre
<1>10. /\ ~(CrossedAbove(s, t) /\ CrossedBelow(s, t))
       /\ IsNaN(z) => ~CrossedAbove(s, t) /\ ~CrossedBelow(s, t)
       /\ ~(Less(LastOf(s), LastOf(t)) /\ Less(LastOf(t), LastOf(s)))
    BY <1>4, <1>5, <1>9, NotBoth
<1>11. /\ Said(c, bs) # "thrown"
       /\ CrossedAbove(s, t) => Said(c, bs) = "passed"
       /\ Said(c, bs) = "passed" =>
              Less(LastOf(t), LastOf(s)) /\ (CrossedAbove(s, t) \/ Grazed(c, bs))
    BY <1>1, <1>2, <1>4, <1>5, ConditionPasses DEF Said, Passes
<1>12. /\ Said(d, bs) # "thrown"
       /\ CrossedBelow(s, t) => Said(d, bs) = "passed"
       /\ Said(d, bs) = "passed" =>
              Less(LastOf(s), LastOf(t)) /\ (CrossedBelow(s, t) \/ Grazed(d, bs))
    BY <1>1, <1>2, <1>4, <1>5, ConditionPasses DEF Said, Passes
<1>6. MacdCross(bs, p).action = IF CrossedAbove(s, t) THEN "BUY"
                                ELSE IF CrossedBelow(s, t) THEN "SELL" ELSE "HOLD"
    <2> DEFINE full == IF LastOf(s) = Zero THEN One ELSE Distance(LastOf(s), Zero)
               sure == Lesser(One, Over(Distance(z, Zero), full))
    <2>1. ~(fast >= slow)
        OBVIOUS
    <2>2. MacdCross(bs, p) = IF IsNaN(z) THEN Hold
                             ELSE CASE CrossedAbove(s, t) -> Signal("BUY", sure)
                                    [] CrossedBelow(s, t) -> Signal("SELL", sure)
                                    [] OTHER -> Hold
        BY <2>1 DEF MacdCross
    <2> HIDE DEF s, t, z, sure
    <2> QED BY <1>10, <2>2 DEF Signal, Hold
<1> HIDE DEF c, d, s, t, z
<1>13. CustomRules(bs, Ruled(<<c>>, <<d>>)).action =
           IF Said(d, bs) = "passed" THEN "SELL" ELSE IF Said(c, bs) = "passed" THEN "BUY" ELSE "HOLD"
    BY <1>11, <1>12, OneSays
<1> DEFINE e == <<c>>
           x == <<d>>
<1>14. DOMAIN e = 1 .. 1 /\ DOMAIN x = 1 .. 1 /\ e[1] = c /\ x[1] = d /\ 1 \in 1 .. 1
    OBVIOUS
<1> HIDE DEF e, x
<1> DEFINE action == MacdCross(bs, p).action
           rebuilt == CustomRules(bs, Ruled(e, x)).action
<1>15. rebuilt = IF Said(d, bs) = "passed" THEN "SELL" ELSE IF Said(c, bs) = "passed" THEN "BUY" ELSE "HOLD"
    BY <1>13 DEF e, x
<1>16. /\ action # "HOLD" => rebuilt = action
       /\ rebuilt # action => \/ rebuilt = "BUY" /\ Grazed(c, bs)
                              \/ rebuilt = "SELL" /\ Grazed(d, bs)
    BY <1>6, <1>10, <1>11, <1>12, <1>15
<1> HIDE DEF action, rebuilt
<1>17. SaidBy(Ruled(e, x), action, bs)
    BY <1>14, <1>16, SaidByRules DEF rebuilt
<1> QED BY <1>3, <1>17 DEF action, e, x

LEMMA EmaRebuilt ==
    ASSUME NEW bs \in Seq(Candles), NEW n \in Nat, Len(bs) = n, n > 1, NEW p,
           NEW fast \in Nat, fast >= 2, fast <= 200, NEW slow \in Nat, slow >= 3, slow <= 500,
           fast < slow, Count(p, "fastPeriod") = fast, Count(p, "slowPeriod") = slow,
           ~Bool(p, "volumeFilter")
    PROVE  SaidBy(Rebuilt("emaCross", p), EmaCross(bs, p).action, bs)
<1> DEFINE l == Indicator("EMA", [period |-> fast])
           r == Indicator("EMA", [period |-> slow])
           c == Condition(l, "crossesAbove", r)
           d == Condition(l, "crossesBelow", r)
           s == Ema(Closes(bs), fast)
           t == Ema(Closes(bs), slow)
<1>1. Known(l) /\ l.type = "indicator" /\ l.name = "EMA" /\ Param(l, "period") = fast
    BY PeriodKnown
<1>2. Known(r) /\ r.type = "indicator" /\ r.name = "EMA" /\ Param(r, "period") = slow
    <2>1. slow >= 2
        OBVIOUS
    <2> QED BY <2>1, PeriodKnown
<1>3. Rebuilt("emaCross", p) = Ruled(<<c>>, <<d>>)
    BY DEF Rebuilt, Ruled
<1> HIDE DEF l, r
<1>4. Series(l, bs) = s /\ s \in Seq(Numbers) /\ Len(s) = n
    BY <1>1, ReadIs, IndicatorIs
<1>5. Series(r, bs) = t /\ t \in Seq(Numbers) /\ Len(t) = n
    BY <1>2, ReadIs, IndicatorIs
<1>6. /\ ~(CrossedAbove(s, t) /\ CrossedBelow(s, t))
      /\ IsNaN(LastOf(t)) => ~CrossedAbove(s, t) /\ ~CrossedBelow(s, t)
      /\ ~(Less(LastOf(s), LastOf(t)) /\ Less(LastOf(t), LastOf(s)))
    BY <1>4, <1>5, NotBoth
<1>7. EmaCross(bs, p).action = IF CrossedAbove(s, t) THEN "BUY"
                               ELSE IF CrossedBelow(s, t) THEN "SELL" ELSE "HOLD"
    <2> DEFINE sure == ConfidenceFrom(Over(Distance(LastOf(s), LastOf(t)), LastOf(t)), Ratio(1, 50))
    <2>1. ~(fast >= slow)
        OBVIOUS
    <2>2. EmaCross(bs, p) = IF IsNaN(LastOf(t)) THEN Hold
                            ELSE CASE CrossedAbove(s, t) -> Signal("BUY", sure)
                                   [] CrossedBelow(s, t) -> Signal("SELL", sure)
                                   [] OTHER -> Hold
        BY <2>1 DEF EmaCross
    <2> HIDE DEF s, t, sure
    <2> QED BY <1>6, <2>2 DEF Signal, Hold
<1>8. /\ Said(c, bs) # "thrown"
      /\ CrossedAbove(s, t) => Said(c, bs) = "passed"
      /\ Said(c, bs) = "passed" =>
             Less(LastOf(t), LastOf(s)) /\ (CrossedAbove(s, t) \/ Grazed(c, bs))
    BY <1>1, <1>2, <1>4, <1>5, ConditionPasses DEF Said, Passes
<1>9. /\ Said(d, bs) # "thrown"
      /\ CrossedBelow(s, t) => Said(d, bs) = "passed"
      /\ Said(d, bs) = "passed" =>
             Less(LastOf(s), LastOf(t)) /\ (CrossedBelow(s, t) \/ Grazed(d, bs))
    BY <1>1, <1>2, <1>4, <1>5, ConditionPasses DEF Said, Passes
<1> HIDE DEF c, d, s, t
<1>15. Said(c, bs) # "thrown" /\ Said(d, bs) # "thrown"
    BY <1>8, <1>9
<1>10. CustomRules(bs, Ruled(<<c>>, <<d>>)).action =
           IF Said(d, bs) = "passed" THEN "SELL" ELSE IF Said(c, bs) = "passed" THEN "BUY" ELSE "HOLD"
    BY <1>15, OneSays
<1> DEFINE e == <<c>>
           x == <<d>>
<1>11. DOMAIN e = 1 .. 1 /\ DOMAIN x = 1 .. 1 /\ e[1] = c /\ x[1] = d /\ 1 \in 1 .. 1
    OBVIOUS
<1> HIDE DEF e, x
<1> DEFINE action == EmaCross(bs, p).action
           rebuilt == CustomRules(bs, Ruled(e, x)).action
<1>12. rebuilt = IF Said(d, bs) = "passed" THEN "SELL" ELSE IF Said(c, bs) = "passed" THEN "BUY" ELSE "HOLD"
    BY <1>10 DEF e, x
<1>13. /\ action # "HOLD" => rebuilt = action
       /\ rebuilt # action => \/ rebuilt = "BUY" /\ Grazed(c, bs)
                              \/ rebuilt = "SELL" /\ Grazed(d, bs)
    BY <1>6, <1>7, <1>8, <1>9, <1>12
<1> HIDE DEF action, rebuilt
<1>14. SaidBy(Ruled(e, x), action, bs)
    BY <1>11, <1>13, SaidByRules DEF rebuilt
<1> QED BY <1>3, <1>14 DEF action, e, x

LEMMA StochasticRebuilt ==
    ASSUME NEW bs \in Seq(Candles), NEW n \in Nat, Len(bs) = n, n > 1, NEW p,
           NEW q \in Nat, q >= 2, q <= 200, NEW m \in Nat, m >= 1, m <= 50,
           Count(p, "period") = q, Count(p, "smoothing") = m,
           NEW lo \in Fraction, NEW hi \in Fraction,
           Num(p, "oversold") = lo, Num(p, "overbought") = hi, AtMost(lo, hi)
    PROVE  SaidBy(Rebuilt("stochasticCross", p), StochasticCross(bs, p).action, bs)
<1> DEFINE place(output) == Output("STOCHASTIC", [period |-> q, smoothing |-> m], output)
           k == place("k")
           r == place("d")
           c == Condition(k, "lt", Constant(lo))
           d == Condition(k, "crossesAbove", r)
           f == Condition(k, "gt", Constant(hi))
           g == Condition(k, "crossesBelow", r)
           s == StochasticK(bs, q)
           t == StochasticD(s, m)
           x == LastOf(s)
<1>1. /\ Known(k) /\ k.type = "indicator" /\ k.name = "STOCHASTIC" /\ OutputOf(k) = "k"
      /\ Param(k, "period") = q /\ Param(k, "smoothing") = m
    BY PlaceKnown
<1>2. /\ Known(r) /\ r.type = "indicator" /\ r.name = "STOCHASTIC" /\ OutputOf(r) = "d"
      /\ Param(r, "period") = q /\ Param(r, "smoothing") = m
    BY PlaceKnown
<1>3. Rebuilt("stochasticCross", p) = Ruled(<<c, d>>, <<f, g>>)
    BY DEF Rebuilt, Ruled
<1> HIDE DEF k, r
<1>4. Series(k, bs) = s /\ s \in Seq(Numbers) /\ Len(s) = n
    BY <1>1, ReadIs, OutputIs
<1>5. Series(r, bs) = t /\ t \in Seq(Numbers) /\ Len(t) = n
    BY <1>2, ReadIs, OutputIs
<1>6. /\ ~(CrossedAbove(s, t) /\ CrossedBelow(s, t))
      /\ ~(Less(LastOf(s), LastOf(t)) /\ Less(LastOf(t), LastOf(s)))
    BY <1>4, <1>5, NotBoth
<1>7. StochasticCross(bs, p).action =
          IF Less(x, lo) /\ CrossedAbove(s, t) THEN "BUY"
          ELSE IF Less(hi, x) /\ CrossedBelow(s, t) THEN "SELL" ELSE "HOLD"
    <2> DEFINE buy == ConfidenceFrom(Minus(lo, x), lo)
               sell == ConfidenceFrom(Minus(x, hi), Minus(Hundred, hi))
    <2>1. StochasticCross(bs, p) = CASE Less(x, lo) /\ CrossedAbove(s, t) -> Signal("BUY", buy)
                                     [] Less(hi, x) /\ CrossedBelow(s, t) -> Signal("SELL", sell)
                                     [] OTHER -> Hold
        BY DEF StochasticCross
    <2> HIDE DEF s, t, x, buy, sell
    <2> QED BY <1>6, <2>1 DEF Signal, Hold
<1>8. ASSUME NEW v \in Fraction
      PROVE  /\ Known(Constant(v)) /\ Series(Constant(v), bs) \in Seq(Numbers)
             /\ Len(Series(Constant(v), bs)) = n /\ LastOf(Series(Constant(v), bs)) = v
    BY LevelKnown
<1>9. Said(c, bs) # "thrown" /\ (Said(c, bs) = "passed" <=> Less(x, lo))
    BY <1>1, <1>4, <1>8, ConditionPasses DEF Said, Passes
<1>10. Said(f, bs) # "thrown" /\ (Said(f, bs) = "passed" <=> Less(hi, x))
    BY <1>1, <1>4, <1>8, ConditionPasses DEF Said, Passes
<1>11. /\ Said(d, bs) # "thrown"
       /\ CrossedAbove(s, t) => Said(d, bs) = "passed"
       /\ Said(d, bs) = "passed" =>
              Less(LastOf(t), LastOf(s)) /\ (CrossedAbove(s, t) \/ Grazed(d, bs))
    BY <1>1, <1>2, <1>4, <1>5, ConditionPasses DEF Said, Passes
<1>12. /\ Said(g, bs) # "thrown"
       /\ CrossedBelow(s, t) => Said(g, bs) = "passed"
       /\ Said(g, bs) = "passed" =>
              Less(LastOf(s), LastOf(t)) /\ (CrossedBelow(s, t) \/ Grazed(g, bs))
    BY <1>1, <1>2, <1>4, <1>5, ConditionPasses DEF Said, Passes
<1> HIDE DEF c, d, f, g, s, t, x
<1>13. CustomRules(bs, Ruled(<<c, d>>, <<f, g>>)).action =
           IF Said(f, bs) = "passed" /\ Said(g, bs) = "passed" THEN "SELL"
           ELSE IF Said(c, bs) = "passed" /\ Said(d, bs) = "passed" THEN "BUY" ELSE "HOLD"
    BY <1>9, <1>10, <1>11, <1>12, TwoSay
<1> DEFINE e == <<c, d>>
           y == <<f, g>>
<1>14. /\ DOMAIN e = 1 .. 2 /\ DOMAIN y = 1 .. 2 /\ e[2] = d /\ y[2] = g /\ 2 \in 1 .. 2
    OBVIOUS
<1> HIDE DEF e, y
<1> DEFINE action == StochasticCross(bs, p).action
           rebuilt == CustomRules(bs, Ruled(e, y)).action
<1>15. rebuilt = IF Said(f, bs) = "passed" /\ Said(g, bs) = "passed" THEN "SELL"
                 ELSE IF Said(c, bs) = "passed" /\ Said(d, bs) = "passed" THEN "BUY" ELSE "HOLD"
    BY <1>13 DEF e, y
<1>16. /\ action # "HOLD" => rebuilt = action
       /\ rebuilt # action => \/ rebuilt = "BUY" /\ Grazed(d, bs)
                              \/ rebuilt = "SELL" /\ Grazed(g, bs)
    BY <1>6, <1>7, <1>9, <1>10, <1>11, <1>12, <1>15
<1> HIDE DEF action, rebuilt
<1>17. SaidBy(Ruled(e, y), action, bs)
    BY <1>14, <1>16, SaidByRules DEF rebuilt
<1> QED BY <1>3, <1>17 DEF action, e, y

(* The thresholds are on their sides of the middle, and a bot has at least  *)
(* two candles.                                                             *)
LEMMA PlainIs ==
    ASSUME Configured, Plain(key, config)
    PROVE  LET count(x) == Count(config, x)
               lo == Num(config, "oversold")
               hi == Num(config, "overbought")
           IN /\ Required(key, config) \in Nat /\ Required(key, config) > 1
              /\ key = "rsiReversal" =>
                    /\ count("period") \in Nat /\ count("period") >= 2 /\ count("period") <= 200
                    /\ ~Bool(config, "requireTurn")
              /\ key = "macdCross" =>
                    /\ count("fastPeriod") \in Nat /\ count("fastPeriod") >= 2 /\ count("fastPeriod") <= 100
                    /\ count("slowPeriod") \in Nat /\ count("slowPeriod") >= 3 /\ count("slowPeriod") <= 200
                    /\ count("signalPeriod") \in Nat /\ count("signalPeriod") >= 2 /\ count("signalPeriod") <= 50
                    /\ count("fastPeriod") < count("slowPeriod") /\ ~Bool(config, "requirePositiveHistogram")
              /\ key = "emaCross" =>
                    /\ count("fastPeriod") \in Nat /\ count("fastPeriod") >= 2 /\ count("fastPeriod") <= 200
                    /\ count("slowPeriod") \in Nat /\ count("slowPeriod") >= 3 /\ count("slowPeriod") <= 500
                    /\ count("fastPeriod") < count("slowPeriod") /\ ~Bool(config, "volumeFilter")
              /\ key = "stochasticCross" =>
                    /\ count("period") \in Nat /\ count("period") >= 2 /\ count("period") <= 200
                    /\ count("smoothing") \in Nat /\ count("smoothing") >= 1 /\ count("smoothing") <= 50
              /\ key \in {"rsiReversal", "stochasticCross"} =>
                    lo \in Fraction /\ hi \in Fraction /\ AtMost(lo, hi)
<1> DEFINE n == Required(key, config)
           q == Needs(key, config)
           count(x) == Count(config, x)
           lo == Num(config, "oversold")
           hi == Num(config, "overbought")
<1>1. q \in Nat /\ n \in Nat /\ n >= q
    BY RequiredIs
<1>2. key \in {"rsiReversal", "macdCross", "emaCross", "stochasticCross"}
    BY DEF Plain
<1>3. ASSUME key \in {"rsiReversal", "stochasticCross"}
      PROVE  lo \in Fraction /\ hi \in Fraction /\ AtMost(lo, hi)
    <2>1. Level(config, "oversold", Whole(1), Whole(49)) /\ Level(config, "overbought", Whole(51), Whole(99))
        BY <1>3, ConfigIs
    <2>2. lo \in Fraction /\ hi \in Fraction /\ AtMost(lo, Whole(49)) /\ AtMost(Whole(51), hi)
        BY <2>1 DEF Level
    <2>3. Whole(49) \in Fraction /\ Whole(51) \in Fraction /\ AtMost(Whole(49), Whole(51))
        BY WholesAre
    <2>4. AtMost(lo, Whole(51))
        BY <2>2, <2>3, OrderPasses
    <2> QED BY <2>2, <2>3, <2>4, OrderPasses
<1>4. CASE key = "rsiReversal"
    <2>1. count("period") \in 2 .. 100 /\ q = count("period") * 3
        BY <1>4, ConfigIs DEF Length, Needs
    <2>2. ~Bool(config, "requireTurn")
        BY <1>4 DEF Plain
    <2> HIDE DEF n, q, count, lo, hi
    <2>3. n > 1 /\ count("period") \in Nat /\ count("period") >= 2 /\ count("period") <= 200
        BY <1>1, <2>1
    <2> QED BY <1>1, <1>3, <1>4, <2>2, <2>3 DEF n, count, lo, hi
<1>5. CASE key = "macdCross"
    <2>1. /\ count("fastPeriod") \in 2 .. 100 /\ count("slowPeriod") \in 3 .. 200
          /\ count("signalPeriod") \in 2 .. 50 /\ q = count("slowPeriod") + count("signalPeriod") * 3
        BY <1>5, ConfigIs DEF Length, Needs
    <2>2. ~Bool(config, "requirePositiveHistogram") /\ count("fastPeriod") < count("slowPeriod")
        BY <1>5 DEF Plain, Ordered
    <2> HIDE DEF n, q, count, lo, hi
    <2>3. /\ n > 1
          /\ count("fastPeriod") \in Nat /\ count("fastPeriod") >= 2 /\ count("fastPeriod") <= 100
          /\ count("slowPeriod") \in Nat /\ count("slowPeriod") >= 3 /\ count("slowPeriod") <= 200
          /\ count("signalPeriod") \in Nat /\ count("signalPeriod") >= 2 /\ count("signalPeriod") <= 50
        BY <1>1, <2>1
    <2> QED BY <1>1, <1>5, <2>2, <2>3 DEF n, count
<1>6. CASE key = "emaCross"
    <2>1. /\ count("fastPeriod") \in 2 .. 200 /\ count("slowPeriod") \in 3 .. 500
          /\ q = count("slowPeriod") + 20
        BY <1>6, ConfigIs DEF Length, Needs
    <2>2. ~Bool(config, "volumeFilter") /\ count("fastPeriod") < count("slowPeriod")
        BY <1>6 DEF Plain, Ordered
    <2> HIDE DEF n, q, count, lo, hi
    <2>3. /\ n > 1
          /\ count("fastPeriod") \in Nat /\ count("fastPeriod") >= 2 /\ count("fastPeriod") <= 200
          /\ count("slowPeriod") \in Nat /\ count("slowPeriod") >= 3 /\ count("slowPeriod") <= 500
        BY <1>1, <2>1
    <2> QED BY <1>1, <1>6, <2>2, <2>3 DEF n, count
<1>7. CASE key = "stochasticCross"
    <2>1. /\ count("period") \in 2 .. 100 /\ count("smoothing") \in 1 .. 20
          /\ q = count("period") + count("smoothing") * 3
        BY <1>7, ConfigIs DEF Length, Needs
    <2> HIDE DEF n, q, count, lo, hi
    <2>3. /\ n > 1 /\ count("period") \in Nat /\ count("period") >= 2 /\ count("period") <= 200
          /\ count("smoothing") \in Nat /\ count("smoothing") >= 1 /\ count("smoothing") <= 50
        BY <1>1, <2>1
    <2> QED BY <1>1, <1>3, <1>7, <2>3 DEF n, count, lo, hi
<1> QED BY <1>2, <1>4, <1>5, <1>6, <1>7

(* A preset and the rules that say the same agree, whatever its settings    *)
(* and the candles, but for crossings within the tolerance of the rules.    *)
LEMMA RebuiltAgreesHolds ==
    StrategiesInv => RebuiltAgrees
<1> SUFFICES ASSUME StrategiesInv, Plain(key, config), Len(bars) >= Required(key, config)
             PROVE  SaidBy(Rebuilt(key, config), signal.action,
                           Window(bars, Len(bars), Required(key, config)))
    BY DEF RebuiltAgrees
<1> DEFINE n == Required(key, config)
           w == Window(bars, Len(bars), n)
<1>0. Configured
    BY DEF StrategiesInv
<1>1. w \in Seq(Candles) /\ Len(w) = n /\ signal = Verdict(key, w, config)
    BY EvaluatedOn
<1>2. n \in Nat /\ n > 1
    BY <1>0, PlainIs
<1> HIDE DEF n, w
<1>3. key \in {"rsiReversal", "macdCross", "emaCross", "stochasticCross"}
    BY DEF Plain
<1>4. SaidBy(Rebuilt(key, config), Verdict(key, w, config).action, w)
    <2>1. CASE key = "rsiReversal"
        <3>1. SaidBy(Rebuilt("rsiReversal", config), RsiReversal(w, config).action, w)
            BY <1>0, <1>1, <1>2, <2>1, PlainIs, RsiRebuilt
        <3> QED BY <2>1, <3>1 DEF Verdict
    <2>2. CASE key = "macdCross"
        <3>1. SaidBy(Rebuilt("macdCross", config), MacdCross(w, config).action, w)
            BY <1>0, <1>1, <1>2, <2>2, PlainIs, MacdRebuilt
        <3> QED BY <2>2, <3>1 DEF Verdict
    <2>3. CASE key = "emaCross"
        <3>1. SaidBy(Rebuilt("emaCross", config), EmaCross(w, config).action, w)
            BY <1>0, <1>1, <1>2, <2>3, PlainIs, EmaRebuilt
        <3> QED BY <2>3, <3>1 DEF Verdict
    <2>4. CASE key = "stochasticCross"
        <3>1. SaidBy(Rebuilt("stochasticCross", config), StochasticCross(w, config).action, w)
            BY <1>0, <1>1, <1>2, <2>4, PlainIs, StochasticRebuilt
        <3> QED BY <2>4, <3>1 DEF Verdict
    <2> QED BY <1>3, <2>1, <2>2, <2>3, <2>4
<1> QED BY <1>1, <1>4 DEF n, w

(* What a preset does, the rules do that a user would build for the same    *)
(* thing; and they do no more, but for a crossing that only their tolerance *)
(* sees: one reading of a missing value, and two crossings that differ only *)
(* there, for every tolerance.                                              *)
THEOREM RebuiltAgreesAlways == Spec => []RebuiltAgrees
BY StrategiesInvariant, RebuiltAgreesHolds, PTL

=============================================================================
