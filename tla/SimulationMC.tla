----------------------------- MODULE SimulationMC -----------------------------
(* An instance of Simulation: a ladder of prices, each in three regimes. *)
EXTENDS Simulation

Candle(low, close, high) == [low |-> low, close |-> close, high |-> high]

\* ATR 40: two ATR are the drop from tranche 0 to tranche 1.
Prices == {Candle(700, 750, 800), Candle(840, 880, 900), Candle(950, 1000, 1000),
           Candle(1000, 1060, 1100), Candle(1150, 1200, 1200)}

WithIndicators(c, ema50, ema200, adx, rsi) ==
    [low |-> c.low, close |-> c.close, high |-> c.high, atr |-> 40, donchian |-> c.high,
     macro |-> 700, ema50 |-> ema50, ema200 |-> ema200, adx |-> adx, rsi |-> rsi]

Calm(c) == WithIndicators(c, 1000, 700, 10, 40)
Bull(c) == WithIndicators(c, c.close - 1, 700, 30, 60)
Panic(c) == WithIndicators(c, 1300, 1300, 30, 20)

MCRows == {Calm(c) : c \in Prices} \cup {Bull(c) : c \in Prices}
             \cup {Panic(c) : c \in {d \in Prices : d.high < 1000}}
MCWeights == <<400, 300>>
=============================================================================
