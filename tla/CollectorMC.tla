----------------------------- MODULE CollectorMC -----------------------------
(* Three symbols, one of each API, whose histories have pauses.  The pause of  *)
(* "k" is longer than a window, that of "c" is not.                            *)
EXTENDS Collector

MCSeeded == <<"k", "c">>
MCKind == [k |-> "kucoin", b |-> "binance", c |-> "ccxt"]
MCHistory == [k |-> {1, 5, 8}, b |-> 4 .. 8, c |-> {3, 5, 8}]
=============================================================================
