--------------------------- MODULE TradeJournalMC ---------------------------
(* A configuration file holds no negative number: what a PUT may set the    *)
(* remainder of a trade to.                                                 *)
EXTENDS TradeJournal

SomeRems == {-4}
=============================================================================
