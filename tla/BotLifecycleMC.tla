---------------------------- MODULE BotLifecycleMC ----------------------------
(***************************************************************************)
(* Three bots: the seeded one, a LIVE one, and a LIVE one without          *)
(* credentials that only table bots can bring in.                          *)
(***************************************************************************)
EXTENDS BotLifecycle

MCOrder == <<"titan", "legacy", "live">>
Row(titan, legacy, live) ==
    [b \in Bots |-> CASE b = "titan" -> titan [] b = "legacy" -> legacy [] b = "live" -> live]
MCTables == {Row("none", "none", "none"), Row("RUNNING", "none", "PAUSED"),
             Row("STOPPED", "RUNNING", "RUNNING")}
=============================================================================
