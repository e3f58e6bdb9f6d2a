------------------------------ MODULE BotLedger ------------------------------
(***************************************************************************)
(* What the books of one trading bot promise: five running amounts and the *)
(* four bookings that may change them; and the one way an amount gets lost *)
(* between them, a capital movement booked in the totals while the balance *)
(* is being overwritten.  A booking is stated by what it does to the       *)
(* amounts, so that the module needs no set of amounts: the cost of a buy  *)
(* is what it adds to the invested amount, and so on.                      *)
(* LiveRunner, the detailed runner, is shown to implement this module;     *)
(* LiveRunner_proofs proves the identity every booking keeps.              *)
(***************************************************************************)
EXTENDS Integers

CONSTANT Budget  \* initial capital of the bot, config.budget

VARIABLES
    available,   \* BotInstance.available_usdt
    invested,    \* sum of allocated_budget over the active tranches
    profit,      \* BotInstance.total_realized_profit
    deposited,   \* BotInstance.total_deposited_amount
    withdrawn,   \* BotInstance.total_withdrawn_amount
    overwritten  \* net capital that entered the totals and not the balance

vars == <<available, invested, profit, deposited, withdrawn, overwritten>>

\* Money is counted in whole units.
TypeOK == {available, invested, profit, deposited, withdrawn, overwritten} \subseteq Int

Init ==
    /\ available = Budget
    /\ invested = 0
    /\ profit = 0
    /\ deposited = 0
    /\ withdrawn = 0
    /\ overwritten = 0

\* A filled buy moves its cost from the available balance into a tranche.
Buy ==
    /\ invested' > invested
    /\ available' = available - (invested' - invested)
    /\ UNCHANGED <<profit, deposited, withdrawn, overwritten>>

\* A filled sell takes a tranche's cost out and brings in its net revenue; the
\* difference of the two is the realized profit.
Sell ==
    LET cost == invested - invested'
        revenue == available' - available
    IN  /\ cost > 0
        /\ profit' = profit + (revenue - cost)
        /\ UNCHANGED <<deposited, withdrawn, overwritten>>

\* Capital that enters the bot.
Deposit ==
    /\ deposited' > deposited
    /\ available' = available + (deposited' - deposited)
    /\ UNCHANGED <<invested, profit, withdrawn, overwritten>>

\* Capital that leaves the bot.
Withdraw ==
    /\ withdrawn' > withdrawn
    /\ available' = available - (withdrawn' - withdrawn)
    /\ UNCHANGED <<invested, profit, deposited, overwritten>>

\* Capital that enters or leaves the totals while the balance is overwritten.
Lose ==
    /\ overwritten' - overwritten = (deposited' - deposited) - (withdrawn' - withdrawn)
    /\ UNCHANGED <<available, invested, profit>>

Next == TypeOK' /\ (Buy \/ Sell \/ Deposit \/ Withdraw \/ Lose)

Spec == Init /\ [][Next]_vars

-----------------------------------------------------------------------------
\* Everything the bot ever owned is liquid, in a tranche or overwritten: the
\* cash and the invested cost add up to the budget, the realized profit and
\* the net capital that entered and was not lost.  The strategies size new
\* tranches from the right-hand side and check them against the left-hand one.
Identity ==
    available + invested = Budget + profit + deposited - withdrawn - overwritten
=============================================================================
