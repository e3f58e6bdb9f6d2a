----------------------------- MODULE BotLifecycle -----------------------------
(***************************************************************************)
(* Which bots trade: the registry BotService keeps in memory and in table  *)
(* bots, the API calls that create, pause, resume and stop a bot, the      *)
(* runner that walks over the registry, and restarts of the process.       *)
(*                                                                         *)
(* Every worker of the server is a process with a registry and a runner of *)
(* its own.  Inside a worker the calls and the runner share one event      *)
(* loop: a call runs when the runner sleeps or awaits.  What the runner    *)
(* does for a dry-run bot has no await; for a LIVE bot it awaits the       *)
(* exchange, before each order among others.                               *)
(***************************************************************************)
EXTENDS Integers, SequencesExt

CONSTANTS
    Workers,      \* processes of the server
    Order,        \* every bot id, in the order of creation
    Default,      \* the bot seeded into an empty table
    Live,         \* bots that are not dry_run
    Keyed,        \* bots with subaccount credentials
    Tables,       \* contents of table bots to start from
    MaxCalls,     \* bound: calls of the API
    MaxRestarts   \* bound: restarts of a worker

Bots == Range(Order)
Statuses == {"RUNNING", "PAUSED", "STOPPED"}
Status == Statuses \cup {"none"}
ASSUME LifecycleAssumption ==
    /\ Default \in Bots /\ Default \notin Live
    /\ Tables \subseteq [Bots -> Status]
    /\ MaxCalls \in Nat /\ MaxRestarts \in Nat

VARIABLES
    db,         \* table bots: status, or "none" without a row
    status,     \* BotService.bots of each worker: status, or "none"
    todo,       \* bots the cycle of each worker has still to visit
    visiting,   \* whether that cycle awaits inside the visit of the first of them
    calls, restarts,
    ghost       \* see Init

cycleVars == <<todo, visiting>>
boundVars == <<calls, restarts>>
vars == <<db, status, cycleVars, boundVars, ghost>>

Keyless == Live \ Keyed

\* _init_default_bots: the rows, or the seeded bot when there are none.
Seeded(rows) == IF \A b \in Bots : rows[b] = "none" THEN [rows EXCEPT ![Default] = "STOPPED"] ELSE rows

\* Ghosts: what the last successful call for a bot answered; the bots for which
\* a call failed half-way; those halted in memory since their last call; those
\* visited while a call that ended their trading was answered; those that
\* bought after such a call all the same; the bot each worker visited last.
Init ==
    /\ \E rows \in Tables :
         /\ db = Seeded(rows)
         /\ status = [w \in Workers |-> Seeded(rows)]
         /\ ghost = [told |-> Seeded(rows), torn |-> {}, halted |-> {}, caught |-> {}, late |-> {},
                     last |-> [w \in Workers |-> Default]]
    /\ todo = [w \in Workers |-> <<>>]
    /\ visiting = [w \in Workers |-> FALSE]
    /\ calls = 0 /\ restarts = 0

(* ------------------------------ API calls -------------------------------- *)
\* The loop of a worker takes a call between two steps of the runner: all of
\* them, since a step that does not await is one action here.
Called(w, b, s) ==
    /\ calls < MaxCalls /\ calls' = calls + 1
    /\ status' = [status EXCEPT ![w][b] = s]
    /\ UNCHANGED <<cycleVars, restarts>>

Visited(b) == \E w \in Workers : visiting[w] /\ Head(todo[w]) = b
Answered(b, s) ==
    ghost' = [ghost EXCEPT
        !.told[b] = s, !.torn = @ \ {b}, !.halted = @ \ {b},
        !.caught = IF s # "RUNNING" /\ Visited(b) THEN @ \cup {b} ELSE @ \ {b}]
FailedHalfWay(b) ==
    ghost' = [ghost EXCEPT !.torn = @ \cup {b}, !.halted = @ \ {b}]

\* Mutant: the row is left to the next save.
UpdatedNever(b, s) == db
\* update_status: nothing happens to a bot without a row, and nobody notices.
Updated(b, s) == IF db[b] = "none" THEN db ELSE [db EXCEPT ![b] = s]

\* pause_bot, stop_bot, resume_bot: memory, then table bots, then the event.
SetStatus(w, b, s) ==
    /\ status[w][b] # "none"
    /\ s = "RUNNING" => b \notin Keyless
    /\ Called(w, b, s)
    /\ \/ db' = Updated(b, s) /\ Answered(b, s)
       \/ db' \in {db, Updated(b, s)} /\ FailedHalfWay(b)

\* create_bot: refused for an id in memory, or LIVE without credentials; memory
\* first, so that a failed save leaves a bot that runs and has no row.
Create(w, b) ==
    /\ status[w][b] = "none" /\ b \notin Keyless
    /\ Called(w, b, "RUNNING")
    /\ \/ db' = [db EXCEPT ![b] = "RUNNING"] /\ Answered(b, "RUNNING")
       \/ db' \in {db, [db EXCEPT ![b] = "RUNNING"]} /\ FailedHalfWay(b)

(* ------------------------------ the runner ------------------------------- *)
Registered(w) == SelectSeq(Order, LAMBDA b : status[w][b] # "none")
\* Mutant: the cycle is over the first bot only.
SnapshotFirst(w) == IF Registered(w) = <<>> THEN <<>> ELSE <<Head(Registered(w))>>
\* list(self.bots.items())
Snapshot(w) == Registered(w)

StartCycle(w) ==
    /\ todo[w] = <<>> /\ todo' = [todo EXCEPT ![w] = Snapshot(w)]
    /\ UNCHANGED <<db, status, visiting, boundVars, ghost>>

Done(w) == todo' = [todo EXCEPT ![w] = Tail(@)]
At(w, b) == todo[w] # <<>> /\ ~visiting[w] /\ Head(todo[w]) = b

\* Mutant: the status is not looked at.
NeverSkipped(w, b) == FALSE
Skipped(w, b) == status[w][b] # "RUNNING"

Skip(w, b) ==
    /\ At(w, b) /\ Skipped(w, b)
    /\ Done(w) /\ ghost' = [ghost EXCEPT !.last[w] = b]
    /\ UNCHANGED <<db, status, visiting, boundVars>>

\* bot.status = "STOPPED": the runner the application makes has no BotService
\* to write it to table bots with.
HaltedInMemory(w, b) == [status EXCEPT ![w][b] = "STOPPED"]

\* get_exchange_client raises for a LIVE bot without credentials.
Halt(w, b) ==
    /\ At(w, b) /\ ~Skipped(w, b) /\ b \in Keyless
    /\ status' = HaltedInMemory(w, b)
    /\ Done(w) /\ ghost' = [ghost EXCEPT !.last[w] = b, !.halted = @ \cup {b}]
    /\ UNCHANGED <<db, visiting, boundVars>>

\* A buy is late when a call ended the trading of the bot before its visit began.
Late(b) == IF ghost.told[b] # "RUNNING" /\ b \notin ghost.caught \cup ghost.torn THEN {b} ELSE {}

\* A dry-run bot is visited in one go.
VisitDry(w, b) ==
    /\ At(w, b) /\ ~Skipped(w, b) /\ b \notin Live
    /\ Done(w) /\ ghost' = [ghost EXCEPT !.last[w] = b, !.late = @ \cup Late(b)]
    /\ UNCHANGED <<db, status, visiting, boundVars>>

\* A LIVE bot is visited from its first await on; the status is not read again.
BeginVisit(w, b) ==
    /\ At(w, b) /\ ~Skipped(w, b) /\ b \in Live \cap Keyed
    /\ visiting' = [visiting EXCEPT ![w] = TRUE]
    /\ UNCHANGED <<db, status, todo, boundVars, ghost>>
Buy(w) ==
    /\ visiting[w]
    /\ ghost' = [ghost EXCEPT !.late = @ \cup Late(Head(todo[w]))]
    /\ UNCHANGED <<db, status, cycleVars, boundVars>>
EndVisit(w) ==
    /\ visiting[w] /\ visiting' = [visiting EXCEPT ![w] = FALSE]
    /\ Done(w) /\ ghost' = [ghost EXCEPT !.last[w] = Head(todo[w]), !.caught = @ \ {Head(todo[w])}]
    /\ UNCHANGED <<db, status, boundVars>>

\* A database error ends the cycle, for the bots after this one too.
CycleFails(w) ==
    /\ todo[w] # <<>>
    /\ todo' = [todo EXCEPT ![w] = <<>>]
    /\ visiting' = [visiting EXCEPT ![w] = FALSE]
    /\ ghost' = [ghost EXCEPT !.caught = IF visiting[w] THEN @ \ {Head(todo[w])} ELSE @]
    /\ UNCHANGED <<db, status, boundVars>>

\* The worker starts again from table bots.
Restart(w) ==
    /\ restarts < MaxRestarts /\ restarts' = restarts + 1
    /\ db' = Seeded(db)
    /\ status' = [status EXCEPT ![w] = Seeded(db)]
    /\ todo' = [todo EXCEPT ![w] = <<>>] /\ visiting' = [visiting EXCEPT ![w] = FALSE]
    /\ ghost' = [ghost EXCEPT !.halted = {}, !.caught = {}]
    /\ UNCHANGED calls

Visit(w, b) == Skip(w, b) \/ Halt(w, b) \/ VisitDry(w, b) \/ BeginVisit(w, b)
Next ==
    \/ \E w \in Workers, b \in Bots : \E s \in Statuses : SetStatus(w, b, s)
    \/ \E w \in Workers, b \in Bots : Create(w, b) \/ Visit(w, b)
    \/ \E w \in Workers :
         StartCycle(w) \/ Buy(w) \/ EndVisit(w) \/ CycleFails(w) \/ Restart(w)

Spec == Init /\ [][Next]_vars

\* The loop of the runner starts cycles; a database that fails does not fail in
\* every visit of a bot for ever.
FairSpec ==
    Spec /\ \A w \in Workers :
              WF_vars(StartCycle(w)) /\ SF_vars(EndVisit(w))
              /\ \A b \in Bots : SF_vars(Visit(w, b))

-----------------------------------------------------------------------------
Ghost == [told : [Bots -> Status], torn : SUBSET Bots, halted : SUBSET Bots, caught : SUBSET Bots,
          late : SUBSET Bots, last : [Workers -> Bots]]
\* A worker awaits only inside the visit of a LIVE bot with credentials.
TypeOK ==
    /\ db \in [Bots -> Status] /\ status \in [Workers -> [Bots -> Status]]
    /\ DOMAIN todo = Workers /\ visiting \in [Workers -> BOOLEAN]
    /\ \A w \in Workers : visiting[w] => todo[w] # <<>> /\ Head(todo[w]) \in Bots \cap Live \cap Keyed
    /\ ghost \in Ghost

\* What a call answered is what a restart will find, for every bot that has a
\* row and whose calls did not fail half-way since.
AnswersAreStored ==
    \A b \in Bots : db[b] # "none" /\ b \notin ghost.torn => db[b] = ghost.told[b]

\* Memory and table bots differ only for a bot without a row, after a call that
\* failed half-way, and for a bot halted in memory: a restart makes that one
\* RUNNING again.
MemoryIsStored ==
    \A w \in Workers, b \in Bots :
      \/ status[w][b] = db[b]
      \/ db[b] = "none" \/ b \in ghost.torn
      \/ b \in ghost.halted /\ status[w][b] = "STOPPED"

\* "No new positions will be opened" (pause_bot), nor after stop_bot: once the
\* call is answered, only a visit that had begun before may still place buys.
PauseEndsBuying == ghost.late = {}

\* Every registered bot gets its turn again and again, although a failure in
\* the visit of one bot ends the cycle of all.  FairSpec assumes that no bot
\* fails in every cycle: one that does starves those behind it in the registry.
EveryoneGetsATurn ==
    \A w \in Workers, b \in Bots : []<>(status[w][b] = "none" \/ ghost.last[w] = b)
=============================================================================
