------------------------------ MODULE Collector ------------------------------
(***************************************************************************)
(* The ingestion worker of the cloud (backend/app/services/collector.py    *)
(* with exchange_client.py): one loop that brings the stored one-minute    *)
(* candles of every tracked symbol up to date and, one symbol per cycle,   *)
(* extends them into the past until the exchange has nothing older.        *)
(* Meanwhile the API (routers symbols and candles) edits the list of       *)
(* symbols in the same database.  Every await of the worker on the         *)
(* exchange is a point where the API, the clock, a failure or a restart    *)
(* may come in between.                                                    *)
(*                                                                         *)
(* Time is counted in minutes; a candle is the minute it opens.            *)
(***************************************************************************)
EXTENDS Integers, Sequences, FiniteSets, FiniteSetsExt

CONSTANTS
    Symbols,      \* pairs an exchange may list
    Seeded,       \* the rows the worker starts with: the one of sql/01_init.sql
                  \* and those the API added before
    Kind,         \* which API serves a symbol: "kucoin", "binance" or "ccxt"
    History,      \* the minutes the exchange has, or will have, candles of
    Clock,        \* bound: the minutes in which something happens
    Page,         \* candles of one forward request (limit 1000)
    Overlap,      \* minutes a forward request goes back (120 s)
    Window,       \* minutes of one backfill request (limit 1500)
    CcxtPage,     \* candles a ccxt exchange gives for one backfill request
    MaxEvents     \* bound: calls of the API and restarts of the worker together

ASSUME CollectorAssumption ==
    /\ Seeded \in Seq(Symbols)
    /\ \A i, j \in DOMAIN Seeded : Seeded[i] = Seeded[j] => i = j
    /\ Kind \in [Symbols -> {"kucoin", "binance", "ccxt"}]
    /\ Clock \subseteq Nat /\ IsFiniteSet(Clock) /\ Clock # {}
    /\ History \in [Symbols -> SUBSET Nat] /\ \A s \in Symbols : IsFiniteSet(History[s])
    /\ {Page, Overlap, Window, CcxtPage, MaxEvents} \subseteq Nat
    /\ Page > Overlap + 1 /\ Window > 0
    \* The exchange gives the whole window that was asked for.
    /\ CcxtPage > Window

VARIABLES
    now,         \* the minute
    rows,        \* the rows of tracked_symbols, in order of created_at
    active,      \* their is_active
    completed,   \* their backfill_completed
    stored,      \* market_candles: the minutes stored of each symbol
    partial,     \* those stored while the minute was not over
    pc,          \* where the worker is: list, forward, backward, wait
    snapshot,    \* active_symbols: <<symbol, done>> read at the top of the cycle
    turn,        \* position of the forward loop in the snapshot
    cursor,      \* backfill_cursor
    asked,       \* the request at an exchange: [symbol, from], or NoRequest
    events       \* calls of the API and restarts so far

tableVars == <<rows, active, completed>>
candleVars == <<stored, partial>>
workerVars == <<pc, snapshot, turn, cursor, asked>>
vars == <<now, tableVars, candleVars, workerVars, events>>

NoRequest == [symbol |-> "none"]
Unknown == -Overlap - 1    \* no candle is stored: the request has no starting point

Known == {rows[i] : i \in DOMAIN rows}

Init ==
    /\ now = Min(Clock)
    /\ rows = Seeded
    /\ active = [s \in Symbols |-> s \in {Seeded[i] : i \in DOMAIN Seeded}]
    /\ completed = [s \in Symbols |-> FALSE]
    /\ stored = [s \in Symbols |-> {}]
    /\ partial = [s \in Symbols |-> {}]
    /\ pc = "list" /\ snapshot = <<>> /\ turn = 1 /\ cursor = 0
    /\ asked = NoRequest
    /\ events = 0

(* --------------------------- the exchange -------------------------------- *)
Listed(s) == {m \in History[s] : m <= now}
Newest(n, S) == {m \in S : Cardinality({k \in S : k > m}) < n}
Oldest(n, S) == {m \in S : Cardinality({k \in S : k < m}) < n}

\* fetch_ohlcv: the newest page, or a page from a minute on.  The page is the
\* oldest candles there are, also where an API would end it at a moment: then a
\* pause of the market longer than a page is not crossed.
Forward(s, since) ==
    IF since = Unknown THEN Newest(Page, Listed(s))
    ELSE Oldest(Page, {m \in Listed(s) : m >= since})

Older(s, before) == {m \in Listed(s) : m < before}
\* Mutant: kucoin is asked for the window only.
BackfillByWindow(s, before) == {m \in Older(s, before) : m >= before - Window}
\* fetch_ohlcv_backfill: what it returns when no request fails.
\* kucoin: the window and, when it is empty, whatever comes before it.
\* binance: the page before the oldest candle.  ccxt: the window; when it is
\* empty a check decides about the genesis, but its candles are dropped.
Backfill(s, before) ==
    LET window == {m \in Older(s, before) : m >= before - Window}
    IN  CASE Kind[s] = "kucoin" ->
               IF window # {} THEN window ELSE Newest(Window, Older(s, before))
          [] Kind[s] = "binance" -> Newest(Page, Older(s, before))
          [] Kind[s] = "ccxt" ->
               {m \in Oldest(CcxtPage, {k \in Listed(s) : k >= before - Window}) : m < before}

\* The answer ([], True): an exchange that answered has nothing older.
ReachedGenesis(s, before) == Older(s, before) = {}

Event == events < MaxEvents /\ events' = events + 1

(* ----------------------------- the worker -------------------------------- *)
Earliest(s) == Min(stored[s])
Latest(s) == Max(stored[s])

\* Mutant: the forward request is always for the newest page.
SinceNever(s) == Unknown
\* Mutant: the current candle is not asked for again.
SinceNext(s) == IF stored[s] = {} THEN Unknown ELSE Latest(s) + 1
\* Mutant: it goes back a whole page.
SinceFar(s) == IF stored[s] = {} THEN Unknown ELSE Latest(s) - Page
\* sync_symbol_forward: two minutes back, to renew the candle in progress.
Since(s) == IF stored[s] = {} THEN Unknown ELSE Latest(s) - Overlap

\* save_candles: the upsert renews what is stored already.
Save(s, candles) ==
    /\ stored' = [stored EXCEPT ![s] = @ \cup candles]
    /\ partial' = [partial EXCEPT ![s] = (@ \ candles) \cup (candles \cap {now})]

\* The top of the cycle: get_active_tracked_symbols.
ReadList ==
    /\ pc = "list"
    /\ LET list == SelectSeq(rows, LAMBDA s : active[s])
       IN  /\ snapshot' = [i \in DOMAIN list |-> <<list[i], completed[list[i]]>>]
           /\ pc' = IF list = <<>> THEN "wait" ELSE "forward"
    /\ turn' = 1
    /\ UNCHANGED <<now, tableVars, candleVars, cursor, asked, events>>

\* The latest candle is read and the exchange is asked.
AskForward ==
    /\ pc = "forward" /\ asked = NoRequest /\ turn <= Len(snapshot)
    /\ asked' = [symbol |-> snapshot[turn][1], from |-> Since(snapshot[turn][1])]
    /\ UNCHANGED <<now, tableVars, candleVars, pc, snapshot, turn, cursor, events>>

\* Its answer is saved.
ForwardAnswer(s) ==
    /\ pc = "forward" /\ asked # NoRequest /\ asked.symbol = s
    /\ Save(s, Forward(s, asked.from))
    /\ asked' = NoRequest /\ turn' = turn + 1
    /\ UNCHANGED <<now, tableVars, pc, snapshot, cursor, events>>

\* An error of the exchange gives an empty list, one of the database is caught
\* in the loop: the next symbol follows either way.
ForwardFails ==
    /\ pc = "forward" /\ asked # NoRequest
    /\ asked' = NoRequest /\ turn' = turn + 1
    /\ UNCHANGED <<now, tableVars, candleVars, pc, snapshot, cursor, events>>

Pending == SelectSeq(snapshot, LAMBDA row : ~row[2])
NextCursor(n) == ((cursor % n) + 1) % n

\* The round robin picks one symbol whose backfill was pending when the list
\* was read; its oldest candle is read and the exchange is asked.
AskBackward ==
    /\ pc = "forward" /\ asked = NoRequest /\ turn > Len(snapshot)
    /\ LET n == Len(Pending)
           s == Pending[(cursor % n) + 1][1]
       IN  /\ cursor' = IF n > 0 THEN NextCursor(n) ELSE cursor
           /\ IF n > 0 /\ stored[s] # {}
              THEN /\ asked' = [symbol |-> s, from |-> Earliest(s)]
                   /\ pc' = "backward"
              ELSE /\ pc' = "wait"
                   /\ UNCHANGED asked
    /\ snapshot' = <<>> /\ turn' = 1    \* not used any more in this cycle
    /\ UNCHANGED <<now, tableVars, candleVars, events>>

\* The block is saved, or the symbol is marked: sync_symbol_backward.
BackwardAnswer(s) ==
    /\ pc = "backward" /\ asked.symbol = s
    /\ IF ReachedGenesis(s, asked.from)
       THEN /\ completed' = [completed EXCEPT ![s] = TRUE]
            /\ UNCHANGED candleVars
       ELSE /\ Save(s, Backfill(s, asked.from))
            /\ UNCHANGED completed
    /\ asked' = NoRequest /\ pc' = "wait"
    /\ UNCHANGED <<now, rows, active, snapshot, turn, cursor, events>>

\* Mutant: an error is taken for the genesis.
BackwardFailsMarks ==
    /\ pc = "backward"
    /\ completed' = [completed EXCEPT ![asked.symbol] = TRUE]
    /\ asked' = NoRequest /\ pc' = "wait"
    /\ UNCHANGED <<now, rows, active, candleVars, snapshot, turn, cursor, events>>
\* ([], False): a refused or failed request, at the window or at the check.
BackwardFails ==
    /\ pc = "backward"
    /\ asked' = NoRequest /\ pc' = "wait"
    /\ UNCHANGED <<now, tableVars, candleVars, snapshot, turn, cursor, events>>

\* Heartbeat and the pause between two cycles.
EndCycle ==
    /\ pc = "wait"
    /\ pc' = "list"
    /\ UNCHANGED <<now, tableVars, candleVars, snapshot, turn, cursor, asked, events>>

\* The process ends anywhere (a database error outside the caught parts does
\* it as well) and docker starts it again.
Restart ==
    /\ Event
    /\ pc' = "list" /\ snapshot' = <<>> /\ turn' = 1 /\ cursor' = 0
    /\ asked' = NoRequest
    /\ UNCHANGED <<now, tableVars, candleVars>>

Tick ==
    /\ now' \in {m \in Clock : m > now}
    /\ UNCHANGED <<tableVars, candleVars, workerVars, events>>

(* ------------------------------- the API --------------------------------- *)
Inserted(s) == IF s \in Known THEN rows ELSE Append(rows, s)

\* POST /symbols: a row that exists keeps its backfill_completed.
AddSymbol(s) ==
    /\ Event /\ ~active[s]
    /\ rows' = Inserted(s)
    /\ active' = [active EXCEPT ![s] = TRUE]
    /\ UNCHANGED <<now, completed, candleVars, workerVars>>

\* GET /candles with auto_track: a row that exists stays as it is.
AutoTrack(s) ==
    /\ Event /\ s \notin Known
    /\ rows' = Append(rows, s)
    /\ active' = [active EXCEPT ![s] = TRUE]
    /\ UNCHANGED <<now, completed, candleVars, workerVars>>

\* DELETE /symbols
RemoveSymbol(s) ==
    /\ Event /\ active[s]
    /\ active' = [active EXCEPT ![s] = FALSE]
    /\ UNCHANGED <<now, rows, completed, candleVars, workerVars>>

Worker == ReadList \/ AskForward \/ AskBackward \/ EndCycle \/ ForwardFails \/ BackwardFails
Answer(s) == ForwardAnswer(s) \/ BackwardAnswer(s)

Next ==
    \/ Worker \/ Restart \/ Tick
    \/ \E s \in Symbols :
         \/ ForwardAnswer(s) \/ BackwardAnswer(s)
         \/ AddSymbol(s) \/ AutoTrack(s) \/ RemoveSymbol(s)

Spec == Init /\ [][Next]_vars

\* The worker keeps running, each request is answered or fails (the clients
\* have timeouts), and an exchange that is asked for a symbol again and again
\* answers some time.
Fairness ==
    /\ WF_vars(Worker \/ \E s \in Symbols : Answer(s))
    /\ \A s \in Symbols : SF_vars(ForwardAnswer(s)) /\ SF_vars(BackwardAnswer(s))
FairSpec == Spec /\ Fairness
-----------------------------------------------------------------------------
TypeOK ==
    /\ now \in Clock
    /\ Known \subseteq Symbols /\ Cardinality(Known) = Len(rows)
    /\ active \in [Symbols -> BOOLEAN] /\ completed \in [Symbols -> BOOLEAN]
    /\ \A s \in Symbols : partial[s] \subseteq stored[s] /\ stored[s] \subseteq Listed(s)
    /\ pc \in {"list", "forward", "backward", "wait"}
    /\ (pc = "backward" => asked # NoRequest)
    /\ snapshot \in Seq(Symbols \X BOOLEAN)
    /\ turn \in 1 .. Len(snapshot) + 1 /\ cursor \in 0 .. Cardinality(Symbols)
    /\ asked = NoRequest \/ asked \in [symbol : Symbols, from : Int]

\* Between the oldest and the latest stored candle of a symbol nothing is
\* missing that the exchange has: not after pauses longer than a page, removals
\* and additions, or restarts in the middle of a request.
\* Nothing would ever fill a hole: both tasks only look beyond the ends.
NoHoles ==
    \A s \in Symbols : \A a, b \in stored[s] :
      \A m \in Listed(s) : a < m /\ m < b => m \in stored[s]

\* A symbol is marked as completed only when the first candle of its history is
\* stored: neither errors nor the empty windows of a halted market end the
\* backfill early.  Stated for the worker and the routes that edit the list; a
\* restore writes the flag of its backup, with or without the candles
\* (backup.py 132-141), and is not modelled here.
CompletedAtGenesis ==
    \A s \in Symbols : completed[s] => \A m \in Listed(s) : \E k \in stored[s] : k <= m

\* Only the latest candle of a symbol may be one that was stored before its
\* minute was over: every older one was fetched again after that.
OlderAreFinal == \A s \in Symbols : \A m \in partial[s] : m = Latest(s)

\* Every symbol that stays tracked is completed, however the list of pending
\* symbols shrinks and grows under the cursor.  A ccxt exchange with a pause
\* longer than a window is the exception (see Backfill).
Crossable(s) ==
    Kind[s] # "ccxt" \/ \A m \in History[s] : m > Min(History[s]) =>
                          \E k \in History[s] : k < m /\ m - k <= Window
BackfillEnds ==
    \A s \in Symbols : Crossable(s) => (<>[](active[s]) => <>(completed[s]))

\* And its latest candle is brought up to date.
KeepsUp ==
    \A s \in Symbols : <>[](active[s]) => []<>(Listed(s) = {} \/ Max(Listed(s)) \in stored[s])
=============================================================================
