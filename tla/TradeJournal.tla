---------------------------- MODULE TradeJournal ----------------------------
(***************************************************************************)
(* The cloud trade journal: tables account_trades and trade_matches of      *)
(* backend/sql/01_init.sql and the handlers of routers/matches.py,          *)
(* routers/trades.py, routers/backup.py and the collector's import.         *)
(*                                                                          *)
(* PostgreSQL runs the handlers at READ COMMITTED, one connection each, so  *)
(* a handler that SELECTs and then writes is two steps: the read, and the   *)
(* writes with their commit.  Row locks serialise the writes of two         *)
(* handlers; nothing keeps what a handler has read from becoming stale.     *)
(* A row that is INSERTed takes its number of the sequence at once and is   *)
(* seen by others only at the COMMIT, so these too are two steps; the row   *)
(* it refers to cannot be deleted in between, and who would insert the same *)
(* id or trade waits.                                                       *)
(* One import is under way at a time; deadlocks, which the database resolves *)
(* by failing a request, and withdrawals, prices, fees and notes are left   *)
(* out.                                                                     *)
(***************************************************************************)
EXTENDS Integers, FiniteSets, Sequences, FiniteSetsExt, Functions, TLC

CONSTANTS
  Buys, Sells,    \* trades of the exchanges, known by (exchange, trade_id)
  Clients,        \* concurrent requests to the matches router
  Amount,         \* amount of every buy, in small units
  MatchAmounts,   \* the matched_amount values that clients ask for
  Tol, Dust,      \* the tolerance (0.000001) and the dust (0.00001) of create_match
  MaxTradeId, MaxMatchId, MaxOps,  \* bounds: ids, and client requests in all
  PutFlags, PutRems,  \* what a client's PUT may set is_matched and the remainder to
  Reinstall       \* may the operator move the backup to a fresh server?

Trades == Buys \cup Sells

ASSUME JournalAssumption ==
  /\ Buys \cap Sells = {}
  /\ {Amount, Tol, Dust, MaxTradeId, MaxMatchId, MaxOps} \subseteq Nat
  /\ 0 < Dust
  /\ MatchAmounts \subseteq Int /\ PutRems \subseteq Int /\ PutFlags \subseteq BOOLEAN
  /\ Reinstall \in BOOLEAN

VARIABLES
  trade,      \* account_trades: id -> row
  nextTrade,  \* its id sequence
  match,      \* trade_matches: id -> row
  nextMatch,  \* its id sequence
  importing,  \* the rows an import has inserted and not yet committed
  request,    \* what each client's transaction has read and inserted so far
  backup,     \* the one backup file of a behaviour
  quiet,      \* ghost: no row has changed since the export began
  overtaken,  \* ghost: the ids of uncommitted rows when the last restore moved
              \* the sequences
  ops         \* ghost: client requests so far

vars == <<trade, nextTrade, match, nextMatch, importing, request, backup, quiet,
          overtaken, ops>>

TradeIds == 1 .. MaxTradeId
NoSell   == 0
Idle     == [kind |-> "idle"]
NoBackup == [stage |-> "none", trades |-> <<>>, matches |-> <<>>]

(* The last four fields of a trade row are ghosts.  foreign: is_matched was  *)
(* last written by a client's PUT or by a match that names the row as its   *)
(* sell.  creates: how many matches were made on it.  raced: a request wrote *)
(* it from a value that was no longer current.  rewritten: a client set its *)
(* remainder, or a backup that was not the current state was restored.      *)
TradeRow == [ext : Trades, rem : Int, matched : BOOLEAN,
             foreign : BOOLEAN, creates : Nat,
             raced : BOOLEAN, rewritten : BOOLEAN]
MatchRow == [buy : TradeIds, sell : TradeIds \cup {NoSell},
             amount : MatchAmounts]

Request ==
  {Idle}
  \cup [kind : {"create"}, buy : TradeIds, sell : TradeIds \cup {NoSell},
        amount : MatchAmounts, rem : Int]
  \cup [kind : {"insert"}, buy : TradeIds, sell : TradeIds \cup {NoSell},
        amount : MatchAmounts, rem : Int, id : 1 .. MaxMatchId]
  \cup [kind : {"delete"}, id : 1 .. MaxMatchId, match : MatchRow]

IsTable(t, Ids, Row) == DOMAIN t \subseteq Ids /\ t \in [DOMAIN t -> Row]

Typed ==
  /\ IsTable(trade, TradeIds, TradeRow)
  /\ IsTable(match, 1 .. MaxMatchId, MatchRow)
  /\ nextTrade \in Nat \ {0} /\ nextMatch \in Nat \ {0}
  /\ IsTable(importing, TradeIds, TradeRow)
  /\ request \in [Clients -> Request]
  /\ DOMAIN backup = {"stage", "trades", "matches"}
  /\ backup.stage \in {"none", "half", "done"}
  /\ IsTable(backup.trades, TradeIds, TradeRow)
  /\ IsTable(backup.matches, 1 .. MaxMatchId, MatchRow)
  /\ quiet \in BOOLEAN
  /\ overtaken \in [trades : SUBSET TradeIds, matches : SUBSET (1 .. MaxMatchId)]
  /\ ops \in 0 .. MaxOps

(* Rows of their kind, and every match has its buy: the foreign key holds   *)
(* through cascades, restores and matches under way.                        *)
KeysHold == \A k \in DOMAIN match : match[k].buy \in DOMAIN trade
TypeOK == Typed /\ KeysHold

Init ==
  /\ trade = <<>> /\ nextTrade = 1
  /\ match = <<>> /\ nextMatch = 1
  /\ importing = <<>>
  /\ request = [c \in Clients |-> Idle]
  /\ backup = NoBackup
  /\ quiet = FALSE
  /\ overtaken = [trades |-> {}, matches |-> {}]
  /\ ops = 0

-----------------------------------------------------------------------------
Watch == quiet' = (quiet /\ trade' = trade /\ match' = match)
Count == ops < MaxOps /\ ops' = ops + 1

IdOf(ext) == CHOOSE id \in DOMAIN trade : trade[id].ext = ext
Stored    == {trade[id].ext : id \in DOMAIN trade}

NewRow(ext) == [ext |-> ext, rem |-> IF ext \in Buys THEN Amount ELSE 0,
                matched |-> FALSE, foreign |-> FALSE, creates |-> 0,
                raced |-> FALSE, rewritten |-> FALSE]

(* INSERT ... ON CONFLICT (exchange, trade_id) DO NOTHING, row by row in one *)
(* transaction.  A row that conflicts uses up a number of the sequence too.  *)
Numbered(batch) == {id \in nextTrade .. nextTrade + Len(batch) - 1 :
                      batch[id - nextTrade + 1] \notin Stored}
Taken(ids) == ids \cap DOMAIN trade

ImportInsert(batch) ==
  /\ Count
  /\ importing = <<>>
  /\ nextTrade + Len(batch) - 1 <= MaxTradeId
  /\ Taken(Numbered(batch)) = {}
  /\ importing' = [id \in Numbered(batch) |-> NewRow(batch[id - nextTrade + 1])]
  /\ nextTrade' = nextTrade + Len(batch)
  /\ UNCHANGED <<trade, match, nextMatch, request, backup, quiet, overtaken>>

(* The first row whose number is in use already fails the transaction.      *)
ImportFails(batch) ==
  /\ Count
  /\ importing = <<>>
  /\ nextTrade + Len(batch) - 1 <= MaxTradeId
  /\ \E id \in Taken(Numbered(batch)) :
       /\ \A other \in Taken(Numbered(batch)) : id <= other
       /\ nextTrade' = id + 1
  /\ UNCHANGED <<trade, match, nextMatch, importing, request, backup, quiet, overtaken>>

ImportCommit ==
  /\ importing # <<>>
  /\ trade' = [id \in DOMAIN importing \cup DOMAIN trade |->
                IF id \in DOMAIN importing THEN importing[id] ELSE trade[id]]
  /\ importing' = <<>>
  /\ UNCHANGED <<nextTrade, match, nextMatch, request, backup, overtaken, ops>>
  /\ Watch

(* PUT /trades/{id}: a client writes the flag, the remainder or both. *)
UpdateTrade(id, flags, rems) ==
  /\ Count
  /\ flags # {} \/ rems # {}
  /\ \E f \in IF flags = {} THEN {trade[id].matched} ELSE flags,
        r \in IF rems = {} THEN {trade[id].rem} ELSE rems :
       trade' = [trade EXCEPT ![id].matched = f, ![id].rem = r,
                              ![id].foreign = TRUE,
                              ![id].rewritten = @ \/ rems # {}]
  /\ UNCHANGED <<nextTrade, match, nextMatch, importing, request, backup, overtaken>>
  /\ Watch

Inserting == {c \in Clients : request[c].kind = "insert"}

(* Mutant of DeleteTrade: the schema without ON DELETE CASCADE and the key.  *)
DeleteTradeAlone(id) ==
  /\ Count
  /\ trade' = Restrict(trade, DOMAIN trade \ {id})
  /\ UNCHANGED <<nextTrade, match, nextMatch, importing, request, backup, overtaken>>
  /\ Watch

(* DELETE /trades/{id}; the foreign key of buy_trade_id cascades, and makes  *)
(* the deletion wait for a match that is being inserted.                     *)
DeleteTrade(id) ==
  /\ Count
  /\ \A c \in Inserting : request[c].buy # id
  /\ trade' = Restrict(trade, DOMAIN trade \ {id})
  /\ match' = Restrict(match, {k \in DOMAIN match : match[k].buy # id})
  /\ UNCHANGED <<nextTrade, nextMatch, importing, request, backup, overtaken>>
  /\ Watch

-----------------------------------------------------------------------------
(* create_match: SELECT the buy and refuse an amount above the remainder;    *)
(* that it is a buy, or the other one a sell, is not asked ...               *)
CreateRead(c, buy, sell, amount) ==
  /\ Count
  /\ request[c] = Idle
  /\ amount <= trade[buy].rem + Tol
  /\ request' = [request EXCEPT ![c] =
       [kind |-> "create", buy |-> buy, sell |-> sell, amount |-> amount,
        rem |-> trade[buy].rem]]
  /\ UNCHANGED <<trade, nextTrade, match, nextMatch, importing, backup, quiet, overtaken>>

(* ... then INSERT the match, which fails when the buy is gone or the number *)
(* is in use ...                                                             *)
MatchIdTaken(k) == k \in DOMAIN match \/ \E c \in Inserting : request[c].id = k

CreateInsert(c) ==
  LET r == request[c] IN
  /\ r.kind = "create"
  /\ nextMatch <= MaxMatchId
  /\ nextMatch' = nextMatch + 1
  /\ request' = [request EXCEPT ![c] =
       IF r.buy \notin DOMAIN trade \/ MatchIdTaken(nextMatch) THEN Idle
       ELSE [kind |-> "insert", buy |-> r.buy, sell |-> r.sell,
             amount |-> r.amount, rem |-> r.rem, id |-> nextMatch]]
  /\ UNCHANGED <<trade, nextTrade, match, importing, backup, quiet, overtaken, ops>>

Consume(row, r, stale) ==
  LET left == IF r.amount < r.rem THEN r.rem - r.amount ELSE 0
  IN [row EXCEPT !.rem = left, !.matched = left < Dust, !.foreign = FALSE,
                 !.creates = @ + 1, !.raced = @ \/ stale]

FlagAsSold(row) == [row EXCEPT !.matched = TRUE, !.foreign = TRUE]

(* ... then UPDATE the buy from the remainder that was read, flag the sell, *)
(* COMMIT.                                                                   *)
CreateCommit(c) ==
  LET r == request[c]
      sold(id, row) == IF id = r.sell THEN FlagAsSold(row) ELSE row
  IN
  /\ r.kind = "insert"
  /\ match' = [k \in DOMAIN match \cup {r.id} |->
       IF k # r.id THEN match[k]
       ELSE [buy |-> r.buy, sell |-> r.sell, amount |-> r.amount]]
  /\ trade' = [id \in DOMAIN trade |->
       sold(id, IF id = r.buy THEN Consume(trade[id], r, trade[id].rem # r.rem)
                ELSE trade[id])]
  /\ request' = [request EXCEPT ![c] = Idle]
  /\ UNCHANGED <<nextTrade, nextMatch, importing, backup, overtaken, ops>>
  /\ Watch

(* delete_match: SELECT the match ... *)
DeleteRead(c, k) ==
  /\ Count
  /\ request[c] = Idle
  /\ request' = [request EXCEPT ![c] =
       [kind |-> "delete", id |-> k, match |-> match[k]]]
  /\ UNCHANGED <<trade, nextTrade, match, nextMatch, importing, backup, quiet, overtaken>>

\* Mutants of GiveBack: the amount is forgotten; the buy stays hidden.
GiveBackFlag(row, m, stale) ==
  [row EXCEPT !.matched = FALSE, !.foreign = FALSE, !.raced = @ \/ stale]
GiveBackAmount(row, m, stale) ==
  [row EXCEPT !.rem = @ + m.amount, !.raced = @ \/ stale]

GiveBack(row, m, stale) ==
  [row EXCEPT !.rem = @ + m.amount, !.matched = FALSE, !.foreign = FALSE,
              !.raced = @ \/ stale]

(* ... then add its amount to the buy, clear both flags, DELETE the match    *)
(* and COMMIT, whether or not the match is still there.                      *)
DeleteCommit(c) ==
  LET r == request[c]
      stale == r.id \notin DOMAIN match \/ match[r.id] # r.match
      losers == IF stale /\ r.id \in DOMAIN match THEN {match[r.id].buy} ELSE {}
  IN
  /\ r.kind = "delete"
  /\ trade' = [id \in DOMAIN trade |->
       IF id = r.match.buy THEN GiveBack(trade[id], r.match, stale)
       ELSE [trade[id] EXCEPT !.matched = @ /\ id # r.match.sell,
                              !.raced = @ \/ id \in losers]]
  /\ match' = Restrict(match, DOMAIN match \ {r.id})
  /\ request' = [request EXCEPT ![c] = Idle]
  /\ UNCHANGED <<nextTrade, nextMatch, importing, backup, overtaken, ops>>
  /\ Watch

-----------------------------------------------------------------------------
(* /backup/export: one SELECT per table, with no transaction around them. *)
ExportTrades ==
  /\ backup.stage = "none"
  /\ backup' = [backup EXCEPT !.stage = "half", !.trades = trade]
  /\ quiet' = TRUE
  /\ UNCHANGED <<trade, nextTrade, match, nextMatch, importing, request, overtaken, ops>>

ExportMatches ==
  /\ backup.stage = "half"
  /\ backup' = [backup EXCEPT !.stage = "done", !.matches = match]
  /\ UNCHANGED <<trade, nextTrade, match, nextMatch, importing, request, quiet, overtaken, ops>>

(* /backup/restore, one transaction.  Trades are matched by their exchange   *)
(* id: a stored one keeps its row and id, a missing one gets the next number *)
(* of the sequence (every row uses one up).  Matches come back with the ids  *)
(* of the backup, their buy_trade_id included.                               *)
RestoredAsNew(i) ==
  nextTrade + Cardinality({j \in DOMAIN backup.trades : j < i})

RestoredId(i) ==
  IF backup.trades[i].ext \in Stored THEN IdOf(backup.trades[i].ext)
  ELSE RestoredAsNew(i)

RestoredTrades ==
  LET back(id) == {i \in DOMAIN backup.trades : RestoredId(i) = id}
      ids == DOMAIN trade \cup {RestoredId(i) : i \in DOMAIN backup.trades}
  IN [id \in ids |->
        LET row == IF back(id) = {} THEN trade[id]
                   ELSE backup.trades[CHOOSE i \in back(id) : TRUE]
        IN [row EXCEPT !.rewritten = @ \/ ~quiet]]

(* ON CONFLICT (id) DO UPDATE leaves the buy and the sell of a stored match. *)
RestoredMatches ==
  [k \in DOMAIN match \cup DOMAIN backup.matches |->
     IF k \notin DOMAIN backup.matches THEN match[k]
     ELSE IF k \notin DOMAIN match THEN backup.matches[k]
     ELSE [match[k] EXCEPT !.amount = backup.matches[k].amount]]

\* Mutant of SequenceAfter: setval(seq, MAX(id), false).
SequenceAtMax(ids) == IF ids = {} THEN 1 ELSE Max(ids)

(* setval(seq, COALESCE(MAX(id), 1)): the next number is one above what the *)
(* restore sees, which is what is committed.                                *)
SequenceAfter(ids) == IF ids = {} THEN 2 ELSE Max(ids) + 1

NewIds == {RestoredAsNew(i) : i \in {j \in DOMAIN backup.trades :
                                       backup.trades[j].ext \notin Stored}}

(* It waits for those who are inserting one of its trades, ids or matches... *)
RestoreMayGoOn ==
  /\ \A i \in DOMAIN backup.trades, id \in DOMAIN importing :
       backup.trades[i].ext # importing[id].ext
  /\ NewIds \cap DOMAIN importing = {}
  /\ \A c \in Inserting : request[c].id \notin DOMAIN backup.matches

(* ... and fails on a number in use or a match without its buy.              *)
Restorable ==
  /\ Taken(NewIds) = {}
  /\ \A k \in DOMAIN backup.matches \ DOMAIN match :
       backup.matches[k].buy \in DOMAIN RestoredTrades

MayRestore ==
  /\ backup.stage = "done"
  /\ nextTrade + Cardinality(DOMAIN backup.trades) - 1 <= MaxTradeId
  /\ RestoreMayGoOn

Restore ==
  /\ MayRestore /\ Restorable
  /\ trade' = RestoredTrades
  /\ match' = RestoredMatches
  /\ nextTrade' = SequenceAfter(DOMAIN RestoredTrades)
  /\ nextMatch' = SequenceAfter(DOMAIN RestoredMatches)
  /\ overtaken' = [trades |-> DOMAIN importing,
                   matches |-> {request[c].id : c \in Inserting}]
  /\ UNCHANGED <<importing, request, backup, ops>>
  /\ Watch

RestoreFails ==
  /\ MayRestore /\ ~Restorable
  /\ IF Taken(NewIds) = {}
       THEN nextTrade' = nextTrade + Cardinality(DOMAIN backup.trades)
       ELSE \E id \in Taken(NewIds) : /\ \A other \in Taken(NewIds) : id <= other
                                      /\ nextTrade' = id + 1
  /\ UNCHANGED <<trade, match, nextMatch, importing, request, backup, quiet, overtaken, ops>>

(* The operator moves to a fresh server: new volumes, the schema of 01_init.sql, no rows. *)
FreshServer ==
  /\ Reinstall /\ backup.stage = "done"
  /\ trade' = <<>> /\ nextTrade' = 1
  /\ match' = <<>> /\ nextMatch' = 1
  /\ importing' = <<>>
  /\ request' = [c \in Clients |-> Idle]
  /\ overtaken' = [trades |-> {}, matches |-> {}]
  /\ UNCHANGED <<backup, ops>>
  /\ Watch

-----------------------------------------------------------------------------
Batches == {<<x>> : x \in Trades}
             \cup {<<x, y>> : x \in Buys, y \in Sells}

(* sell_trade_id has no foreign key: any number, or none. *)
SellIds == TradeIds \cup {NoSell}

Next ==
  \/ \E batch \in Batches : ImportInsert(batch) \/ ImportFails(batch)
  \/ ImportCommit
  \/ \E id \in DOMAIN trade :
       \/ DeleteTrade(id)
       \/ \E flags \in {{}} \cup {{f} : f \in PutFlags},
             rems \in {{}} \cup {{r} : r \in PutRems} :
            UpdateTrade(id, flags, rems)
  \/ \E c \in Clients :
       \/ \E buy \in DOMAIN trade, sell \in SellIds,
             amount \in MatchAmounts : CreateRead(c, buy, sell, amount)
       \/ CreateInsert(c)
       \/ CreateCommit(c)
       \/ \E k \in DOMAIN match : DeleteRead(c, k)
       \/ DeleteCommit(c)
  \/ ExportTrades \/ ExportMatches
  \/ Restore \/ RestoreFails \/ FreshServer

Spec == Init /\ [][Next]_vars

ClientSymmetry == Permutations(Clients)

-----------------------------------------------------------------------------
MatchedOn(id) ==
  MapThenSumSet(LAMBDA k : match[k].amount,
                {k \in DOMAIN match : match[k].buy = id})

(* What is left of a buy and what its matches took add up to its amount,    *)
(* give or take the tolerance create_match grants each match, through        *)
(* matches, deletions, imports, cascades and restores of the current state.  *)
(* Not so for a row that a request wrote from a remainder, or gave back from *)
(* a match, no longer current, nor for one whose remainder a PUT set, nor    *)
(* for any row after a restore of another state: those are exempt.           *)
Conserved ==
  \A id \in {i \in DOMAIN trade : trade[i].ext \in Buys} :
    ~trade[id].raced /\ ~trade[id].rewritten =>
    LET total == trade[id].rem + MatchedOn(id)
    IN Amount <= total /\ total <= Amount + Tol * trade[id].creates

UsedUp(row) == row.matched /\ ~row.foreign => row.rem < Dust

(* A trade that the journal hides from its list of open buys has nothing    *)
(* but dust left, whatever requests, deletions and restores raced.  A row    *)
(* that a PUT wrote (any PUT that sets the flag or the remainder) is exempt, *)
(* and one used as the sell of a match, until a match or a deletion of one   *)
(* writes its flag again.                                                    *)
HiddenBuysAreUsedUp == \A id \in DOMAIN trade : UsedUp(trade[id])

(* The sequences stay ahead of the ids in the tables, although restores     *)
(* write match ids of their own and then move the sequences (also down), but *)
(* for the ids of rows that were inserted and not committed when the last    *)
(* restore looked for the greatest one: those the restore does not see, and  *)
(* a later insert may meet them and fail.                                    *)
NoIdCollision ==
  /\ \A id \in DOMAIN trade \ overtaken.trades : id < nextTrade
  /\ \A k \in DOMAIN match \ overtaken.matches : k < nextMatch

(* Restoring a backup while the tables are as they were when its export      *)
(* began neither fails nor changes a row.  A backup whose two reads saw      *)
(* different states, or one for a fresh server, is another matter: quiet is  *)
(* false then.                                                               *)
QuietRestoreIsIdentity ==
  [][quiet => ~RestoreFails /\ (Restore => UNCHANGED <<trade, match>>)]_vars
=============================================================================
