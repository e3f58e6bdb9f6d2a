-------------------------- MODULE BotLifecycle_proofs --------------------------
(***************************************************************************)
(* The lifecycle of the bots for any registry, any number of bots and any  *)
(* content of table bots.  What holds of the table holds for any number of *)
(* workers; what holds of the memory of a worker needs that there is only  *)
(* one, which is stated as an assumption of the theorems.                  *)
(***************************************************************************)
EXTENDS BotLifecycle, TLAPS

\* The table is never emptied: nothing deletes a row, and it is seeded when it
\* is found empty.
NotEmpty == \E b \in Bots : db[b] # "none"

\* What is stored is what was answered, and the types it needs.
TableInv == TypeOK /\ NotEmpty /\ AnswersAreStored

USE DEF Status, Statuses

LEMMA SeededRows ==
    ASSUME NEW rows \in [Bots -> Status]
    PROVE  /\ Seeded(rows) \in [Bots -> Status]
           /\ \E b \in Bots : Seeded(rows)[b] # "none"
           /\ (\E b \in Bots : rows[b] # "none") => Seeded(rows) = rows
<1>1. CASE \E b \in Bots : rows[b] # "none"
  <2>1. Seeded(rows) = rows
    BY <1>1 DEF Seeded
  <2> QED BY <1>1, <2>1
<1>2. CASE \A b \in Bots : rows[b] = "none"
  <2>1. Seeded(rows) = [rows EXCEPT ![Default] = "STOPPED"]
    BY <1>2 DEF Seeded
  <2> QED BY <1>2, <2>1, LifecycleAssumption
<1>3. QED BY <1>1, <1>2

LEMMA InitTable == Init => TableInv
<1> SUFFICES ASSUME Init PROVE TableInv
  OBVIOUS
<1>1. PICK rows \in Tables :
        /\ db = Seeded(rows)
        /\ status = [w \in Workers |-> Seeded(rows)]
        /\ ghost = [told |-> Seeded(rows), torn |-> {}, halted |-> {}, caught |-> {}, late |-> {},
                    last |-> [w \in Workers |-> Default]]
  BY DEF Init
<1>2. Seeded(rows) \in [Bots -> Status] /\ \E b \in Bots : Seeded(rows)[b] # "none"
  BY LifecycleAssumption, SeededRows
<1>3. TypeOK
  BY <1>1, <1>2, LifecycleAssumption DEF Init, TypeOK, Ghost
<1>4. NotEmpty /\ AnswersAreStored
  BY <1>1, <1>2 DEF NotEmpty, AnswersAreStored
<1>5. QED BY <1>3, <1>4 DEF TableInv

\* A call, whether it was answered or failed half-way.
LEMMA CallKeepsTable ==
    ASSUME TableInv, NEW w \in Workers, NEW b \in Bots, NEW s \in Statuses,
           Called(w, b, s),
           \/ /\ db' = Updated(b, s) \/ db' = [db EXCEPT ![b] = s]
              /\ Answered(b, s)
           \/ /\ db' \in {db, Updated(b, s), [db EXCEPT ![b] = s]}
              /\ FailedHalfWay(b)
    PROVE  TableInv'
<1> USE DEF TableInv
<1>1. db' \in [Bots -> Status] /\ \A c \in Bots : c # b => db'[c] = db[c]
  BY DEF TypeOK, Updated
<1>2. /\ ghost' \in Ghost
      /\ \A c \in Bots : c # b => ghost'.told[c] = ghost.told[c] /\ (c \in ghost'.torn <=> c \in ghost.torn)
      /\ b \in ghost'.torn \/ db'[b] = "none" \/ db'[b] = ghost'.told[b]
  <2>1. CASE FailedHalfWay(b)
    BY <2>1 DEF TypeOK, Ghost, FailedHalfWay
  <2>2. CASE /\ db' = Updated(b, s) \/ db' = [db EXCEPT ![b] = s]
             /\ Answered(b, s)
    <3>1. ghost' \in Ghost /\ ghost'.told = [ghost.told EXCEPT ![b] = s] /\ ghost'.torn = ghost.torn \ {b}
      BY <2>2 DEF TypeOK, Ghost, Answered
    <3>2. db'[b] \in {"none", s}
      BY <2>2 DEF TypeOK, Updated
    <3> QED BY <3>1, <3>2 DEF TypeOK, Ghost
  <2>3. QED BY <2>1, <2>2
<1>3. TypeOK'
  BY <1>1, <1>2 DEF TypeOK, Called, cycleVars
<1>4. NotEmpty'
  BY <1>1 DEF NotEmpty, Updated, TypeOK
<1>6. AnswersAreStored'
  BY <1>1, <1>2 DEF AnswersAreStored
<1>7. QED BY <1>3, <1>4, <1>6

\* A step that touches neither the table nor what was answered.
LEMMA StepKeepsTable ==
    ASSUME TableInv, TypeOK', UNCHANGED db,
           ghost'.told = ghost.told, ghost'.torn = ghost.torn
    PROVE  TableInv'
BY DEF TableInv, NotEmpty, AnswersAreStored

LEMMA RestartKeepsTable ==
    ASSUME TableInv, NEW w \in Workers, Restart(w)
    PROVE  TableInv' /\ db' = db /\ status' = [status EXCEPT ![w] = db]
<1>1. Seeded(db) = db
  BY SeededRows DEF TableInv, TypeOK, NotEmpty
<1>2. TypeOK' /\ ghost'.told = ghost.told /\ ghost'.torn = ghost.torn
  BY <1>1 DEF TableInv, TypeOK, Ghost, Restart
<1>3. QED
  BY <1>1, <1>2, StepKeepsTable DEF Restart

\* The steps of the runner, by what they write.
RunnerStep(w) ==
    \/ \E b \in Bots : Visit(w, b)
    \/ StartCycle(w) \/ Buy(w) \/ EndVisit(w) \/ CycleFails(w)

LEMMA RunnerKeepsTable ==
    ASSUME TableInv, NEW w \in Workers, RunnerStep(w)
    PROVE  TableInv'
<1> USE DEF TableInv, TypeOK, Ghost
<1> SUFFICES TypeOK' /\ UNCHANGED db /\ ghost'.told = ghost.told /\ ghost'.torn = ghost.torn
  BY StepKeepsTable
<1>1. CASE \E b \in Bots : Visit(w, b)
  <2> PICK b \in Bots : Visit(w, b)
    BY <1>1
  <2>1. CASE Skip(w, b)
    BY <2>1 DEF Skip, At, Done
  <2>2. CASE Halt(w, b)
    BY <2>2 DEF Halt, At, Done, HaltedInMemory
  <2>3. CASE VisitDry(w, b)
    BY <2>3 DEF VisitDry, At, Done, Late
  <2>4. CASE BeginVisit(w, b)
    BY <2>4 DEF BeginVisit, At
  <2>5. QED BY <2>1, <2>2, <2>3, <2>4 DEF Visit
<1>2. CASE StartCycle(w)
  BY <1>2 DEF StartCycle
<1>3. CASE Buy(w)
  BY <1>3 DEF Buy, cycleVars, Late
<1>4. CASE EndVisit(w)
  BY <1>4 DEF EndVisit, Done
<1>5. CASE CycleFails(w)
  BY <1>5 DEF CycleFails
<1>6. QED BY <1>1, <1>2, <1>3, <1>4, <1>5 DEF RunnerStep

LEMMA NextKeepsTable == TableInv /\ [Next]_vars => TableInv'
<1> SUFFICES ASSUME TableInv, [Next]_vars PROVE TableInv'
  OBVIOUS
<1>1. ASSUME NEW w \in Workers, NEW b \in Bots, NEW s \in Statuses, SetStatus(w, b, s)
      PROVE  TableInv'
  BY <1>1, CallKeepsTable DEF SetStatus
<1>2. ASSUME NEW w \in Workers, NEW b \in Bots, Create(w, b)
      PROVE  TableInv'
  <2>1. "RUNNING" \in Statuses
    OBVIOUS
  <2> QED BY <1>2, <2>1, CallKeepsTable DEF Create
<1>3. ASSUME NEW w \in Workers, RunnerStep(w) PROVE TableInv'
  BY <1>3, RunnerKeepsTable
<1>4. ASSUME NEW w \in Workers, Restart(w) PROVE TableInv'
  BY <1>4, RestartKeepsTable
<1>5. CASE UNCHANGED vars
  BY <1>5 DEF vars, cycleVars, boundVars, TableInv, TypeOK, NotEmpty, AnswersAreStored
<1>6. QED
  BY <1>1, <1>2, <1>3, <1>4, <1>5 DEF Next, RunnerStep

LEMMA TableStays == Spec => []TableInv
BY InitTable, NextKeepsTable, PTL DEF Spec

\* The registry, the table and the position of every runner stay well formed:
\* a worker awaits only inside the visit of a LIVE bot with credentials
\* (live_runner.py:150-193), with any number of workers.
THEOREM LifecycleTyped == Spec => []TypeOK
<1>1. TableInv => TypeOK
  BY DEF TableInv
<1>2. QED BY <1>1, TableStays, PTL

\* What a call answered is what table bots says, whatever the other workers
\* did, unless a call failed between the memory and the row since
\* (bot_service.py:302-375).
THEOREM AnswersStay == Spec => []AnswersAreStored
<1>1. TableInv => AnswersAreStored
  BY DEF TableInv
<1>2. QED BY <1>1, TableStays, PTL

(* ------------------------------ one worker ------------------------------- *)
OneWorker == \E w \in Workers : Workers = {w}

\* A bot that trades was told to, or a call for it failed half-way.
TradesAsTold ==
    \A w \in Workers, b \in Bots :
      status[w][b] = "RUNNING" => ghost.told[b] = "RUNNING" \/ b \in ghost.torn

\* So was one that is being visited, unless the call came during the visit.
VisitedAsTold ==
    \A w \in Workers : visiting[w] =>
      ghost.told[Head(todo[w])] = "RUNNING" \/ Head(todo[w]) \in ghost.torn \cup ghost.caught

MemoryInv == TableInv /\ MemoryIsStored /\ TradesAsTold /\ VisitedAsTold /\ PauseEndsBuying

LEMMA InitMemory == Init => MemoryInv
<1> SUFFICES ASSUME Init PROVE MemoryInv
  OBVIOUS
<1>1. TableInv
  BY InitTable
<1>2. PICK rows \in Tables :
        /\ db = Seeded(rows)
        /\ status = [w \in Workers |-> Seeded(rows)]
        /\ ghost = [told |-> Seeded(rows), torn |-> {}, halted |-> {}, caught |-> {}, late |-> {},
                    last |-> [w \in Workers |-> Default]]
  BY DEF Init
<1>3. MemoryIsStored /\ TradesAsTold /\ VisitedAsTold /\ PauseEndsBuying
  BY <1>2 DEF Init, MemoryIsStored, TradesAsTold, VisitedAsTold, PauseEndsBuying
<1>4. QED BY <1>1, <1>3 DEF MemoryInv

\* A call of the one worker: the bot gets the status in memory.
LEMMA CallKeepsMemory ==
    ASSUME OneWorker, MemoryInv, NEW w \in Workers, NEW b \in Bots, NEW s \in Statuses,
           Called(w, b, s),
           \/ /\ db' = Updated(b, s) \/ db' = [db EXCEPT ![b] = s]
              /\ Answered(b, s)
           \/ /\ db' \in {db, Updated(b, s), [db EXCEPT ![b] = s]}
              /\ FailedHalfWay(b)
    PROVE  MemoryInv'
<1> USE DEF MemoryInv, TableInv, TypeOK, Ghost
<1>1. TableInv'
  BY CallKeepsTable
<1>2. \A v \in Workers : v = w
  BY DEF OneWorker
<1>3. status' = [status EXCEPT ![w][b] = s] /\ UNCHANGED <<todo, visiting>>
  BY DEF Called, cycleVars
<1>4. CASE FailedHalfWay(b)
  <2>1. /\ ghost'.told = ghost.told /\ ghost'.torn = ghost.torn \cup {b}
        /\ ghost'.halted = ghost.halted \ {b} /\ ghost'.caught = ghost.caught /\ ghost'.late = ghost.late
    BY <1>4 DEF FailedHalfWay
  <2>2. \A c \in Bots : c # b => db'[c] = db[c]
    BY <1>4 DEF Updated, FailedHalfWay, Answered
  <2>3. MemoryIsStored'
    BY <1>2, <1>3, <2>1, <2>2 DEF MemoryIsStored
  <2>4. TradesAsTold' /\ VisitedAsTold' /\ PauseEndsBuying'
    BY <1>3, <2>1 DEF TradesAsTold, VisitedAsTold, PauseEndsBuying
  <2> QED BY <1>1, <2>3, <2>4
<1>5. CASE /\ db' = Updated(b, s) \/ db' = [db EXCEPT ![b] = s]
           /\ Answered(b, s)
  <2>1. /\ ghost'.told = [ghost.told EXCEPT ![b] = s] /\ ghost'.torn = ghost.torn \ {b}
        /\ ghost'.halted = ghost.halted \ {b} /\ ghost'.late = ghost.late
        /\ ghost'.caught = IF s # "RUNNING" /\ Visited(b) THEN ghost.caught \cup {b}
                           ELSE ghost.caught \ {b}
    BY <1>5 DEF Answered
  <2>2. db'[b] \in {"none", s} /\ \A c \in Bots : c # b => db'[c] = db[c]
    BY <1>5 DEF Updated
  <2>3. MemoryIsStored'
    BY <1>2, <1>3, <2>1, <2>2 DEF MemoryIsStored
  <2>4. TradesAsTold' /\ PauseEndsBuying'
    BY <1>2, <1>3, <2>1 DEF TradesAsTold, PauseEndsBuying
  <2>5. VisitedAsTold'
    BY <1>2, <1>3, <2>1 DEF VisitedAsTold, Visited
  <2> QED BY <1>1, <2>3, <2>4, <2>5
<1>6. QED BY <1>4, <1>5

\* Nobody buys late: who is visited was told to trade.
LEMMA NobodyIsLate ==
    ASSUME MemoryInv, NEW w \in Workers, NEW b \in Bots,
           \/ At(w, b) /\ ~Skipped(w, b)
           \/ visiting[w] /\ Head(todo[w]) = b
    PROVE  Late(b) = {}
<1> USE DEF MemoryInv
<1>1. CASE At(w, b) /\ ~Skipped(w, b)
  BY <1>1 DEF Skipped, TradesAsTold, Late
<1>2. CASE visiting[w] /\ Head(todo[w]) = b
  BY <1>2 DEF VisitedAsTold, Late
<1>3. QED BY <1>1, <1>2

LEMMA VisitKeepsMemory ==
    ASSUME OneWorker, MemoryInv, NEW w \in Workers, NEW b \in Bots, Visit(w, b)
    PROVE  MemoryInv'
<1> USE DEF MemoryInv, TableInv, TypeOK, Ghost
<1>1. TableInv'
  BY RunnerKeepsTable DEF RunnerStep
<1>2. \A v \in Workers : v = w
  BY DEF OneWorker
<1> SUFFICES MemoryIsStored' /\ TradesAsTold' /\ VisitedAsTold' /\ PauseEndsBuying'
  BY <1>1
<1> USE DEF MemoryIsStored, TradesAsTold, VisitedAsTold, PauseEndsBuying
<1>3. CASE Skip(w, b)
  BY <1>2, <1>3 DEF Skip, At, Done
<1>4. CASE Halt(w, b)
  <2>1. /\ ghost'.told = ghost.told /\ ghost'.torn = ghost.torn /\ ghost'.late = ghost.late
        /\ ghost'.halted = ghost.halted \cup {b}
    BY <1>4 DEF Halt
  <2>2. status' = [status EXCEPT ![w][b] = "STOPPED"] /\ UNCHANGED <<db, visiting>> /\ ~visiting[w]
    BY <1>4 DEF Halt, HaltedInMemory, At
  <2>3. MemoryIsStored'
    BY <1>2, <2>1, <2>2
  <2>4. TradesAsTold' /\ VisitedAsTold' /\ PauseEndsBuying'
    BY <1>2, <2>1, <2>2
  <2> QED BY <2>3, <2>4
<1>5. CASE VisitDry(w, b)
  <2>1. Late(b) = {}
    BY <1>5, NobodyIsLate DEF VisitDry
  <2> QED BY <1>2, <1>5, <2>1 DEF VisitDry, At, Done
<1>6. CASE BeginVisit(w, b)
  BY <1>2, <1>6 DEF BeginVisit, At, Skipped
<1>7. QED BY <1>3, <1>4, <1>5, <1>6 DEF Visit

LEMMA AwaitKeepsMemory ==
    ASSUME OneWorker, MemoryInv, NEW w \in Workers,
           StartCycle(w) \/ Buy(w) \/ EndVisit(w) \/ CycleFails(w) \/ Restart(w)
    PROVE  MemoryInv'
<1> USE DEF MemoryInv, TableInv, TypeOK, Ghost
<1>1. TableInv'
  BY RunnerKeepsTable, RestartKeepsTable DEF RunnerStep
<1>2. \A v \in Workers : v = w
  BY DEF OneWorker
<1> SUFFICES MemoryIsStored' /\ TradesAsTold' /\ VisitedAsTold' /\ PauseEndsBuying'
  BY <1>1
<1> USE DEF MemoryIsStored, TradesAsTold, VisitedAsTold, PauseEndsBuying
<1>3. CASE StartCycle(w)
  BY <1>2, <1>3 DEF StartCycle
<1>4. CASE Buy(w)
  <2>1. Late(Head(todo[w])) = {}
    BY <1>4, NobodyIsLate DEF Buy
  <2> QED BY <1>4, <2>1 DEF Buy, cycleVars
<1>5. CASE EndVisit(w)
  BY <1>2, <1>5 DEF EndVisit, Done
<1>6. CASE CycleFails(w)
  BY <1>2, <1>6 DEF CycleFails
<1>7. CASE Restart(w)
  <2>1. db' = db /\ status' = [status EXCEPT ![w] = db]
    BY <1>7, RestartKeepsTable
  <2>2. TradesAsTold' /\ MemoryIsStored'
    BY <1>2, <1>7, <2>1 DEF Restart, AnswersAreStored
  <2>3. VisitedAsTold' /\ PauseEndsBuying'
    BY <1>2, <1>7 DEF Restart
  <2> QED BY <2>2, <2>3
<1>8. QED BY <1>3, <1>4, <1>5, <1>6, <1>7

LEMMA NextKeepsMemory ==
    ASSUME OneWorker
    PROVE  MemoryInv /\ [Next]_vars => MemoryInv'
<1> SUFFICES ASSUME MemoryInv, [Next]_vars PROVE MemoryInv'
  OBVIOUS
<1>1. ASSUME NEW w \in Workers, NEW b \in Bots, NEW s \in Statuses, SetStatus(w, b, s)
      PROVE  MemoryInv'
  BY <1>1, CallKeepsMemory DEF SetStatus
<1>2. ASSUME NEW w \in Workers, NEW b \in Bots, Create(w, b)
      PROVE  MemoryInv'
  <2>1. "RUNNING" \in Statuses
    OBVIOUS
  <2> QED BY <1>2, <2>1, CallKeepsMemory DEF Create
<1>3. CASE UNCHANGED vars
  BY <1>3, NextKeepsTable
     DEF vars, cycleVars, boundVars, MemoryInv, MemoryIsStored, TradesAsTold, VisitedAsTold,
         PauseEndsBuying
<1>4. QED
  BY <1>1, <1>2, <1>3, VisitKeepsMemory, AwaitKeepsMemory DEF Next

LEMMA MemoryStays ==
    ASSUME OneWorker
    PROVE  Spec => []MemoryInv
<1>1. MemoryInv /\ [Next]_vars => MemoryInv'
  BY NextKeepsMemory
<1>2. QED BY <1>1, InitMemory, PTL DEF Spec

\* With one worker, a bot that was paused or stopped opens no position once the
\* call is answered, except in a visit that had begun before
\* (bot_service.py:302-321, 356-375; live_runner.py:150-152), whatever calls
\* failed, cycles broke off or restarts came in between.
THEOREM PausesHold ==
    ASSUME OneWorker
    PROVE  Spec => []PauseEndsBuying
<1>1. MemoryInv => PauseEndsBuying
  BY DEF MemoryInv
<1>2. Spec => []MemoryInv
  BY MemoryStays
<1>3. QED BY <1>1, <1>2, PTL

\* With one worker, memory and table bots agree for every bot but one without a
\* row, one a call failed for half-way, or one that was halted
\* (live_runner.py:160-167).
THEOREM MemoryFollowsTable ==
    ASSUME OneWorker
    PROVE  Spec => []MemoryIsStored
<1>1. MemoryInv => MemoryIsStored
  BY DEF MemoryInv
<1>2. Spec => []MemoryInv
  BY MemoryStays
<1>3. QED BY <1>1, <1>2, PTL
=============================================================================
