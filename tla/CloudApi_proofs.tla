----------------------------- MODULE CloudApi_proofs -----------------------------
(***************************************************************************)
(* The cloud API: the gate every request passes and the trade journal      *)
(* behind it.  The theorems of the gate hold for every limit, window and   *)
(* lockout, those of the journal for every set of trades, every number of  *)
(* concurrent requests and every amount and tolerance.                     *)
(***************************************************************************)
EXTENDS TradeJournal, AuthGate, FoldFacts, TLAPS, FiniteSetTheorems, WellFoundedInduction

-----------------------------------------------------------------------------
(***************************************************************************)
(* The gate.  The tables forget what has left the window; that they forget *)
(* nothing else is what the ghost logs are compared with: a table is       *)
(* always the end of its log, and what it left out is over.                *)
(***************************************************************************)
InOrder(log) == \A i, j \in DOMAIN log : i <= j => log[i] <= log[j]
Log(log) == log \in Seq(0 .. now) /\ InOrder(log)

\* The table is the end of the log; what is missing has left the window.
EndOf(table, log) ==
    /\ Len(table) <= Len(log)
    /\ \A j \in 1 .. Len(table) : table[j] = log[Len(log) - Len(table) + j]
    /\ \A i \in 1 .. Len(log) - Len(table) : now - log[i] >= Window

\* Of max + 1 entries in a row the last is a window behind the first.
Spaced(log, max) == \A i \in DOMAIN log : i + max \in DOMAIN log => log[i + max] - log[i] >= Window

RateInv(c) ==
    /\ Log(admitted[c]) /\ Log(requests[c])
    /\ EndOf(requests[c], admitted[c])
    /\ Spaced(admitted[c], MaxRequests)

\* Before a lockout there is room for one more failure; a lockout is behind
\* everything that was counted.
KeyInv(c) ==
    /\ Log(counted[c]) /\ Log(fails[c])
    /\ EndOf(fails[c], counted[c])
    /\ Spaced(counted[c], MaxFailed)
    /\ blocked[c] = Never => Len(fails[c]) < MaxFailed
    /\ blocked[c] # Never => \A i \in DOMAIN counted[c] : counted[c][i] <= blocked[c] - Lockout

GateInv ==
    /\ now \in Nat
    /\ {requests, fails, admitted, counted} \subseteq [Addresses -> Seq(Nat)]
    /\ blocked \in [Addresses -> Nat \cup {Never}]
    /\ \A c \in Addresses : RateInv(c) /\ KeyInv(c)

-----------------------------------------------------------------------------
LEMMA GateConstants ==
    /\ Window \in Nat /\ Window > 0 /\ MaxRequests \in Nat /\ MaxRequests > 0
    /\ MaxFailed \in Nat /\ MaxFailed > 0 /\ Lockout \in Nat /\ Window <= Lockout
BY AuthAssumption

\* What is recent in a log is its end.
LEMMA RecentIsEnd ==
    ASSUME now \in Nat, NEW log, Log(log)
    PROVE  Log(Recent(log)) /\ EndOf(Recent(log), log)
<1> DEFINE keep == {t \in 0 .. now : now - t < Window}
           kept == Recent(log)
           L == Len(log)
           R == Len(kept)
<1> USE GateConstants
<1>1. log \in Seq(0 .. now) /\ L \in Nat /\ \A i \in 1 .. L : log[i] \in 0 .. now
  BY DEF Log
<1>2. PICK from : KeptFrom(log, keep, L, kept, from)
  BY <1>1, KeptIs DEF Recent
<1> HIDE DEF kept
<1>3. /\ kept \in Seq(keep) /\ R \in Nat
      /\ from \in [1 .. R -> {i \in 1 .. L : log[i] \in keep}]
      /\ \A j \in 1 .. R : kept[j] = log[from[j]]
      /\ \A j, k \in 1 .. R : j < k => from[j] < from[k]
      /\ \A i \in 1 .. L : log[i] \in keep => \E j \in 1 .. R : from[j] = i
  BY <1>2 DEF KeptFrom
<1> HIDE DEF L, R
<1>4. \A i, j \in 1 .. L : i <= j /\ log[i] \in keep => log[j] \in keep
  <2>1. \A i, j \in 1 .. L : i <= j => log[i] <= log[j]
    BY <1>1 DEF Log, InOrder, L
  <2> SUFFICES ASSUME NEW i \in 1 .. L, NEW j \in 1 .. L, i <= j, log[i] \in keep PROVE log[j] \in keep
    OBVIOUS
  <2>2. log[i] <= log[j] /\ log[i] \in 0 .. now /\ log[j] \in 0 .. now /\ now - log[i] < Window
    BY <1>1, <2>1
  <2>3. now - log[j] < Window
    BY <2>2
  <2> QED
    BY <2>2, <2>3
<1> HIDE DEF keep
<1>5. R # 0 => from[R] = L
  <2> SUFFICES ASSUME R # 0 PROVE from[R] = L
    OBVIOUS
  <2>1. R \in 1 .. R /\ from[R] \in 1 .. L /\ log[from[R]] \in keep
    BY <1>3
  <2>2. L \in 1 .. L /\ log[L] \in keep
    BY <1>1, <1>4, <2>1
  <2>3. PICK j \in 1 .. R : from[j] = L
    BY <1>3, <2>2
  <2>4. j < R => from[j] < from[R]
    BY <1>3, <2>1
  <2> QED
    BY <1>1, <1>3, <2>1, <2>3, <2>4
<1>6. \A j \in 1 .. R - 1 : from[j + 1] = from[j] + 1
  <2> SUFFICES ASSUME NEW j \in 1 .. R - 1 PROVE from[j + 1] = from[j] + 1
    OBVIOUS
  <2>1. /\ j \in 1 .. R /\ j + 1 \in 1 .. R /\ from[j] < from[j + 1]
        /\ from[j] \in 1 .. L /\ from[j + 1] \in 1 .. L /\ log[from[j]] \in keep
    BY <1>3
  <2>2. from[j] + 1 \in 1 .. L /\ log[from[j] + 1] \in keep
    <3>1. from[j] + 1 \in 1 .. L /\ from[j] <= from[j] + 1
      <4>1. from[j] \in Nat /\ from[j + 1] \in Nat /\ L \in Nat /\ from[j + 1] <= L
        BY <1>1, <2>1
      <4>2. from[j] < from[j + 1] /\ from[j] >= 1
        BY <2>1
      <4> HIDE DEF L
      <4> QED
        BY <4>1, <4>2
    <3> QED
      BY <1>4, <2>1, <3>1
  <2>3. PICK k \in 1 .. R : from[k] = from[j] + 1
    BY <1>3, <2>2
  <2>4. k < j => from[k] < from[j]
    BY <1>3, <2>1
  <2>5. j + 1 < k => from[j + 1] < from[k]
    BY <1>3, <2>1
  <2>6. k = j + 1 \/ k = j \/ k < j \/ j + 1 < k
    BY <1>3
  <2> QED
    BY <2>1, <2>3, <2>4, <2>5, <2>6
<1>7. \A j \in 1 .. R : from[j] = L - R + j
  <2> DEFINE S == {d \in 0 .. R - 1 : from[R - d] = L - d}
  <2>1. CASE R = 0
    BY <2>1
  <2>2. CASE R # 0
    <3>1. 0 \in S
      BY <1>3, <1>5, <2>2
    <3>2. \A d \in 0 .. (R - 1) - 1 : d \in S => d + 1 \in S
      <4> SUFFICES ASSUME NEW d \in 0 .. (R - 1) - 1, d \in S
                   PROVE  from[R - (d + 1)] = L - (d + 1)
        BY <1>3
      <4>1. R - (d + 1) \in 1 .. R - 1 /\ (R - (d + 1)) + 1 = R - d
        BY <1>3
      <4>2. from[R - d] = from[R - (d + 1)] + 1
        BY <1>6, <4>1
      <4>3. from[R - (d + 1)] \in 1 .. L
        BY <1>3, <4>1
      <4> QED
        BY <1>1, <1>3, <4>2, <4>3
    <3>3. R - 1 \in Nat
      BY <1>3, <2>2
    <3> HIDE DEF S
    <3>4. 0 .. R - 1 \subseteq S
      BY <3>1, <3>2, <3>3, UpTo
    <3>5. \A d \in 0 .. R - 1 : from[R - d] = L - d
      BY <3>4 DEF S
    <3>6. \A j \in 1 .. R : R - j \in 0 .. R - 1 /\ R - (R - j) = j /\ L - (R - j) = L - R + j
      BY <1>1, <1>3
    <3> QED
      BY <3>5, <3>6
  <2> QED
    BY <2>1, <2>2
<1>8. R <= L
  <2>1. R # 0 => from[1] = L - R + 1 /\ from[1] \in 1 .. L
    BY <1>3, <1>7
  <2> QED
    BY <1>1, <1>3, <2>1
<1>9. \A j \in 1 .. R : kept[j] = log[L - R + j]
  BY <1>3, <1>7
<1>10. \A i \in 1 .. L - R : now - log[i] >= Window
  <2> SUFFICES ASSUME NEW i \in 1 .. L - R PROVE log[i] \notin keep
    BY <1>1, <1>3 DEF keep
  <2>1. i \in 1 .. L
    BY <1>1, <1>3
  <2>2. \A j \in 1 .. R : from[j] # i
    BY <1>1, <1>3, <1>7
  <2> QED
    BY <1>3, <2>1, <2>2
<1>11. EndOf(kept, log)
  BY <1>8, <1>9, <1>10 DEF EndOf, L, R
<1>12. kept \in Seq(0 .. now)
  <2>1. keep \subseteq 0 .. now
    BY DEF keep
  <2> QED
    BY <1>3, <2>1, MoreValues
<1>13. InOrder(kept)
  <2> SUFFICES ASSUME NEW i \in 1 .. R, NEW j \in 1 .. R, i <= j
               PROVE  kept[i] <= kept[j]
    BY <1>3 DEF InOrder, R
  <2>1. L - R + i \in 1 .. L /\ L - R + j \in 1 .. L /\ L - R + i <= L - R + j
    BY <1>1, <1>3, <1>8
  <2>2. \A k, m \in 1 .. L : k <= m => log[k] <= log[m]
    BY <1>1 DEF Log, InOrder, L
  <2>3. log[L - R + i] <= log[L - R + j]
    BY <2>1, <2>2
  <2> QED
    BY <1>9, <2>3
<1> QED
  BY <1>11, <1>12, <1>13 DEF Log, kept

\* So what is recent in a table is the end of the log as well.
LEMMA RecentOfTable ==
    ASSUME now \in Nat, NEW log, Log(log), NEW table, Log(table), EndOf(table, log)
    PROVE  /\ Log(Recent(table)) /\ EndOf(Recent(table), log)
           /\ Len(Recent(table)) <= Len(table)
<1> DEFINE kept == Recent(table)
           L == Len(log)
           T == Len(table)
           R == Len(kept)
<1>1. Log(kept) /\ EndOf(kept, table)
  BY RecentIsEnd
<1> HIDE DEF kept
<1>2. L \in Nat /\ T \in Nat /\ R \in Nat /\ R <= T /\ T <= L
  BY <1>1 DEF Log, EndOf
<1>3. \A j \in 1 .. R : kept[j] = log[L - R + j]
  <2> SUFFICES ASSUME NEW j \in 1 .. R PROVE kept[j] = log[L - R + j]
    OBVIOUS
  <2>1. T - R + j \in 1 .. T /\ L - T + (T - R + j) = L - R + j
    BY <1>2
  <2>2. kept[j] = table[T - R + j]
    BY <1>1 DEF EndOf
  <2>3. table[T - R + j] = log[L - T + (T - R + j)]
    BY <2>1 DEF EndOf
  <2> QED
    BY <2>1, <2>2, <2>3
<1>4. \A i \in 1 .. L - R : now - log[i] >= Window
  <2> SUFFICES ASSUME NEW i \in 1 .. L - R, ~(i \in 1 .. L - T)
               PROVE  now - log[i] >= Window
    BY DEF EndOf
  <2>1. i - (L - T) \in 1 .. T - R /\ i - (L - T) \in 1 .. T /\ L - T + (i - (L - T)) = i
    BY <1>2
  <2>2. table[i - (L - T)] = log[L - T + (i - (L - T))]
    BY <2>1 DEF EndOf
  <2>3. now - table[i - (L - T)] >= Window
    BY <1>1, <2>1 DEF EndOf
  <2> QED
    BY <2>1, <2>2, <2>3
<1>5. EndOf(kept, log)
  BY <1>2, <1>3, <1>4 DEF EndOf
<1> QED
  BY <1>1, <1>2, <1>5 DEF kept

\* An entry joins a table that has room: the log stays spaced.
LEMMA EntryJoins ==
    ASSUME now \in Nat, NEW log, Log(log), NEW table, Log(table), EndOf(table, log),
           NEW max \in Nat, Len(table) < max, Spaced(log, max)
    PROVE  /\ Log(Append(log, now)) /\ Log(Append(table, now))
           /\ EndOf(Append(table, now), Append(log, now))
           /\ Spaced(Append(log, now), max)
<1> DEFINE L == Len(log)
           T == Len(table)
           log1 == Append(log, now)
           table1 == Append(table, now)
<1>1. log \in Seq(0 .. now) /\ table \in Seq(0 .. now) /\ now \in 0 .. now /\ L \in Nat /\ T \in Nat
  BY DEF Log
<1>2. /\ log1 \in Seq(0 .. now) /\ Len(log1) = L + 1 /\ log1[L + 1] = now
      /\ \A i \in 1 .. L : log1[i] = log[i]
      /\ DOMAIN log1 = 1 .. L + 1 /\ DOMAIN log = 1 .. L
      /\ \A i \in 1 .. L : log[i] \in 0 .. now
  BY <1>1
<1>3. /\ table1 \in Seq(0 .. now) /\ Len(table1) = T + 1 /\ table1[T + 1] = now
      /\ \A i \in 1 .. T : table1[i] = table[i]
      /\ DOMAIN table1 = 1 .. T + 1 /\ DOMAIN table = 1 .. T
      /\ \A i \in 1 .. T : table[i] \in 0 .. now
  BY <1>1
<1> HIDE DEF log1, table1
<1>0. /\ \A i, j \in 1 .. L : i <= j => log[i] <= log[j]
      /\ \A i, j \in 1 .. T : i <= j => table[i] <= table[j]
  BY <1>2, <1>3 DEF Log, InOrder
<1>4. InOrder(log1) /\ InOrder(table1)
  <2>1. InOrder(log1)
    <3> SUFFICES ASSUME NEW i \in 1 .. L + 1, NEW j \in 1 .. L + 1, i <= j
                 PROVE  log1[i] <= log1[j]
      BY <1>2 DEF InOrder
    <3>1. CASE j \in 1 .. L
      <4>0. i \in 1 .. L
        BY <1>1, <3>1
      <4>1. log[i] <= log[j]
        BY <1>0, <3>1, <4>0
      <4>2. log1[i] = log[i] /\ log1[j] = log[j]
        BY <1>2, <3>1, <4>0
      <4> QED
        BY <4>1, <4>2
    <3>2. CASE j = L + 1
      <4> HIDE DEF L
      <4>1. log1[j] = now
        BY <1>2, <3>2
      <4>2. CASE i \in 1 .. L
        <5>1. log1[i] = log[i] /\ log[i] \in 0 .. now
          BY <1>2, <4>2
        <5> QED
          BY <4>1, <5>1
      <4>3. CASE i = L + 1
        BY <3>2, <4>1, <4>3
      <4> QED
        BY <1>1, <4>2, <4>3
    <3> QED
      BY <1>1, <3>1, <3>2
  <2>2. InOrder(table1)
    <3> SUFFICES ASSUME NEW i \in 1 .. T + 1, NEW j \in 1 .. T + 1, i <= j
                 PROVE  table1[i] <= table1[j]
      BY <1>3 DEF InOrder
    <3>1. CASE j \in 1 .. T
      <4>0. i \in 1 .. T
        BY <1>1, <3>1
      <4>1. table[i] <= table[j]
        BY <1>0, <3>1, <4>0
      <4>2. table1[i] = table[i] /\ table1[j] = table[j]
        BY <1>3, <3>1, <4>0
      <4> QED
        BY <4>1, <4>2
    <3>2. CASE j = T + 1
      <4> HIDE DEF T
      <4>1. table1[j] = now
        BY <1>3, <3>2
      <4>2. CASE i \in 1 .. T
        <5>1. table1[i] = table[i] /\ table[i] \in 0 .. now
          BY <1>3, <4>2
        <5> QED
          BY <4>1, <5>1
      <4>3. CASE i = T + 1
        BY <3>2, <4>1, <4>3
      <4> QED
        BY <1>1, <4>2, <4>3
    <3> QED
      BY <1>1, <3>1, <3>2
  <2> QED
    BY <2>1, <2>2
<1>5. T <= L /\ (\A j \in 1 .. T : table[j] = log[L - T + j])
      /\ \A i \in 1 .. L - T : now - log[i] >= Window
  BY DEF EndOf
<1>6. EndOf(table1, log1)
  <2>1. (L + 1) - (T + 1) = L - T /\ T + 1 <= L + 1
    BY <1>1, <1>5
  <2>2. ASSUME NEW j \in 1 .. T + 1
        PROVE  table1[j] = log1[L - T + j]
    <3>1. CASE j = T + 1
      BY <1>1, <1>2, <1>3, <3>1
    <3>2. CASE j \in 1 .. T
      <4>1. L - T + j \in 1 .. L
        BY <1>1, <1>5, <3>2
      <4> QED
        BY <1>2, <1>3, <1>5, <3>2, <4>1
    <3>3. j = T + 1 \/ j \in 1 .. T
      <4>1. T \in Nat
        BY <1>1
      <4> QED
        BY <4>1
    <3> QED
      BY <3>1, <3>2, <3>3
  <2>3. \A i \in 1 .. L - T : now - log1[i] >= Window
    BY <1>1, <1>2, <1>5
  <2> QED
    BY <1>2, <1>3, <2>1, <2>2, <2>3 DEF EndOf
<1>7. Spaced(log1, max)
  <2> SUFFICES ASSUME NEW i \in 1 .. L + 1, i + max \in 1 .. L + 1
               PROVE  log1[i + max] - log1[i] >= Window
    BY <1>2 DEF Spaced
  <2>1. max > 0 /\ i \in 1 .. L
    BY <1>1
  <2>2. CASE i + max = L + 1
    <3>1. i \in 1 .. L - T
      BY <1>1, <2>2
    <3> QED
      BY <1>2, <1>5, <2>1, <2>2, <3>1
  <2>3. CASE i + max \in 1 .. L
    <3>1. log[i + max] - log[i] >= Window
      BY <1>2, <2>1, <2>3 DEF Spaced
    <3>2. log1[i + max] = log[i + max] /\ log1[i] = log[i]
      BY <1>2, <2>1, <2>3
    <3>3. log[i + max] \in Nat /\ log[i] \in Nat /\ Window \in Nat
      BY <1>2, <2>1, <2>3, GateConstants
    <3> QED
      BY <3>1, <3>2, <3>3
  <2>4. i + max = L + 1 \/ i + max \in 1 .. L
    <3>1. L \in Nat /\ i + max \in Int
      BY <1>1
    <3> HIDE DEF L
    <3> QED
      BY <3>1
  <2> QED
    BY <2>2, <2>3, <2>4
<1> QED
  BY <1>2, <1>3, <1>4, <1>6, <1>7 DEF Log, log1, table1

-----------------------------------------------------------------------------
LEMMA InitGate == GateInit => GateInv
<1> SUFFICES ASSUME GateInit PROVE GateInv
  OBVIOUS
<1>1. Log(<<>>) /\ EndOf(<<>>, <<>>) /\ \A max : Spaced(<<>>, max)
  BY DEF Log, InOrder, EndOf, Spaced
<1>2. \A c \in Addresses : RateInv(c) /\ KeyInv(c)
  BY <1>1, GateConstants DEF GateInit, RateInv, KeyInv
<1>3. /\ now \in Nat
      /\ {requests, fails, admitted, counted} \subseteq [Addresses -> Seq(Nat)]
      /\ blocked \in [Addresses -> Nat \cup {Never}]
  BY DEF GateInit
<1> QED
  BY <1>2, <1>3 DEF GateInv

\* Admitting a request keeps the rate of its client; other clients keep theirs.
LEMMA AdmitKeepsRate ==
    ASSUME GateInv, NEW c \in Addresses, Admit(c), UNCHANGED now
    PROVE  /\ \A d \in Addresses : RateInv(d)'
           /\ {requests', admitted'} \subseteq [Addresses -> Seq(Nat)]
<1> DEFINE table == Recent(requests[c])
<1>1. now \in Nat /\ RateInv(c) /\ \A d \in Addresses : RateInv(d)
  BY DEF GateInv
<1>2. Log(table) /\ EndOf(table, admitted[c]) /\ Len(table) < MaxRequests
  BY <1>1, RecentOfTable DEF RateInv, Admit
<1>3. /\ requests' = [requests EXCEPT ![c] = Append(table, now)]
      /\ admitted' = [admitted EXCEPT ![c] = Append(admitted[c], now)]
      /\ requests \in [Addresses -> Seq(Nat)] /\ admitted \in [Addresses -> Seq(Nat)]
  BY DEF Admit, GateInv
<1> HIDE DEF table
<1>4. /\ Log(Append(admitted[c], now)) /\ Log(Append(table, now))
      /\ EndOf(Append(table, now), Append(admitted[c], now))
      /\ Spaced(Append(admitted[c], now), MaxRequests)
  BY <1>1, <1>2, EntryJoins, GateConstants DEF RateInv
<1>5. RateInv(c)'
  BY <1>3, <1>4 DEF RateInv, Log, EndOf, Spaced, InOrder
<1>6. \A d \in Addresses \ {c} : RateInv(d)'
  BY <1>1, <1>3 DEF RateInv, Log, EndOf, Spaced, InOrder
<1>7. table \in Seq(Nat)
  BY <1>1, <1>2, MoreValues DEF Log
<1> QED
  BY <1>1, <1>3, <1>5, <1>6, <1>7

\* The keys of a client are as they were when its tables are.
LEMMA KeysKept ==
    ASSUME NEW c \in Addresses, KeyInv(c),
           UNCHANGED <<now, fails[c], blocked[c], counted[c]>>
    PROVE  KeyInv(c)'
<1>1. Log(counted[c])' /\ Log(fails[c])'
  BY DEF KeyInv, Log, InOrder
<1>2. EndOf(fails[c], counted[c])' /\ Spaced(counted[c], MaxFailed)'
  BY DEF KeyInv, EndOf, Spaced
<1> QED
  BY <1>1, <1>2 DEF KeyInv

LEMMA TooManyGate == ASSUME GateInv, NEW c \in Addresses, TooMany(c) PROVE GateInv'
<1>1. UNCHANGED <<now, requests, fails, blocked, admitted, counted>>
  BY DEF TooMany
<1>2. \A d \in Addresses : KeyInv(d)'
  BY <1>1, KeysKept DEF GateInv
<1>3. \A d \in Addresses : RateInv(d)'
  BY <1>1 DEF GateInv, RateInv, Log, InOrder, EndOf, Spaced
<1> QED
  BY <1>1, <1>2, <1>3 DEF GateInv

LEMMA RightKeyGate == ASSUME GateInv, NEW c \in Addresses, RightKey(c) PROVE GateInv'
<1>1. UNCHANGED now /\ Admit(c)
  BY DEF RightKey
<1>2. /\ \A d \in Addresses : RateInv(d)'
      /\ {requests', admitted'} \subseteq [Addresses -> Seq(Nat)]
  BY <1>1, AdmitKeepsRate
<1>3. /\ blocked' = [blocked EXCEPT ![c] = Never] /\ blocked \in [Addresses -> Nat \cup {Never}]
      /\ fails' = [fails EXCEPT ![c] = <<>>] /\ fails \in [Addresses -> Seq(Nat)]
      /\ counted' = [counted EXCEPT ![c] = <<>>] /\ counted \in [Addresses -> Seq(Nat)]
  BY DEF RightKey, GateInv
<1>4. KeyInv(c)'
  <2>1. blocked'[c] = Never /\ fails'[c] = <<>> /\ counted'[c] = <<>>
    BY <1>3
  <2> QED
    BY <2>1, GateConstants DEF KeyInv, Log, InOrder, EndOf, Spaced
<1>5. ASSUME NEW d \in Addresses \ {c} PROVE KeyInv(d)'
  <2>1. UNCHANGED <<now, fails[d], blocked[d], counted[d]>>
    BY <1>1, <1>3
  <2> QED
    BY <2>1, KeysKept DEF GateInv
<1>6. {fails', counted'} \subseteq [Addresses -> Seq(Nat)] /\ blocked' \in [Addresses -> Nat \cup {Never}]
  BY <1>3
<1> QED
  BY <1>1, <1>2, <1>4, <1>5, <1>6 DEF GateInv

LEMMA LockedGate == ASSUME GateInv, NEW c \in Addresses, WrongKeyWhileLocked(c) PROVE GateInv'
<1>1. UNCHANGED <<now, fails, blocked, counted>> /\ Admit(c)
  BY DEF WrongKeyWhileLocked
<1>2. /\ \A d \in Addresses : RateInv(d)'
      /\ {requests', admitted'} \subseteq [Addresses -> Seq(Nat)]
  BY <1>1, AdmitKeepsRate
<1>3. \A d \in Addresses : KeyInv(d)'
  BY <1>1, KeysKept DEF GateInv
<1> QED
  BY <1>1, <1>2, <1>3 DEF GateInv

\* What counts as failed before a wrong key is counted: fewer than it takes for
\* a lockout, and everything else that was counted is a window ago, also when a
\* lockout that is over has cleared the failures.
LEMMA RoomForOne ==
    ASSUME GateInv, NEW c \in Addresses, ~LockedOut(c)
    PROVE  LET table == IF blocked[c] # Never THEN <<>> ELSE Recent(fails[c])
           IN  Log(table) /\ EndOf(table, counted[c]) /\ Len(table) < MaxFailed
<1>1. now \in Nat /\ KeyInv(c) /\ blocked[c] \in Nat \cup {Never}
  BY DEF GateInv
<1>2. CASE blocked[c] = Never
  <2>1. /\ Log(Recent(fails[c])) /\ EndOf(Recent(fails[c]), counted[c])
        /\ Len(Recent(fails[c])) <= Len(fails[c])
    BY <1>1, RecentOfTable DEF KeyInv
  <2>2. Len(fails[c]) < MaxFailed /\ Len(fails[c]) \in Nat /\ Len(Recent(fails[c])) \in Nat
    BY <1>1, <1>2, <2>1 DEF KeyInv, Log
  <2>3. Len(Recent(fails[c])) < MaxFailed
    BY <2>1, <2>2, GateConstants
  <2> QED
    BY <1>2, <2>1, <2>3
<1>3. CASE blocked[c] # Never
  <2>1. counted[c] \in Seq(0 .. now) /\ Len(counted[c]) \in Nat
    BY <1>1 DEF KeyInv, Log
  <2>2. \A i \in 1 .. Len(counted[c]) : now - counted[c][i] >= Window
    <3>1. now >= blocked[c] /\ blocked[c] \in Nat
      BY <1>1, <1>3 DEF LockedOut
    <3>2. \A i \in 1 .. Len(counted[c]) : counted[c][i] \in Nat /\ counted[c][i] <= blocked[c] - Lockout
      BY <1>1, <1>3, <2>1 DEF KeyInv
    <3> QED
      BY <1>1, <3>1, <3>2, GateConstants
  <2>3. EndOf(<<>>, counted[c])
    BY <2>1, <2>2 DEF EndOf
  <2> QED
    BY <1>3, <2>3, GateConstants DEF Log, InOrder
<1> QED
  BY <1>2, <1>3

LEMMA WrongKeyGate == ASSUME GateInv, NEW c \in Addresses, WrongKey(c) PROVE GateInv'
<1> DEFINE table == IF blocked[c] # Never THEN <<>> ELSE Recent(fails[c])
           failed == Append(table, now)
           log == Append(counted[c], now)
           lock == Len(failed) >= MaxFailed
           until == IF lock THEN now + Lockout ELSE Never
<1>1. UNCHANGED now /\ Admit(c) /\ ~LockedOut(c)
  BY DEF WrongKey
<1>2. /\ \A d \in Addresses : RateInv(d)'
      /\ {requests', admitted'} \subseteq [Addresses -> Seq(Nat)]
  BY <1>1, AdmitKeepsRate
<1>3. /\ blocked' = [blocked EXCEPT ![c] = until] /\ blocked \in [Addresses -> Nat \cup {Never}]
      /\ fails' = [fails EXCEPT ![c] = failed] /\ fails \in [Addresses -> Seq(Nat)]
      /\ counted' = [counted EXCEPT ![c] = log] /\ counted \in [Addresses -> Seq(Nat)]
  BY DEF WrongKey, GateInv, Failures
<1>4. Log(table) /\ EndOf(table, counted[c]) /\ Len(table) < MaxFailed
  BY <1>1, RoomForOne
<1>5. now \in Nat /\ KeyInv(c) /\ now' = now
  BY <1>1 DEF GateInv
<1> HIDE DEF table
<1>6. Log(log) /\ Log(failed) /\ EndOf(failed, log) /\ Spaced(log, MaxFailed)
  BY <1>4, <1>5, EntryJoins, GateConstants DEF KeyInv
<1> HIDE DEF failed, log
<1>7. blocked'[c] = until /\ fails'[c] = failed /\ counted'[c] = log
  BY <1>3
<1>8. KeyInv(c)'
  <2>1. Log(counted[c])' /\ Log(fails[c])'
    BY <1>5, <1>6, <1>7 DEF Log, InOrder
  <2>2. EndOf(fails[c], counted[c])' /\ Spaced(counted[c], MaxFailed)'
    BY <1>5, <1>6, <1>7 DEF EndOf, Spaced
  <2>3. Len(failed) \in Nat /\ now + Lockout # Never
    BY <1>5, <1>6, GateConstants DEF Log, Never
  <2>4. blocked'[c] = Never => Len(fails'[c]) < MaxFailed
    BY <1>7, <2>3, GateConstants
  <2>5. \A i \in DOMAIN log : log[i] <= now
    BY <1>5, <1>6 DEF Log
  <2>6. blocked'[c] # Never => \A i \in DOMAIN counted'[c] : counted'[c][i] <= blocked'[c] - Lockout
    BY <1>5, <1>7, <2>5, GateConstants
  <2> QED
    BY <2>1, <2>2, <2>4, <2>6 DEF KeyInv
<1>9. ASSUME NEW d \in Addresses \ {c} PROVE KeyInv(d)'
  <2>1. UNCHANGED <<now, fails[d], blocked[d], counted[d]>>
    BY <1>1, <1>3
  <2> QED
    BY <2>1, KeysKept DEF GateInv
<1>10. {fails', counted'} \subseteq [Addresses -> Seq(Nat)] /\ blocked' \in [Addresses -> Nat \cup {Never}]
  <2>1. 0 .. now \subseteq Nat /\ Seq(0 .. now) \subseteq Seq(Nat)
    BY <1>5, MoreValues
  <2>2. failed \in Seq(Nat) /\ log \in Seq(Nat) /\ until \in Nat \cup {Never}
    BY <1>5, <1>6, <2>1, GateConstants DEF Log
  <2> QED
    BY <1>3, <2>2
<1> QED
  BY <1>1, <1>2, <1>5, <1>8, <1>9, <1>10 DEF GateInv

\* Time passing: what has left the window stays out of it.
LEMMA TickGate == ASSUME GateInv, Tick PROVE GateInv'
<1>1. now \in Nat /\ now' = now + 1 /\ UNCHANGED <<requests, fails, blocked, admitted, counted>>
  BY DEF GateInv, Tick
<1>2. ASSUME NEW log, Log(log)
      PROVE  log \in Seq(0 .. now + 1) /\ InOrder(log) /\ log \in Seq(Nat)
  <2>1. 0 .. now \subseteq 0 .. now + 1 /\ 0 .. now \subseteq Nat
    BY <1>1
  <2> QED
    BY <1>2, <2>1, MoreValues DEF Log
<1>3. ASSUME NEW log, Log(log), NEW table, EndOf(table, log), Len(table) \in Nat,
             NEW i \in 1 .. Len(log) - Len(table)
      PROVE  now' - log[i] >= Window
  <2>1. now - log[i] >= Window /\ Len(log) \in Nat /\ i \in 1 .. Len(log)
    BY <1>3 DEF EndOf, Log
  <2>2. log[i] \in Nat
    BY <1>2, <1>3, <2>1
  <2> QED
    BY <1>1, <2>1, <2>2, GateConstants
<1>4. ASSUME NEW c \in Addresses PROVE RateInv(c)' /\ KeyInv(c)'
  <2>1. RateInv(c) /\ KeyInv(c)
    BY DEF GateInv
  <2>2. /\ Log(admitted[c])' /\ Log(requests[c])' /\ Log(counted[c])' /\ Log(fails[c])'
        /\ Len(requests[c]) \in Nat /\ Len(fails[c]) \in Nat
    BY <1>1, <1>2, <2>1 DEF RateInv, KeyInv, Log, InOrder
  <2>3. EndOf(requests[c], admitted[c])'
    <3>1. EndOf(requests[c], admitted[c]) /\ Log(admitted[c])
      BY <2>1 DEF RateInv
    <3>2. \A i \in 1 .. Len(admitted[c]) - Len(requests[c]) : now' - admitted[c][i] >= Window
      BY <1>3, <2>2, <3>1
    <3>3. /\ Len(requests'[c]) <= Len(admitted'[c])
          /\ \A j \in 1 .. Len(requests'[c]) : requests'[c][j] = admitted'[c][Len(admitted'[c]) - Len(requests'[c]) + j]
      BY <1>1, <3>1 DEF EndOf
    <3>4. \A i \in 1 .. Len(admitted'[c]) - Len(requests'[c]) : now' - admitted'[c][i] >= Window
      BY <1>1, <3>2
    <3> QED
      BY <3>3, <3>4 DEF EndOf
  <2>4. EndOf(fails[c], counted[c])'
    <3>1. EndOf(fails[c], counted[c]) /\ Log(counted[c])
      BY <2>1 DEF KeyInv
    <3>2. \A i \in 1 .. Len(counted[c]) - Len(fails[c]) : now' - counted[c][i] >= Window
      BY <1>3, <2>2, <3>1
    <3>3. /\ Len(fails'[c]) <= Len(counted'[c])
          /\ \A j \in 1 .. Len(fails'[c]) : fails'[c][j] = counted'[c][Len(counted'[c]) - Len(fails'[c]) + j]
      BY <1>1, <3>1 DEF EndOf
    <3>4. \A i \in 1 .. Len(counted'[c]) - Len(fails'[c]) : now' - counted'[c][i] >= Window
      BY <1>1, <3>2
    <3> QED
      BY <3>3, <3>4 DEF EndOf
  <2> QED
    BY <1>1, <2>1, <2>2, <2>3, <2>4 DEF RateInv, KeyInv, Spaced
<1> QED
  BY <1>1, <1>4 DEF GateInv

LEMMA NextGate == GateInv /\ [GateNext]_gateVars => GateInv'
<1> SUFFICES ASSUME GateInv, [GateNext]_gateVars PROVE GateInv'
  OBVIOUS
<1>1. ASSUME NEW c \in Addresses, TooMany(c) PROVE GateInv'
  BY <1>1, TooManyGate
<1>2. ASSUME NEW c \in Addresses, RightKey(c) PROVE GateInv'
  BY <1>2, RightKeyGate
<1>3. ASSUME NEW c \in Addresses, WrongKeyWhileLocked(c) PROVE GateInv'
  BY <1>3, LockedGate
<1>4. ASSUME NEW c \in Addresses, WrongKey(c) PROVE GateInv'
  BY <1>4, WrongKeyGate
<1>5. CASE Tick
  BY <1>5, TickGate
<1>6. CASE UNCHANGED gateVars
  <2>1. UNCHANGED <<now, requests, fails, blocked, admitted, counted>>
    BY <1>6 DEF gateVars
  <2>2. \A d \in Addresses : KeyInv(d)'
    BY <2>1, KeysKept DEF GateInv
  <2>3. \A d \in Addresses : RateInv(d)'
    BY <2>1 DEF GateInv, RateInv, Log, InOrder, EndOf, Spaced
  <2> QED
    BY <2>1, <2>2, <2>3 DEF GateInv
<1> QED
  BY <1>1, <1>2, <1>3, <1>4, <1>5, <1>6 DEF GateNext

LEMMA GateAlways == GateSpec => []GateInv
BY InitGate, NextGate, PTL DEF GateSpec

-----------------------------------------------------------------------------
\* A window of a spaced log holds no more than `max` entries.
LEMMA FewInWindow ==
    ASSUME now \in Nat, NEW log, Log(log), NEW max \in Nat, Spaced(log, max),
           NEW i \in DOMAIN log
    PROVE  Cardinality(Within(log, i)) <= max
<1> DEFINE L == Len(log)
<1>0. log \in Seq(0 .. now)
  BY DEF Log
<1>1. /\ L \in Nat /\ DOMAIN log = 1 .. L /\ \A j \in 1 .. L : log[j] \in Nat
      /\ \A j, k \in 1 .. L : j <= k => log[j] <= log[k]
  <2>1. L \in Nat /\ DOMAIN log = 1 .. L
    BY <1>0
  <2>2. \A j \in 1 .. L : log[j] \in Nat
    BY <1>0
  <2>3. \A j, k \in 1 .. L : j <= k => log[j] <= log[k]
    BY <2>1 DEF Log, InOrder
  <2> QED
    BY <2>1, <2>2, <2>3
<1> HIDE DEF L
<1>2. Within(log, i) \subseteq i .. i + max - 1
  <2> SUFFICES ASSUME NEW j \in 1 .. L, j >= i, log[j] - log[i] < Window, ~(j <= i + max - 1)
               PROVE  FALSE
    BY <1>1 DEF Within
  <2>1. i \in 1 .. L /\ i + max \in 1 .. L /\ i + max <= j
    BY <1>1
  <2>2. log[i + max] - log[i] >= Window
    BY <1>1, <2>1 DEF Spaced
  <2>3. log[i + max] <= log[j] /\ log[i] \in Nat /\ log[j] \in Nat /\ log[i + max] \in Nat
    BY <1>1, <2>1
  <2> QED
    BY <2>2, <2>3, GateConstants
<1>3. IsFiniteSet(i .. i + max - 1) /\ Cardinality(i .. i + max - 1) = max
  <2>1. i \in Int /\ i + max - 1 \in Int /\ (i > i + max - 1 => max = 0) /\ (i + max - 1) - i + 1 = max
    BY <1>1
  <2> QED
    BY <2>1, FS_Interval
<1>4. Cardinality(Within(log, i)) <= Cardinality(i .. i + max - 1)
  BY <1>2, <1>3, FS_Subset
<1> QED
  BY <1>3, <1>4

\* No window of requests of a client holds more than the limit, whatever the
\* pruned table has forgotten.
THEOREM RateIsLimited == GateSpec => []RateHolds
<1>1. GateInv => RateHolds
  BY FewInWindow, GateConstants DEF GateInv, RateInv, RateHolds
<1> QED
  BY <1>1, GateAlways, PTL

\* No window holds more than MaxFailed counted wrong keys, since a lockout
\* clears the failures only when it has lasted a window.
THEOREM LockoutsComeInTime == GateSpec => []LockedInTime
<1>1. GateInv => LockedInTime
  BY FewInWindow, GateConstants DEF GateInv, KeyInv, LockedInTime
<1> QED
  BY <1>1, GateAlways, PTL

\* A lockout lasts its time unless the right key ends it: a wrong key meanwhile
\* neither shortens nor prolongs it, nor do the requests of other clients.
LEMMA StepKeepsLockout ==
    GateInv /\ [GateNext]_gateVars =>
      \A c \in Addresses : blocked[c] # Never /\ now < blocked[c] =>
        blocked'[c] = blocked[c] \/ (answer' = [client |-> c, code |-> 200])
<1> SUFFICES ASSUME GateInv, [GateNext]_gateVars, NEW c \in Addresses, LockedOut(c)
             PROVE  blocked'[c] = blocked[c] \/ answer' = [client |-> c, code |-> 200]
  BY DEF LockedOut
<1>0. blocked \in [Addresses -> Nat \cup {Never}]
  BY DEF GateInv
<1>1. ASSUME NEW d \in Addresses, TooMany(d) PROVE blocked'[c] = blocked[c]
  BY <1>1 DEF TooMany
<1>2. ASSUME NEW d \in Addresses, RightKey(d)
      PROVE  blocked'[c] = blocked[c] \/ answer' = [client |-> c, code |-> 200]
  BY <1>0, <1>2 DEF RightKey, Answer
<1>3. ASSUME NEW d \in Addresses, WrongKeyWhileLocked(d) PROVE blocked'[c] = blocked[c]
  BY <1>3 DEF WrongKeyWhileLocked
<1>4. ASSUME NEW d \in Addresses, WrongKey(d) PROVE blocked'[c] = blocked[c]
  <2>1. d # c
    BY <1>4 DEF WrongKey
  <2> QED
    BY <1>0, <1>4, <2>1 DEF WrongKey
<1>5. CASE Tick \/ UNCHANGED gateVars
  BY <1>5 DEF Tick, gateVars
<1> QED
  BY <1>1, <1>2, <1>3, <1>4, <1>5 DEF GateNext

\* A lockout ends by the right key or by its time and by nothing else.
THEOREM LockoutHolds == GateSpec => LockoutLasts
BY GateAlways, StepKeepsLockout, PTL DEF GateSpec, LockoutLasts

-----------------------------------------------------------------------------
(***************************************************************************)
(* The trade journal.                                                      *)
(***************************************************************************)
(* A non-empty set of ids has a greatest one. *)
LEMMA MaxExists ==
  ASSUME NEW N \in Nat, NEW S, S \subseteq 1 .. N, S # {}
  PROVE  Max(S) \in S /\ \A y \in S : y <= Max(S)
<1> DEFINE T == {N - x : x \in S}
<1>1. T \subseteq Nat /\ T # {}
  <2>1. \A x \in S : x \in 1 .. N
    OBVIOUS
  <2>2. \A x \in S : N - x \in Nat
    BY <2>1
  <2>3. T \subseteq Nat
    BY <2>2
  <2>4. \E x \in S : N - x \in T
    OBVIOUS
  <2> QED
    BY <2>3, <2>4
<1>2. PICK m \in T : \A y \in T : ~ (<<y, m>> \in OpToRel(<, Nat))
  BY <1>1, NatLessThanWellFounded, WFMin
<1>3. ASSUME NEW y \in T PROVE m <= y
  <2>1. y \in Nat /\ m \in Nat
    BY <1>1
  <2>2. y < m => <<y, m>> \in OpToRel(<, Nat)
    BY <2>1 DEF OpToRel
  <2>3. ~ (y < m)
    BY <1>2, <2>2, Zenon
  <2> QED
    BY <2>1, <2>3
<1>4. N - m \in S /\ \A y \in S : y <= N - m
  BY <1>3
<1>5. \E x \in S : \A y \in S : x >= y
  BY <1>4
<1> QED
  BY <1>5 DEF Max

(* The number a sequence is set to is above every id of its table. *)
LEMMA SequenceAhead ==
  ASSUME NEW N \in Nat, NEW S, S \subseteq 1 .. N
  PROVE  SequenceAfter(S) \in Nat \ {0} /\ \A y \in S : y < SequenceAfter(S)
<1>1. CASE S = {}
  BY <1>1 DEF SequenceAfter
<1>2. CASE S # {}
  <2>1. Max(S) \in S /\ \A y \in S : y <= Max(S)
    BY <1>2, MaxExists
  <2>2. Max(S) \in 1 .. N
    BY <2>1
  <2> QED
    BY <1>2, <2>1, <2>2 DEF SequenceAfter
<1> QED
  BY <1>1, <1>2

(* The new rows of a batch have ids of the sequence and trades of the batch. *)
LEMMA NumberedIds ==
  ASSUME Typed, NEW batch \in Batches,
         nextTrade + Len(batch) - 1 <= MaxTradeId
  PROVE  /\ Len(batch) \in Nat
         /\ Numbered(batch) \subseteq TradeIds
         /\ \A id \in Numbered(batch) : /\ batch[id - nextTrade + 1] \in Trades
                                        /\ id >= nextTrade
                                        /\ id < nextTrade + Len(batch)
<1>1. nextTrade \in Nat \ {0} /\ MaxTradeId \in Nat
  BY JournalAssumption DEF Typed
<1>2. Len(batch) \in Nat /\ \A k \in 1 .. Len(batch) : batch[k] \in Trades
  <2>1. ASSUME NEW x \in Trades, batch = <<x>>
        PROVE  Len(batch) \in Nat /\ \A k \in 1 .. Len(batch) : batch[k] \in Trades
    <3>1. Len(batch) = 1 /\ batch[1] = x
      BY <2>1
    <3> QED
      BY <3>1
  <2>2. ASSUME NEW x \in Buys, NEW y \in Sells, batch = <<x, y>>
        PROVE  Len(batch) \in Nat /\ \A k \in 1 .. Len(batch) : batch[k] \in Trades
    <3>1. Len(batch) = 2 /\ batch[1] \in Trades /\ batch[2] \in Trades
      BY <2>2 DEF Trades
    <3> QED
      BY <3>1
  <2>3. \/ \E x \in Trades : batch = <<x>>
        \/ \E x \in Buys, y \in Sells : batch = <<x, y>>
    BY DEF Batches
  <2> QED
    BY <2>1, <2>2, <2>3, Zenon
<1>4. \A id \in Numbered(batch) : id \in nextTrade .. nextTrade + Len(batch) - 1
  BY DEF Numbered
<1>5. \A id \in Numbered(batch) : id - nextTrade + 1 \in 1 .. Len(batch)
  BY <1>1, <1>2, <1>4
<1> QED
  BY <1>1, <1>2, <1>4, <1>5 DEF TradeIds

LEMMA NewRowTyped == \A ext \in Trades : NewRow(ext) \in TradeRow
  BY JournalAssumption DEF NewRow, TradeRow

(* The trades a restore inserts have ids of the sequence. *)
LEMMA RestoredIds ==
  ASSUME Typed, NEW i \in DOMAIN backup.trades,
         nextTrade + Cardinality(DOMAIN backup.trades) - 1 <= MaxTradeId
  PROVE  /\ Cardinality(DOMAIN backup.trades) \in Nat
         /\ RestoredId(i) \in TradeIds
         /\ \/ RestoredId(i) \in DOMAIN trade
            \/ RestoredId(i) >= nextTrade
<1> DEFINE E == DOMAIN backup.trades
           L == {j \in E : j < i}
<1>1. E \subseteq 1 .. MaxTradeId /\ MaxTradeId \in Nat /\ nextTrade \in Nat \ {0}
  BY JournalAssumption DEF Typed, IsTable, TradeIds
<1>2. IsFiniteSet(1 .. MaxTradeId)
  BY <1>1, FS_Interval
<1>3. IsFiniteSet(E) /\ IsFiniteSet(E \ {i})
  BY <1>1, <1>2, FS_Subset
<1>4. Cardinality(E) \in Nat /\ Cardinality(E \ {i}) = Cardinality(E) - 1
  BY <1>3, FS_CardinalityType, FS_RemoveElement
<1>5. L \subseteq E \ {i}
  BY <1>1
<1>6. IsFiniteSet(L) /\ Cardinality(L) <= Cardinality(E) - 1
  BY <1>3, <1>4, <1>5, FS_Subset
<1>7. Cardinality(L) \in Nat
  BY <1>6, FS_CardinalityType
<1>8. CASE backup.trades[i].ext \in Stored
  <2>1. IdOf(backup.trades[i].ext) \in DOMAIN trade
    BY <1>8 DEF Stored, IdOf
  <2> QED
    BY <1>4, <1>8, <2>1 DEF RestoredId, Typed, IsTable
<1>9. CASE backup.trades[i].ext \notin Stored
  <2>1. RestoredId(i) = nextTrade + Cardinality(L)
    BY <1>9 DEF RestoredId, RestoredAsNew
  <2> HIDE DEF L, E
  <2> QED
    BY <1>1, <1>4, <1>6, <1>7, <2>1 DEF TradeIds, E
<1> QED
  BY <1>8, <1>9
-----------------------------------------------------------------------------
(* Each action keeps the tables, the requests and the backup well formed.   *)

LEMMA WatchTyped == ASSUME Typed, Watch PROVE quiet' \in BOOLEAN
  BY DEF Typed, Watch

LEMMA CountTyped == ASSUME Typed, Count PROVE ops' \in 0 .. MaxOps
<1>1. MaxOps \in Nat
  BY JournalAssumption
<1> QED
  BY <1>1 DEF Typed, Count

LEMMA ImportTyped ==
  ASSUME Typed, NEW batch \in Batches, ImportInsert(batch) \/ ImportFails(batch)
  PROVE  Typed'
<1>1. /\ Len(batch) \in Nat
      /\ Numbered(batch) \subseteq TradeIds
      /\ \A id \in Numbered(batch) : batch[id - nextTrade + 1] \in Trades
  BY NumberedIds DEF ImportInsert, ImportFails
<1>2. ops' \in 0 .. MaxOps
  BY CountTyped DEF ImportInsert, ImportFails
<1>3. CASE ImportInsert(batch)
  <2>1. IsTable(importing', TradeIds, TradeRow)
    BY <1>1, <1>3, NewRowTyped DEF ImportInsert, IsTable
  <2>2. nextTrade' \in Nat \ {0}
    BY <1>1, <1>3 DEF ImportInsert, Typed
  <2> QED
    BY <1>2, <1>3, <2>1, <2>2 DEF ImportInsert, Typed
<1>4. CASE ImportFails(batch)
  <2>1. nextTrade' \in Nat \ {0}
    BY <1>1, <1>4 DEF ImportFails, Taken, TradeIds
  <2> QED
    BY <1>2, <1>4, <2>1 DEF ImportFails, Typed
<1> QED
  BY <1>3, <1>4

LEMMA ImportedRows ==
  ASSUME ImportCommit
  PROVE  /\ DOMAIN trade' = DOMAIN importing \cup DOMAIN trade
         /\ \A id \in DOMAIN importing : trade'[id] = importing[id]
         /\ \A id \in DOMAIN trade \ DOMAIN importing : trade'[id] = trade[id]
         /\ trade' = [id \in DOMAIN trade' |-> trade'[id]]
         /\ DOMAIN importing' = {}
  BY DEF ImportCommit

LEMMA ImportCommitTyped == ASSUME Typed, ImportCommit PROVE Typed'
<1>1. IsTable(trade', TradeIds, TradeRow)
  <2>1. DOMAIN trade' \subseteq TradeIds
    BY ImportedRows DEF Typed, IsTable
  <2>2. \A id \in DOMAIN trade' : trade'[id] \in TradeRow
    BY ImportedRows DEF Typed, IsTable
  <2> QED
    BY <2>1, <2>2, ImportedRows DEF IsTable
<1>2. IsTable(importing', TradeIds, TradeRow)
  BY DEF ImportCommit, IsTable
<1>3. quiet' \in BOOLEAN
  BY WatchTyped DEF ImportCommit
<1> QED
  BY <1>1, <1>2, <1>3 DEF ImportCommit, Typed

LEMMA UpdateTyped ==
  ASSUME Typed, NEW id \in DOMAIN trade,
         NEW flags \in SUBSET BOOLEAN, NEW rems \in SUBSET Int,
         UpdateTrade(id, flags, rems)
  PROVE  Typed'
<1>1. PICK f \in IF flags = {} THEN {trade[id].matched} ELSE flags,
           r \in IF rems = {} THEN {trade[id].rem} ELSE rems :
        trade' = [trade EXCEPT ![id].matched = f, ![id].rem = r,
                              ![id].foreign = TRUE,
                              ![id].rewritten = @ \/ rems # {}]
  BY DEF UpdateTrade
<1>2. trade[id] \in TradeRow
  BY DEF Typed, IsTable
<1>3. f \in BOOLEAN /\ r \in Int
  BY <1>1, <1>2 DEF TradeRow
<1>4. IsTable(trade', TradeIds, TradeRow)
  BY <1>1, <1>2, <1>3 DEF Typed, IsTable, TradeRow
<1>5. quiet' \in BOOLEAN /\ ops' \in 0 .. MaxOps
  BY WatchTyped, CountTyped DEF UpdateTrade
<1> QED
  BY <1>4, <1>5 DEF UpdateTrade, Typed

LEMMA DeleteTradeTyped ==
  ASSUME Typed, NEW id \in DOMAIN trade, DeleteTrade(id) PROVE Typed'
<1>1. IsTable(trade', TradeIds, TradeRow)
  BY DEF DeleteTrade, Restrict, Typed, IsTable
<1>2. IsTable(match', 1 .. MaxMatchId, MatchRow)
  BY DEF DeleteTrade, Restrict, Typed, IsTable
<1>3. quiet' \in BOOLEAN /\ ops' \in 0 .. MaxOps
  BY WatchTyped, CountTyped DEF DeleteTrade
<1> QED
  BY <1>1, <1>2, <1>3 DEF DeleteTrade, Typed

LEMMA CreateReadTyped ==
  ASSUME Typed, NEW c \in Clients, NEW buy \in DOMAIN trade,
         NEW sell \in SellIds, NEW amount \in MatchAmounts,
         CreateRead(c, buy, sell, amount)
  PROVE  Typed'
<1>1. trade[buy] \in TradeRow /\ buy \in TradeIds
  BY DEF Typed, IsTable
<1>2. [kind |-> "create", buy |-> buy, sell |-> sell, amount |-> amount,
        rem |-> trade[buy].rem] \in Request
  BY <1>1 DEF Request, TradeRow, SellIds
<1>3. request' \in [Clients -> Request]
  BY <1>2 DEF CreateRead, Typed
<1>4. ops' \in 0 .. MaxOps
  BY CountTyped DEF CreateRead
<1> QED
  BY <1>3, <1>4 DEF CreateRead, Typed

(* What a create, an insert and a delete carry from one step to the next. *)
LEMMA RequestKinds ==
  ASSUME Typed, NEW c \in Clients
  PROVE  /\ request[c].kind = "create" =>
              request[c] \in [kind : {"create"}, buy : TradeIds,
                 sell : TradeIds \cup {NoSell}, amount : MatchAmounts,
                 rem : Int]
         /\ request[c].kind = "insert" =>
              request[c] \in [kind : {"insert"}, buy : TradeIds,
                 sell : TradeIds \cup {NoSell}, amount : MatchAmounts,
                 rem : Int, id : 1 .. MaxMatchId]
         /\ request[c].kind = "delete" =>
              request[c] \in [kind : {"delete"}, id : 1 .. MaxMatchId,
                              match : MatchRow]
<1>1. request[c] \in Request
  BY DEF Typed
<1> QED
  BY <1>1 DEF Request, Idle

LEMMA IdleTyped ==
  ASSUME Typed, NEW c \in Clients, request' = [request EXCEPT ![c] = Idle]
  PROVE  request' \in [Clients -> Request]
  BY DEF Typed, Request

LEMMA RowsTyped ==
  ASSUME NEW row \in TradeRow
  PROVE  /\ FlagAsSold(row) \in TradeRow
         /\ \A b \in BOOLEAN : [row EXCEPT !.rewritten = @ \/ b] \in TradeRow
         /\ \A a \in BOOLEAN, b \in BOOLEAN :
              [row EXCEPT !.matched = @ /\ a, !.raced = @ \/ b] \in TradeRow
  BY DEF FlagAsSold, TradeRow

LEMMA FlagTyped ==
  ASSUME NEW row \in TradeRow
  PROVE  FlagAsSold(row) \in TradeRow /\ UsedUp(FlagAsSold(row))
<1>1. FlagAsSold(row).foreign
  BY DEF FlagAsSold, TradeRow
<1> QED
  BY <1>1, RowsTyped DEF UsedUp

LEMMA ConsumeTyped ==
  ASSUME NEW row \in TradeRow, NEW r, r.amount \in Int, r.rem \in Int,
         NEW stale \in BOOLEAN
  PROVE  Consume(row, r, stale) \in TradeRow /\ UsedUp(Consume(row, r, stale))
<1> DEFINE left == IF r.amount < r.rem THEN r.rem - r.amount ELSE 0
<1>1. left \in Int
  OBVIOUS
<1>2. Dust \in Nat
  BY JournalAssumption
<1>3. Consume(row, r, stale) =
        [row EXCEPT !.rem = left, !.matched = left < Dust, !.foreign = FALSE,
                    !.creates = @ + 1, !.raced = @ \/ stale]
  BY DEF Consume
<1> HIDE DEF left
<1>4. Consume(row, r, stale) \in TradeRow
  <2>1. row.creates + 1 \in Nat /\ (row.raced \/ stale) \in BOOLEAN
    BY DEF TradeRow
  <2>2. Consume(row, r, stale) =
          [row EXCEPT !.rem = left, !.matched = left < Dust, !.foreign = FALSE,
                      !.creates = row.creates + 1,
                      !.raced = row.raced \/ stale]
    BY <1>3 DEF TradeRow
  <2>3. (left < Dust) \in BOOLEAN
    OBVIOUS
  <2> QED
    BY <1>1, <2>1, <2>2, <2>3 DEF TradeRow
<1>5. /\ Consume(row, r, stale).rem = left
      /\ Consume(row, r, stale).matched = (left < Dust)
  BY <1>3 DEF TradeRow
<1> QED
  BY <1>4, <1>5 DEF UsedUp

LEMMA GiveBackTyped ==
  ASSUME NEW row \in TradeRow, NEW m \in MatchRow, NEW stale \in BOOLEAN
  PROVE  GiveBack(row, m, stale) \in TradeRow /\ UsedUp(GiveBack(row, m, stale))
<1>1. m.amount \in Int
  BY JournalAssumption DEF MatchRow
<1>2. row.rem + m.amount \in Int /\ (row.raced \/ stale) \in BOOLEAN
  BY <1>1 DEF TradeRow
<1>3. GiveBack(row, m, stale) =
        [row EXCEPT !.rem = row.rem + m.amount, !.matched = FALSE,
                    !.foreign = FALSE, !.raced = row.raced \/ stale]
  BY DEF GiveBack, TradeRow
<1>4. GiveBack(row, m, stale) \in TradeRow
  BY <1>2, <1>3 DEF TradeRow
<1>5. ~ GiveBack(row, m, stale).matched
  BY <1>3 DEF TradeRow
<1> QED
  BY <1>4, <1>5 DEF UsedUp

LEMMA CreateInsertTyped ==
  ASSUME Typed, NEW c \in Clients, CreateInsert(c) PROVE Typed'
<1> DEFINE r == request[c]
<1>1. /\ r.buy \in TradeIds /\ r.sell \in TradeIds \cup {NoSell}
      /\ r.amount \in MatchAmounts /\ r.rem \in Int
  BY RequestKinds DEF CreateInsert
<1>2. nextMatch \in 1 .. MaxMatchId /\ nextMatch' = nextMatch + 1
  BY JournalAssumption DEF Typed, CreateInsert
<1>3. [kind |-> "insert", buy |-> r.buy, sell |-> r.sell,
       amount |-> r.amount, rem |-> r.rem, id |-> nextMatch] \in Request
  BY <1>1, <1>2 DEF Request
<1>4. Idle \in Request
  BY DEF Request
<1>5. request' \in [Clients -> Request]
  BY <1>3, <1>4 DEF CreateInsert, Typed
<1>6. nextMatch' \in Nat \ {0}
  BY <1>2
<1> QED
  BY <1>5, <1>6 DEF CreateInsert, Typed

(* What a commit of create_match leaves in a row. *)
Booked(r, id, row) ==
  LET bought == IF id = r.buy THEN Consume(row, r, row.rem # r.rem) ELSE row
  IN  IF id = r.sell THEN FlagAsSold(bought) ELSE bought

LEMMA CreateBooks ==
  ASSUME NEW c \in Clients, CreateCommit(c)
  PROVE  LET r == request[c] IN
         /\ r.kind = "insert"
         /\ trade' = [id \in DOMAIN trade |-> Booked(r, id, trade[id])]
         /\ match' = [k \in DOMAIN match \cup {r.id} |->
              IF k # r.id THEN match[k]
              ELSE [buy |-> r.buy, sell |-> r.sell, amount |-> r.amount]]
         /\ request' = [request EXCEPT ![c] = Idle]
         /\ UNCHANGED <<nextTrade, nextMatch, importing, backup, overtaken, ops>>
         /\ Watch
  BY DEF CreateCommit, Booked

LEMMA BookedTyped ==
  ASSUME NEW row \in TradeRow, NEW id, NEW r, r.amount \in Int, r.rem \in Int
  PROVE  /\ Booked(r, id, row) \in TradeRow
         /\ UsedUp(row) => UsedUp(Booked(r, id, row))
<1> DEFINE stale == row.rem # r.rem
           bought == IF id = r.buy THEN Consume(row, r, stale) ELSE row
<1>1. stale \in BOOLEAN
  OBVIOUS
<1> HIDE DEF stale
<1>2. bought \in TradeRow /\ (UsedUp(row) => UsedUp(bought))
  BY <1>1, ConsumeTyped
<1>3. Booked(r, id, row) = IF id = r.sell THEN FlagAsSold(bought) ELSE bought
  BY DEF Booked, stale
<1> HIDE DEF bought
<1>4. FlagAsSold(bought) \in TradeRow /\ UsedUp(FlagAsSold(bought))
  BY <1>2, FlagTyped
<1> QED
  BY <1>2, <1>3, <1>4

LEMMA CreateCommitTyped ==
  ASSUME Typed, NEW c \in Clients, CreateCommit(c) PROVE Typed'
<1> DEFINE r == request[c]
<1>1. /\ r.buy \in TradeIds /\ r.sell \in TradeIds \cup {NoSell}
      /\ r.amount \in MatchAmounts /\ r.amount \in Int /\ r.rem \in Int
      /\ r.id \in 1 .. MaxMatchId
  BY RequestKinds, JournalAssumption DEF CreateCommit
<1>2. /\ trade' = [id \in DOMAIN trade |-> Booked(r, id, trade[id])]
      /\ match' = [k \in DOMAIN match \cup {r.id} |->
              IF k # r.id THEN match[k]
              ELSE [buy |-> r.buy, sell |-> r.sell, amount |-> r.amount]]
  BY CreateBooks
<1> HIDE DEF r
<1>3. \A id \in DOMAIN trade : Booked(r, id, trade[id]) \in TradeRow
  BY <1>1, BookedTyped DEF Typed, IsTable
<1>4. IsTable(trade', TradeIds, TradeRow)
  BY <1>2, <1>3 DEF Typed, IsTable
<1>5. IsTable(match', 1 .. MaxMatchId, MatchRow)
  <2>1. [buy |-> r.buy, sell |-> r.sell, amount |-> r.amount] \in MatchRow
    BY <1>1 DEF MatchRow
  <2> QED
    BY <1>1, <1>2, <2>1 DEF Typed, IsTable
<1>6. request' \in [Clients -> Request] /\ quiet' \in BOOLEAN
  BY IdleTyped, WatchTyped DEF CreateCommit
<1> QED
  BY <1>4, <1>5, <1>6 DEF CreateCommit, Typed

LEMMA DeleteReadTyped ==
  ASSUME Typed, NEW c \in Clients, NEW k \in DOMAIN match, DeleteRead(c, k)
  PROVE  Typed'
<1>1. match[k] \in MatchRow /\ k \in 1 .. MaxMatchId
  BY DEF Typed, IsTable
<1>2. [kind |-> "delete", id |-> k, match |-> match[k]] \in Request
  BY <1>1 DEF Request
<1>3. request' \in [Clients -> Request]
  BY <1>2 DEF DeleteRead, Typed
<1>4. ops' \in 0 .. MaxOps
  BY CountTyped DEF DeleteRead
<1> QED
  BY <1>3, <1>4 DEF DeleteRead, Typed

(* The rows a committed deletion leaves. *)
LEMMA DeletedRows ==
  ASSUME Typed, NEW c \in Clients, DeleteCommit(c)
  PROVE  /\ trade' = [i \in DOMAIN trade |-> trade'[i]]
         /\ \A id \in DOMAIN trade : /\ trade'[id] \in TradeRow
                                     /\ UsedUp(trade[id]) => UsedUp(trade'[id])
<1> DEFINE r == request[c]
           stale == r.id \notin DOMAIN match \/ match[r.id] # r.match
           losers == IF stale /\ r.id \in DOMAIN match THEN {match[r.id].buy} ELSE {}
           new(i) ==
             IF i = r.match.buy THEN GiveBack(trade[i], r.match, stale)
             ELSE [trade[i] EXCEPT !.matched = @ /\ i # r.match.sell,
                                   !.raced = @ \/ i \in losers]
<1>1. r.match \in MatchRow
  BY RequestKinds DEF DeleteCommit
<1>2. trade' = [i \in DOMAIN trade |-> new(i)]
  BY DEF DeleteCommit
<1>3. stale \in BOOLEAN
  OBVIOUS
<1> HIDE DEF stale, losers, r, new
<1>4. ASSUME NEW id \in DOMAIN trade
      PROVE  trade'[id] \in TradeRow /\ (UsedUp(trade[id]) => UsedUp(trade'[id]))
  <2>1. trade[id] \in TradeRow /\ trade'[id] = new(id)
    BY <1>2 DEF Typed, IsTable
  <2>2. CASE id = r.match.buy
    <3>1. new(id) = GiveBack(trade[id], r.match, stale)
      BY <2>2 DEF new
    <3> QED
      BY <1>1, <1>3, <2>1, <3>1, GiveBackTyped
  <2>3. CASE id # r.match.buy
    <3>1. trade'[id] = [trade[id] EXCEPT !.matched = @ /\ id # r.match.sell,
                                         !.raced = @ \/ id \in losers]
      BY <2>1, <2>3 DEF new
    <3>2. (id # r.match.sell) \in BOOLEAN /\ (id \in losers) \in BOOLEAN
      OBVIOUS
    <3>3. trade'[id] \in TradeRow
      <4> DEFINE other == id # r.match.sell
                 lost == id \in losers
      <4>1. other \in BOOLEAN /\ lost \in BOOLEAN
        BY <3>2
      <4>2. trade'[id] = [trade[id] EXCEPT !.matched = @ /\ other, !.raced = @ \/ lost]
        BY <3>1
      <4> HIDE DEF other, lost
      <4> QED
        BY <2>1, <4>1, <4>2, RowsTyped
    <3>4. /\ trade'[id].matched => trade[id].matched
          /\ trade'[id].foreign = trade[id].foreign
          /\ trade'[id].rem = trade[id].rem
      BY <2>1, <3>1 DEF TradeRow
    <3> QED
      BY <3>3, <3>4 DEF UsedUp
  <2> QED
    BY <2>2, <2>3
<1> QED
  BY <1>2, <1>4

LEMMA DeleteCommitTyped ==
  ASSUME Typed, NEW c \in Clients, DeleteCommit(c) PROVE Typed'
<1>1. IsTable(trade', TradeIds, TradeRow)
  BY DeletedRows DEF Typed, IsTable
<1>2. IsTable(match', 1 .. MaxMatchId, MatchRow)
  BY DEF DeleteCommit, Restrict, Typed, IsTable
<1>3. request' \in [Clients -> Request] /\ quiet' \in BOOLEAN
  BY IdleTyped, WatchTyped DEF DeleteCommit
<1> QED
  BY <1>1, <1>2, <1>3 DEF DeleteCommit, Typed

LEMMA ExportTyped ==
  ASSUME Typed, ExportTrades \/ ExportMatches PROVE Typed'
<1>1. CASE ExportTrades
  BY <1>1 DEF ExportTrades, Typed
<1>2. CASE ExportMatches
  BY <1>2 DEF ExportMatches, Typed
<1> QED
  BY <1>1, <1>2

(* The rows after a restore, one by one. *)
LEMMA RestoredRows ==
  ASSUME Typed, nextTrade + Cardinality(DOMAIN backup.trades) - 1 <= MaxTradeId
  PROVE  /\ IsTable(RestoredTrades, TradeIds, TradeRow)
         /\ (/\ HiddenBuysAreUsedUp
             /\ \A i \in DOMAIN backup.trades : UsedUp(backup.trades[i]))
              => \A id \in DOMAIN RestoredTrades : UsedUp(RestoredTrades[id])
<1> DEFINE back(id) == {i \in DOMAIN backup.trades : RestoredId(i) = id}
           ids == DOMAIN trade \cup {RestoredId(i) : i \in DOMAIN backup.trades}
           row(id) == IF back(id) = {} THEN trade[id]
                      ELSE backup.trades[CHOOSE i \in back(id) : TRUE]
<1>1. RestoredTrades = [id \in ids |-> [row(id) EXCEPT !.rewritten = @ \/ ~quiet]]
  BY DEF RestoredTrades
<1>2. ids \subseteq TradeIds
  BY RestoredIds DEF Typed, IsTable
<1>3. ASSUME NEW id \in ids
      PROVE  \/ id \in DOMAIN trade /\ row(id) = trade[id]
             \/ \E i \in DOMAIN backup.trades : row(id) = backup.trades[i]
  <2>1. CASE back(id) = {}
    BY <2>1
  <2>2. CASE back(id) # {}
    BY <2>2
  <2> QED
    BY <2>1, <2>2
<1> HIDE DEF row, ids
<1>4. \A id \in ids : row(id) \in TradeRow
  BY <1>3 DEF Typed, IsTable
<1>5. (~quiet) \in BOOLEAN
  OBVIOUS
<1>6. \A id \in ids : RestoredTrades[id] \in TradeRow
  BY <1>1, <1>4, <1>5, RowsTyped
<1>7. IsTable(RestoredTrades, TradeIds, TradeRow)
  BY <1>1, <1>2, <1>6 DEF IsTable
<1>8. ASSUME HiddenBuysAreUsedUp, NEW id \in ids,
             \A i \in DOMAIN backup.trades : UsedUp(backup.trades[i])
      PROVE  UsedUp(RestoredTrades[id])
  <2>1. UsedUp(row(id))
    BY <1>3, <1>8 DEF HiddenBuysAreUsedUp
  <2>2. RestoredTrades[id] = [row(id) EXCEPT !.rewritten = @ \/ ~quiet]
    BY <1>1
  <2>3. /\ RestoredTrades[id].matched = row(id).matched
        /\ RestoredTrades[id].foreign = row(id).foreign
        /\ RestoredTrades[id].rem = row(id).rem
    BY <1>4, <2>2 DEF TradeRow
  <2> QED
    BY <2>1, <2>3 DEF UsedUp
<1> QED
  BY <1>1, <1>7, <1>8

LEMMA RestoredMatchesTyped ==
  ASSUME Typed PROVE IsTable(RestoredMatches, 1 .. MaxMatchId, MatchRow)
<1>1. ASSUME NEW k \in DOMAIN match, NEW a \in MatchAmounts
      PROVE  [match[k] EXCEPT !.amount = a] \in MatchRow
  BY DEF Typed, IsTable, MatchRow
<1>2. \A k \in DOMAIN backup.matches : backup.matches[k].amount \in MatchAmounts
  BY DEF Typed, IsTable, MatchRow
<1> QED
  BY <1>1, <1>2 DEF Typed, IsTable, RestoredMatches

LEMMA FiniteBackup ==
  ASSUME Typed PROVE Cardinality(DOMAIN backup.trades) \in Nat
<1>1. MaxTradeId \in Nat /\ DOMAIN backup.trades \subseteq 1 .. MaxTradeId
  BY JournalAssumption DEF Typed, IsTable, TradeIds
<1>2. IsFiniteSet(1 .. MaxTradeId)
  BY <1>1, FS_Interval
<1>3. IsFiniteSet(DOMAIN backup.trades)
  BY <1>1, <1>2, FS_Subset
<1> QED
  BY <1>3, FS_CardinalityType

LEMMA InsertingIds ==
  ASSUME Typed, NEW c \in Inserting
  PROVE  c \in Clients /\ request[c].kind = "insert" /\ request[c].id \in 1 .. MaxMatchId
<1>1. c \in Clients /\ request[c].kind = "insert"
  BY DEF Inserting
<1> QED
  BY <1>1, RequestKinds

(* A number that a restore needs and finds in use. *)
LEMMA TakenIds ==
  ASSUME Typed, MayRestore, NEW id \in Taken(NewIds)
  PROVE  id \in Nat /\ id >= nextTrade
<1>1. PICK i \in DOMAIN backup.trades : backup.trades[i].ext \notin Stored /\ id = RestoredAsNew(i)
  BY DEF Taken, NewIds
<1>2. id \in DOMAIN trade /\ DOMAIN trade \subseteq Nat /\ DOMAIN backup.trades \subseteq 1 .. MaxTradeId
      /\ MaxTradeId \in Nat /\ nextTrade \in Nat
  BY JournalAssumption DEF Taken, Typed, IsTable, TradeIds
<1>3. Cardinality({j \in DOMAIN backup.trades : j < i}) \in Nat
  <2>1. IsFiniteSet(1 .. MaxTradeId)
    BY <1>2, FS_Interval
  <2>2. {j \in DOMAIN backup.trades : j < i} \subseteq 1 .. MaxTradeId
    BY <1>2
  <2> QED
    BY <2>1, <2>2, FS_Subset, FS_CardinalityType
<1> QED
  BY <1>1, <1>2, <1>3 DEF RestoredAsNew

LEMMA RestoreTyped == ASSUME Typed, Restore PROVE Typed'
<1>1. MaxTradeId \in Nat /\ MaxMatchId \in Nat
  BY JournalAssumption
<1>2. quiet' \in BOOLEAN
  BY WatchTyped DEF Restore
<1>3. IsTable(trade', TradeIds, TradeRow)
  BY RestoredRows DEF Restore, MayRestore
<1>4. IsTable(match', 1 .. MaxMatchId, MatchRow)
  BY RestoredMatchesTyped DEF Restore
<1>5. nextTrade' \in Nat \ {0}
  <2>1. DOMAIN RestoredTrades \subseteq 1 .. MaxTradeId
    BY RestoredRows DEF Restore, MayRestore, IsTable, TradeIds
  <2> QED
    BY <1>1, <2>1, SequenceAhead DEF Restore
<1>6. nextMatch' \in Nat \ {0}
  <2>1. DOMAIN RestoredMatches \subseteq 1 .. MaxMatchId
    BY RestoredMatchesTyped DEF IsTable
  <2> QED
    BY <1>1, <2>1, SequenceAhead DEF Restore
<1>7. overtaken' \in [trades : SUBSET TradeIds, matches : SUBSET (1 .. MaxMatchId)]
  <2>1. DOMAIN importing \subseteq TradeIds
    BY DEF Typed, IsTable
  <2>2. {request[c].id : c \in Inserting} \subseteq 1 .. MaxMatchId
    BY InsertingIds
  <2> QED
    BY <2>1, <2>2 DEF Restore
<1> QED
  BY <1>2, <1>3, <1>4, <1>5, <1>6, <1>7 DEF Restore, Typed

LEMMA RestoreFailsTyped == ASSUME Typed, RestoreFails PROVE Typed'
<1>1. Cardinality(DOMAIN backup.trades) \in Nat
  BY FiniteBackup
<1>2. nextTrade' \in Nat \ {0}
  BY <1>1, TakenIds DEF RestoreFails, Typed
<1> QED
  BY <1>2 DEF RestoreFails, Typed

LEMMA FreshTyped == ASSUME Typed, FreshServer PROVE Typed'
<1>1. quiet' \in BOOLEAN
  BY WatchTyped DEF FreshServer
<1>2. request' \in [Clients -> Request]
  BY DEF FreshServer, Request
<1>3. /\ IsTable(trade', TradeIds, TradeRow) /\ IsTable(match', 1 .. MaxMatchId, MatchRow)
      /\ IsTable(importing', TradeIds, TradeRow)
  BY DEF FreshServer, IsTable
<1> QED
  BY <1>1, <1>2, <1>3 DEF FreshServer, Typed

LEMMA NextTyped == ASSUME Typed, [Next]_vars PROVE Typed'
<1>1. ASSUME NEW batch \in Batches, ImportInsert(batch) \/ ImportFails(batch) PROVE Typed'
  BY <1>1, ImportTyped
<1>2. ASSUME NEW id \in DOMAIN trade, DeleteTrade(id) PROVE Typed'
  BY <1>2, DeleteTradeTyped
<1>3. ASSUME NEW id \in DOMAIN trade,
             NEW flags \in {{}} \cup {{f} : f \in PutFlags},
             NEW rems \in {{}} \cup {{r} : r \in PutRems},
             UpdateTrade(id, flags, rems)
      PROVE  Typed'
  <2>1. flags \in SUBSET BOOLEAN /\ rems \in SUBSET Int
    BY JournalAssumption
  <2> QED
    BY <1>3, <2>1, UpdateTyped
<1>4. ASSUME NEW c \in Clients, NEW buy \in DOMAIN trade,
             NEW sell \in SellIds, NEW amount \in MatchAmounts,
             CreateRead(c, buy, sell, amount)
      PROVE  Typed'
  BY <1>4, CreateReadTyped
<1>5. ASSUME NEW c \in Clients, NEW k \in DOMAIN match, DeleteRead(c, k)
      PROVE  Typed'
  BY <1>5, DeleteReadTyped
<1>6. ASSUME NEW c \in Clients, CreateInsert(c) \/ CreateCommit(c) \/ DeleteCommit(c)
      PROVE  Typed'
  BY <1>6, CreateInsertTyped, CreateCommitTyped, DeleteCommitTyped
<1>7. CASE ImportCommit \/ ExportTrades \/ ExportMatches
  BY <1>7, ImportCommitTyped, ExportTyped
<1>8. CASE Restore \/ RestoreFails \/ FreshServer
  BY <1>8, RestoreTyped, RestoreFailsTyped, FreshTyped
<1>9. CASE UNCHANGED vars
  BY <1>9 DEF vars, Typed
<1> QED
  BY <1>1, <1>2, <1>3, <1>4, <1>5, <1>6, <1>7, <1>8, <1>9 DEF Next

LEMMA InitTyped == Init => Typed
<1> SUFFICES ASSUME Init PROVE Typed
  OBVIOUS
<1>1. MaxOps \in Nat
  BY JournalAssumption
<1>2. DOMAIN <<>> = {} /\ \A S : <<>> \in [{} -> S]
  OBVIOUS
<1>3. /\ IsTable(trade, TradeIds, TradeRow) /\ IsTable(match, 1 .. MaxMatchId, MatchRow)
      /\ IsTable(importing, TradeIds, TradeRow)
  BY <1>2 DEF Init, IsTable
<1>4. request \in [Clients -> Request]
  BY DEF Init, Request
<1>5. /\ DOMAIN backup = {"stage", "trades", "matches"}
      /\ backup.stage \in {"none", "half", "done"}
      /\ IsTable(backup.trades, TradeIds, TradeRow)
      /\ IsTable(backup.matches, 1 .. MaxMatchId, MatchRow)
  BY <1>2 DEF Init, NoBackup, IsTable
<1>6. /\ nextTrade = 1 /\ nextMatch = 1 /\ quiet = FALSE /\ ops = 0
  BY DEF Init
<1>7. quiet \in BOOLEAN
  BY <1>6, Zenon
<1>8. nextTrade \in Nat \ {0} /\ nextMatch \in Nat \ {0} /\ ops \in 0 .. MaxOps
  <2>1. nextTrade = 1 /\ nextMatch = 1 /\ ops = 0
    BY <1>6, Zenon
  <2> QED
    BY <1>1, <2>1
<1>9. overtaken \in [trades : SUBSET TradeIds, matches : SUBSET (1 .. MaxMatchId)]
  BY DEF Init
<1> QED
  BY <1>3, <1>4, <1>5, <1>7, <1>8, <1>9, Zenon DEF Typed

-----------------------------------------------------------------------------
(* What is committed and what is not yet: every id is below its sequence    *)
(* unless a restore overtook it.                                            *)
Ahead ==
  /\ NoIdCollision
  /\ \A id \in DOMAIN importing \ overtaken.trades : id < nextTrade
  /\ \A c \in Inserting : request[c].id \in overtaken.matches \/ request[c].id < nextMatch

LEMMA ImportAhead ==
  ASSUME Typed, Ahead, NEW batch \in Batches, ImportInsert(batch) \/ ImportFails(batch)
  PROVE  Ahead'
<1>1. /\ Len(batch) \in Nat
      /\ \A id \in Numbered(batch) : id >= nextTrade /\ id < nextTrade + Len(batch)
      /\ Numbered(batch) \subseteq Nat
  BY NumberedIds DEF ImportInsert, ImportFails, TradeIds
<1>2. DOMAIN trade \subseteq Nat /\ DOMAIN importing \subseteq Nat /\ nextTrade \in Nat
  BY DEF Typed, IsTable, TradeIds
<1>3. nextTrade' \in Nat /\ nextTrade' >= nextTrade
  BY <1>1, <1>2 DEF ImportInsert, ImportFails, Taken
<1>4. \A id \in DOMAIN importing' \ overtaken.trades : id < nextTrade'
  <2>1. CASE ImportInsert(batch)
    <3>1. DOMAIN importing' = Numbered(batch) /\ nextTrade' = nextTrade + Len(batch)
      BY <2>1 DEF ImportInsert
    <3> QED
      BY <1>1, <3>1
  <2>2. CASE ImportFails(batch)
    BY <1>2, <1>3, <2>2 DEF ImportFails, Ahead
  <2> QED
    BY <2>1, <2>2
<1>5. UNCHANGED <<trade, match, nextMatch, request, overtaken>>
  BY DEF ImportInsert, ImportFails
<1> QED
  BY <1>2, <1>3, <1>4, <1>5 DEF Ahead, NoIdCollision, Inserting

(* Steps that leave numbers, imports and inserts alone. *)
LEMMA RowsAhead ==
  ASSUME Ahead, DOMAIN trade' = DOMAIN trade, DOMAIN match' \subseteq DOMAIN match,
         UNCHANGED <<nextTrade, nextMatch, importing, overtaken>>,
         Inserting' \subseteq Inserting, \A c \in Inserting' : request'[c].id = request[c].id
  PROVE  Ahead'
  BY DEF Ahead, NoIdCollision

LEMMA RestoreAhead == ASSUME Typed, Restore PROVE Ahead'
<1>1. MaxTradeId \in Nat /\ MaxMatchId \in Nat
  BY JournalAssumption
<1>2. DOMAIN RestoredTrades \subseteq 1 .. MaxTradeId
  BY RestoredRows DEF Restore, MayRestore, IsTable, TradeIds
<1>3. DOMAIN RestoredMatches \subseteq 1 .. MaxMatchId
  BY RestoredMatchesTyped DEF IsTable
<1>4. \A id \in DOMAIN RestoredTrades : id < SequenceAfter(DOMAIN RestoredTrades)
  BY <1>1, <1>2, SequenceAhead
<1>5. \A k \in DOMAIN RestoredMatches : k < SequenceAfter(DOMAIN RestoredMatches)
  BY <1>1, <1>3, SequenceAhead
<1>6. NoIdCollision'
  BY <1>4, <1>5 DEF Restore, NoIdCollision
<1>7. /\ importing' = importing /\ request' = request
      /\ overtaken'.trades = DOMAIN importing
      /\ overtaken'.matches = {request[c].id : c \in Inserting}
  BY DEF Restore
<1> QED
  BY <1>6, <1>7 DEF Ahead, Inserting

LEMMA NextAhead == ASSUME Typed, Ahead, [Next]_vars PROVE Ahead'
<1>1. ASSUME NEW batch \in Batches, ImportInsert(batch) \/ ImportFails(batch) PROVE Ahead'
  BY <1>1, ImportAhead
<1>2. CASE ImportCommit
  <2>1. UNCHANGED <<nextTrade, match, nextMatch, request, overtaken>>
    BY <1>2 DEF ImportCommit
  <2>2. DOMAIN trade' = DOMAIN importing \cup DOMAIN trade /\ DOMAIN importing' = {}
    BY <1>2, ImportedRows
  <2> QED
    BY <2>1, <2>2 DEF Ahead, NoIdCollision, Inserting
<1>3. ASSUME NEW id \in DOMAIN trade, DeleteTrade(id) PROVE Ahead'
  <2>1. DOMAIN trade' \subseteq DOMAIN trade /\ DOMAIN match' \subseteq DOMAIN match
        /\ UNCHANGED <<nextTrade, nextMatch, importing, request, overtaken>>
    BY <1>3 DEF DeleteTrade, Restrict
  <2> QED
    BY <2>1 DEF Ahead, NoIdCollision, Inserting
<1>4. ASSUME NEW id \in DOMAIN trade, NEW flags, NEW rems, UpdateTrade(id, flags, rems)
      PROVE  Ahead'
  <2>1. DOMAIN trade' = DOMAIN trade
        /\ UNCHANGED <<match, nextTrade, nextMatch, importing, request, overtaken>>
    BY <1>4 DEF UpdateTrade
  <2> QED
    BY <2>1, RowsAhead DEF Inserting
<1>5. ASSUME NEW c \in Clients, NEW buy, NEW sell, NEW amount, CreateRead(c, buy, sell, amount)
      PROVE  Ahead'
  <2>1. /\ UNCHANGED <<trade, match, nextTrade, nextMatch, importing, overtaken>>
        /\ request' = [request EXCEPT ![c] =
             [kind |-> "create", buy |-> buy, sell |-> sell, amount |-> amount,
              rem |-> trade[buy].rem]]
    BY <1>5 DEF CreateRead
  <2>2. Inserting' \subseteq Inserting /\ \A d \in Inserting' : request'[d] = request[d]
    BY <2>1 DEF Inserting, Typed
  <2> QED
    BY <2>1, <2>2, RowsAhead
<1>6. ASSUME NEW c \in Clients, NEW k, DeleteRead(c, k) PROVE Ahead'
  <2>1. /\ UNCHANGED <<trade, match, nextTrade, nextMatch, importing, overtaken>>
        /\ request' = [request EXCEPT ![c] =
             [kind |-> "delete", id |-> k, match |-> match[k]]]
    BY <1>6 DEF DeleteRead
  <2>2. Inserting' \subseteq Inserting /\ \A d \in Inserting' : request'[d] = request[d]
    BY <2>1 DEF Inserting, Typed
  <2> QED
    BY <2>1, <2>2, RowsAhead
<1>7. ASSUME NEW c \in Clients, CreateInsert(c) PROVE Ahead'
  <2>1. /\ UNCHANGED <<trade, match, nextTrade, importing, overtaken>>
        /\ nextMatch' = nextMatch + 1 /\ nextMatch \in Nat /\ DOMAIN match \subseteq Nat
    BY <1>7 DEF CreateInsert, Typed, IsTable
  <2>2. /\ \A d \in Clients : d # c => request'[d] = request[d]
        /\ request'[c].kind = "insert" => request'[c].id = nextMatch
    BY <1>7 DEF CreateInsert, Typed, Idle
  <2>3. \A d \in Inserting' : request'[d].id = nextMatch
                              \/ (d \in Inserting /\ request'[d].id = request[d].id)
    BY <2>2 DEF Inserting
  <2>4. \A d \in Inserting : request[d].id \in Nat
    BY InsertingIds
  <2>5. \A d \in Inserting' : request'[d].id \in overtaken'.matches \/ request'[d].id < nextMatch'
    BY <2>1, <2>3, <2>4 DEF Ahead
  <2>6. NoIdCollision'
    BY <2>1 DEF Ahead, NoIdCollision
  <2> QED
    BY <2>1, <2>5, <2>6 DEF Ahead
<1>8. ASSUME NEW c \in Clients, CreateCommit(c) PROVE Ahead'
  <2>1. /\ DOMAIN trade' = DOMAIN trade /\ DOMAIN match' = DOMAIN match \cup {request[c].id}
        /\ UNCHANGED <<nextTrade, nextMatch, importing, overtaken>>
        /\ request' = [request EXCEPT ![c] = Idle] /\ c \in Inserting
    BY <1>8, CreateBooks DEF Inserting
  <2>2. \A d \in Inserting' : d \in Inserting /\ request'[d] = request[d]
    BY <2>1 DEF Inserting, Typed, Idle
  <2> QED
    BY <2>1, <2>2 DEF Ahead, NoIdCollision
<1>9. ASSUME NEW c \in Clients, DeleteCommit(c) PROVE Ahead'
  <2>1. /\ DOMAIN trade' = DOMAIN trade /\ DOMAIN match' \subseteq DOMAIN match
        /\ UNCHANGED <<nextTrade, nextMatch, importing, overtaken>>
        /\ request' = [request EXCEPT ![c] = Idle]
    BY <1>9 DEF DeleteCommit, Restrict
  <2>2. Inserting' \subseteq Inserting /\ \A d \in Inserting' : request'[d] = request[d]
    BY <2>1 DEF Inserting, Typed, Idle
  <2> QED
    BY <2>1, <2>2, RowsAhead
<1>10. CASE ExportTrades \/ ExportMatches \/ UNCHANGED vars
  <2>1. UNCHANGED <<trade, match, nextTrade, nextMatch, importing, request, overtaken>>
    BY <1>10 DEF ExportTrades, ExportMatches, vars
  <2> QED
    BY <2>1, RowsAhead DEF Inserting
<1>11. CASE Restore
  BY <1>11, RestoreAhead
<1>12. CASE RestoreFails
  <2>1. UNCHANGED <<trade, match, nextMatch, importing, request, overtaken>>
    BY <1>12 DEF RestoreFails
  <2>2. nextTrade' \in Nat /\ nextTrade' >= nextTrade /\ nextTrade \in Nat
    BY <1>12, FiniteBackup, TakenIds DEF RestoreFails, Typed
  <2>3. DOMAIN trade \subseteq Nat /\ DOMAIN importing \subseteq Nat
    BY DEF Typed, IsTable, TradeIds
  <2> QED
    BY <2>1, <2>2, <2>3 DEF Ahead, NoIdCollision, Inserting
<1>13. CASE FreshServer
  <2>1. DOMAIN trade' = {} /\ DOMAIN match' = {} /\ DOMAIN importing' = {}
        /\ \A c \in Clients : request'[c].kind = "idle"
    BY <1>13 DEF FreshServer, Idle
  <2>2. Inserting' = {}
    BY <2>1 DEF Inserting
  <2> QED
    BY <2>1, <2>2 DEF Ahead, NoIdCollision
<1> QED
  BY <1>1, <1>2, <1>3, <1>4, <1>5, <1>6, <1>7, <1>8, <1>9, <1>10, <1>11, <1>12, <1>13 DEF Next

LEMMA InitAhead == Init => Ahead
<1> SUFFICES ASSUME Init PROVE Ahead
  OBVIOUS
<1>1. DOMAIN trade = {} /\ DOMAIN match = {} /\ DOMAIN importing = {}
      /\ \A c \in Clients : request[c].kind = "idle"
  BY DEF Init, Idle
<1>2. Inserting = {}
  BY <1>1 DEF Inserting
<1> QED
  BY <1>1, <1>2 DEF Ahead, NoIdCollision

(* The id sequences stay ahead of the tables through every import, match    *)
(* and restore (backup.py:214-219), but for the ids of rows that were        *)
(* inserted and not committed when the last restore moved the sequences.    *)
THEOREM SequencesStayAhead == Spec => []NoIdCollision
<1>1. Ahead => NoIdCollision
  BY DEF Ahead
<1> QED
  BY <1>1, InitTyped, InitAhead, NextTyped, NextAhead, PTL DEF Spec

-----------------------------------------------------------------------------
(* Restores can only hide what the backup hides, and imports what they have *)
(* inserted, so both are part of the inductive invariant.                   *)
HiddenInv ==
  /\ HiddenBuysAreUsedUp
  /\ \A id \in DOMAIN importing : UsedUp(importing[id])
  /\ \A i \in DOMAIN backup.trades : UsedUp(backup.trades[i])

LEMMA NextHidden == ASSUME Typed, HiddenInv, [Next]_vars PROVE HiddenInv'
<1>1. ASSUME NEW batch \in Batches, ImportInsert(batch) PROVE HiddenInv'
  <2>1. \A ext : UsedUp(NewRow(ext))
    BY DEF UsedUp, NewRow
  <2> QED
    BY <1>1, <2>1 DEF ImportInsert, HiddenInv, HiddenBuysAreUsedUp
<1>13. CASE ImportCommit
  <2>1. \A id \in DOMAIN trade' : UsedUp(trade'[id])
    BY <1>13, ImportedRows DEF HiddenInv, HiddenBuysAreUsedUp
  <2> QED
    BY <1>13, <2>1, ImportedRows DEF ImportCommit, HiddenInv, HiddenBuysAreUsedUp
<1>14. ASSUME UNCHANGED <<trade, importing, backup>> PROVE HiddenInv'
  BY <1>14 DEF HiddenInv, HiddenBuysAreUsedUp
<1>15. ASSUME NEW batch \in Batches, ImportFails(batch) PROVE HiddenInv'
  BY <1>14, <1>15 DEF ImportFails
<1>16. ASSUME NEW c \in Clients, CreateInsert(c) PROVE HiddenInv'
  BY <1>14, <1>16 DEF CreateInsert
<1>17. CASE RestoreFails
  BY <1>14, <1>17 DEF RestoreFails
<1>2. ASSUME NEW id \in DOMAIN trade, DeleteTrade(id) PROVE HiddenInv'
  BY <1>2 DEF DeleteTrade, Restrict, HiddenInv, HiddenBuysAreUsedUp
<1>3. ASSUME NEW id \in DOMAIN trade, NEW flags, NEW rems,
             UpdateTrade(id, flags, rems)
      PROVE  HiddenInv'
  <2>1. trade[id] \in TradeRow
    BY DEF Typed, IsTable
  <2>2. trade'[id].foreign
    BY <1>3, <2>1 DEF UpdateTrade, TradeRow
  <2>3. DOMAIN trade' = DOMAIN trade
        /\ \A i \in DOMAIN trade : i # id => trade'[i] = trade[i]
    BY <1>3 DEF UpdateTrade
  <2> QED
    BY <1>3, <2>2, <2>3 DEF UpdateTrade, HiddenInv, HiddenBuysAreUsedUp, UsedUp
<1>4. ASSUME NEW c \in Clients, NEW buy, NEW sell, NEW amount,
             CreateRead(c, buy, sell, amount)
      PROVE  HiddenInv'
  BY <1>4 DEF CreateRead, HiddenInv, HiddenBuysAreUsedUp
<1>5. ASSUME NEW c \in Clients, NEW k, DeleteRead(c, k) PROVE HiddenInv'
  BY <1>5 DEF DeleteRead, HiddenInv, HiddenBuysAreUsedUp
<1>6. ASSUME NEW c \in Clients, CreateCommit(c) PROVE HiddenInv'
  <2> DEFINE r == request[c]
  <2>1. r.amount \in Int /\ r.rem \in Int
    BY <1>6, RequestKinds, JournalAssumption DEF CreateCommit
  <2>2. /\ trade' = [id \in DOMAIN trade |-> Booked(r, id, trade[id])]
        /\ UNCHANGED <<importing, backup>>
    BY <1>6, CreateBooks
  <2> HIDE DEF r
  <2>3. \A id \in DOMAIN trade : UsedUp(Booked(r, id, trade[id]))
    BY <2>1, BookedTyped DEF Typed, IsTable, HiddenInv, HiddenBuysAreUsedUp
  <2> QED
    BY <2>2, <2>3 DEF HiddenInv, HiddenBuysAreUsedUp
<1>7. ASSUME NEW c \in Clients, DeleteCommit(c) PROVE HiddenInv'
  <2>1. DOMAIN trade' = DOMAIN trade
    BY <1>7, DeletedRows
  <2>2. \A id \in DOMAIN trade : UsedUp(trade'[id])
    BY <1>7, DeletedRows DEF HiddenInv, HiddenBuysAreUsedUp
  <2> QED
    BY <1>7, <2>1, <2>2 DEF DeleteCommit, HiddenInv, HiddenBuysAreUsedUp
<1>8. CASE ExportTrades
  <2>1. UNCHANGED <<trade, importing>> /\ backup'.trades = trade
    BY <1>8 DEF ExportTrades, Typed
  <2> QED
    BY <2>1 DEF HiddenInv, HiddenBuysAreUsedUp
<1>9. CASE ExportMatches
  <2>1. UNCHANGED <<trade, importing>> /\ backup'.trades = backup.trades
    BY <1>9 DEF ExportMatches, Typed
  <2> QED
    BY <2>1 DEF HiddenInv, HiddenBuysAreUsedUp
<1>10. CASE Restore
  <2>1. UNCHANGED <<importing, backup>> /\ trade' = RestoredTrades
    BY <1>10 DEF Restore
  <2>2. \A id \in DOMAIN RestoredTrades : UsedUp(RestoredTrades[id])
    BY <1>10, RestoredRows DEF Restore, MayRestore, HiddenInv
  <2> QED
    BY <2>1, <2>2 DEF HiddenInv, HiddenBuysAreUsedUp
<1>11. CASE FreshServer
  <2>1. DOMAIN trade' = {} /\ DOMAIN importing' = {} /\ backup' = backup
    BY <1>11 DEF FreshServer
  <2> QED
    BY <2>1 DEF HiddenInv, HiddenBuysAreUsedUp
<1>12. CASE UNCHANGED vars
  BY <1>12 DEF vars, HiddenInv, HiddenBuysAreUsedUp
<1> QED
  BY <1>1, <1>2, <1>3, <1>4, <1>5, <1>6, <1>7, <1>8, <1>9, <1>10, <1>11, <1>12,
     <1>13, <1>15, <1>16, <1>17 DEF Next

(* Whatever requests, deletions, exports and restores race, a buy that the  *)
(* journal's own bookkeeping hides from the open buys (only_open,           *)
(* trades.py:54-55) has less than dust left.                                *)
THEOREM NothingHiddenButDust == Spec => []HiddenBuysAreUsedUp
<1>1. Init => HiddenInv
  <2>1. DOMAIN <<>> = {}
    OBVIOUS
  <2> QED
    BY <2>1 DEF Init, NoBackup, HiddenInv, HiddenBuysAreUsedUp
<1>2. HiddenInv => HiddenBuysAreUsedUp
  BY DEF HiddenInv
<1> QED
  BY <1>1, <1>2, InitTyped, NextTyped, NextHidden, PTL DEF Spec

-----------------------------------------------------------------------------
(* How the tables, the requests, the imports and the backup agree.  A match *)
(* names a buy that is there; a trade of an exchange has one row, in the    *)
(* journal and in the backup; what is inserted and not yet committed does   *)
(* not meet what is committed, and its buys cannot go; while quiet the      *)
(* backup is the journal; a request to match asks for no more than it has   *)
(* read, but for the tolerance.                                             *)
OneRowPerTrade(t) == \A i, j \in DOMAIN t : t[i].ext = t[j].ext => i = j
ImportsApart ==
  /\ OneRowPerTrade(importing)
  /\ \A id \in DOMAIN importing :
       /\ id \notin DOMAIN trade /\ importing[id].ext \notin Stored
       /\ importing[id] = NewRow(importing[id].ext)
InsertsApart ==
  /\ \A c \in Inserting : request[c].buy \in DOMAIN trade /\ request[c].id \notin DOMAIN match
  /\ \A c, d \in Inserting : request[c].id = request[d].id => c = d
QuietBackup ==
  quiet => /\ backup.trades = trade
           /\ backup.stage = "done" => backup.matches = match
RequestsFit ==
  \A c \in Clients :
    request[c].kind \in {"create", "insert"} => request[c].amount <= request[c].rem + Tol

JournalInv ==
  /\ Typed /\ KeysHold
  /\ OneRowPerTrade(trade) /\ OneRowPerTrade(backup.trades)
  /\ ImportsApart /\ InsertsApart
  /\ QuietBackup /\ RequestsFit

LEMMA WatchQuiet ==
  ASSUME QuietBackup, Watch, UNCHANGED backup PROVE QuietBackup'
BY DEF QuietBackup, Watch

(* A finite set of numbers has more elements below a greater one. *)
LEMMA MoreBelow ==
  ASSUME NEW N \in Nat, NEW E, E \subseteq 1 .. N, NEW i \in E, NEW j \in E, i < j
  PROVE  /\ Cardinality({k \in E : k < i}) \in Nat
         /\ Cardinality({k \in E : k < i}) < Cardinality({k \in E : k < j})
<1> DEFINE B(x) == {k \in E : k < x}
<1>1. IsFiniteSet(1 .. N)
  BY FS_Interval
<1>2. IsFiniteSet(B(i)) /\ IsFiniteSet(B(j))
  <2>1. B(i) \subseteq 1 .. N /\ B(j) \subseteq 1 .. N
    OBVIOUS
  <2> QED
    BY <1>1, <2>1, FS_Subset
<1>0. \A x \in E : x \in Int
  OBVIOUS
<1>3. B(i) \cup {i} \subseteq B(j) /\ i \notin B(i)
  <2>1. i \in Int /\ j \in Int
    BY <1>0
  <2>2. \A x \in B(i) : x \in B(j)
    BY <1>0, <2>1
  <2>3. i \in B(j) /\ i \notin B(i)
    BY <2>1
  <2> HIDE DEF B
  <2> QED
    BY <2>2, <2>3
<1> HIDE DEF B
<1>4. Cardinality(B(i)) \in Nat /\ Cardinality(B(i) \cup {i}) = Cardinality(B(i)) + 1
  BY <1>2, <1>3, FS_AddElement, FS_CardinalityType
<1>5. Cardinality(B(i) \cup {i}) <= Cardinality(B(j)) /\ Cardinality(B(j)) \in Nat
  BY <1>2, <1>3, FS_Subset, FS_CardinalityType
<1>6. Cardinality(B(i)) < Cardinality(B(j))
  BY <1>4, <1>5
<1> QED
  BY <1>4, <1>6 DEF B

(* A restored trade finds its own row, or gets a number of its own. *)
LEMMA RestoredKnown ==
  ASSUME Typed, NEW i \in DOMAIN backup.trades, backup.trades[i].ext \in Stored
  PROVE  RestoredId(i) \in DOMAIN trade /\ trade[RestoredId(i)].ext = backup.trades[i].ext
<1>1. \E id \in DOMAIN trade : trade[id].ext = backup.trades[i].ext
  BY DEF Stored
<1>2. RestoredId(i) = CHOOSE id \in DOMAIN trade : trade[id].ext = backup.trades[i].ext
  BY DEF RestoredId, IdOf
<1> QED
  BY <1>1, <1>2

LEMMA RestoredNew ==
  ASSUME Taken(NewIds) = {}, NEW i \in DOMAIN backup.trades,
         backup.trades[i].ext \notin Stored
  PROVE  /\ RestoredId(i) = RestoredAsNew(i) /\ RestoredId(i) \notin DOMAIN trade
         /\ RestoredId(i) \in NewIds
<1>1. RestoredId(i) = RestoredAsNew(i)
  BY DEF RestoredId
<1>2. RestoredAsNew(i) \in NewIds
  BY DEF NewIds
<1> QED
  BY <1>1, <1>2 DEF Taken

LEMMA RestoredApart ==
  ASSUME Typed, Taken(NewIds) = {}, OneRowPerTrade(backup.trades),
         NEW i \in DOMAIN backup.trades, NEW j \in DOMAIN backup.trades,
         RestoredId(i) = RestoredId(j)
  PROVE  i = j
<1>1. CASE backup.trades[i].ext \in Stored /\ backup.trades[j].ext \in Stored
  BY <1>1, RestoredKnown DEF OneRowPerTrade
<1>2. CASE backup.trades[i].ext \notin Stored /\ backup.trades[j].ext \notin Stored
  <2>1. MaxTradeId \in Nat /\ DOMAIN backup.trades \subseteq 1 .. MaxTradeId /\ nextTrade \in Nat
    BY JournalAssumption DEF Typed, IsTable, TradeIds
  <2>2. RestoredAsNew(i) = RestoredAsNew(j)
    BY <1>2, RestoredNew
  <2> DEFINE below(x) == Cardinality({k \in DOMAIN backup.trades : k < x})
  <2>3. i < j => below(i) \in Nat /\ below(i) < below(j)
    BY <2>1, MoreBelow
  <2>4. j < i => below(j) \in Nat /\ below(j) < below(i)
    BY <2>1, MoreBelow
  <2>5. nextTrade + below(i) = nextTrade + below(j)
    BY <2>2 DEF RestoredAsNew
  <2>6. below(i) \in Nat /\ below(j) \in Nat
    <3>1. IsFiniteSet(1 .. MaxTradeId)
      <4> HIDE DEF below
      <4>1. 1 \in Int /\ MaxTradeId \in Int
        BY <2>1
      <4> QED
        BY <4>1, FS_Interval
    <3>2. ASSUME NEW x PROVE {k \in DOMAIN backup.trades : k < x} \subseteq 1 .. MaxTradeId
      <4>1. {k \in DOMAIN backup.trades : k < x} \subseteq DOMAIN backup.trades
        OBVIOUS
      <4> QED
        BY <2>1, <4>1
    <3> QED
      BY <3>1, <3>2, FS_Subset, FS_CardinalityType
  <2> HIDE DEF below
  <2>7. i \in Nat /\ j \in Nat
    BY <2>1
  <2> QED
    BY <2>1, <2>3, <2>4, <2>5, <2>6, <2>7
<1>3. CASE backup.trades[i].ext \in Stored /\ backup.trades[j].ext \notin Stored
  BY <1>3, RestoredKnown, RestoredNew
<1>4. CASE backup.trades[i].ext \notin Stored /\ backup.trades[j].ext \in Stored
  BY <1>4, RestoredKnown, RestoredNew
<1> QED
  BY <1>1, <1>2, <1>3, <1>4

(* Which trades the rows stand for after a restore. *)
LEMMA RestoredExt ==
  ASSUME Typed, Taken(NewIds) = {}, OneRowPerTrade(backup.trades),
         NEW id \in DOMAIN RestoredTrades,
         nextTrade + Cardinality(DOMAIN backup.trades) - 1 <= MaxTradeId
  PROVE  \/ id \in DOMAIN trade /\ RestoredTrades[id].ext = trade[id].ext
         \/ \E i \in DOMAIN backup.trades :
              /\ id = RestoredId(i) /\ id \notin DOMAIN trade
              /\ backup.trades[i].ext \notin Stored
              /\ RestoredTrades[id].ext = backup.trades[i].ext
<1> DEFINE back == {i \in DOMAIN backup.trades : RestoredId(i) = id}
           row == IF back = {} THEN trade[id] ELSE backup.trades[CHOOSE i \in back : TRUE]
<1>1. /\ RestoredTrades[id] = [row EXCEPT !.rewritten = @ \/ ~quiet]
      /\ id \in DOMAIN trade \cup {RestoredId(i) : i \in DOMAIN backup.trades}
  BY DEF RestoredTrades
<1>2. row.ext = RestoredTrades[id].ext /\ RestoredTrades[id] \in TradeRow
  <2>1. row \in TradeRow
    BY <1>1 DEF Typed, IsTable
  <2> HIDE DEF row
  <2> QED
    BY <1>1, <2>1 DEF TradeRow
<1>3. CASE back = {}
  BY <1>1, <1>2, <1>3
<1>4. CASE back # {}
  <2>1. PICK i \in DOMAIN backup.trades : RestoredId(i) = id /\ row = backup.trades[i]
    BY <1>4
  <2> HIDE DEF row
  <2>2. CASE backup.trades[i].ext \in Stored
    BY <1>2, <2>1, <2>2, RestoredKnown
  <2>3. CASE backup.trades[i].ext \notin Stored
    BY <1>2, <2>1, <2>3, RestoredNew
  <2> QED
    BY <2>2, <2>3
<1> QED
  BY <1>3, <1>4

LEMMA RestoredOnce ==
  ASSUME Typed, Taken(NewIds) = {}, OneRowPerTrade(trade), OneRowPerTrade(backup.trades),
         nextTrade + Cardinality(DOMAIN backup.trades) - 1 <= MaxTradeId
  PROVE  OneRowPerTrade(RestoredTrades)
<1> SUFFICES ASSUME NEW a \in DOMAIN RestoredTrades, NEW b \in DOMAIN RestoredTrades,
                    RestoredTrades[a].ext = RestoredTrades[b].ext
             PROVE  a = b
  BY DEF OneRowPerTrade
<1>1. \A id \in DOMAIN trade : trade[id].ext \in Stored
  BY DEF Stored
<1> QED
  BY <1>1, RestoredExt DEF OneRowPerTrade

(* While quiet, a restore writes back what is there. *)
LEMMA QuietRestored ==
  ASSUME JournalInv, quiet, backup.stage = "done"
  PROVE  Restorable /\ RestoredTrades = trade /\ RestoredMatches = match
<1>1. backup.trades = trade /\ backup.matches = match
  BY DEF JournalInv, QuietBackup
<1>2. \A i \in DOMAIN trade : RestoredId(i) = i
  <2> SUFFICES ASSUME NEW i \in DOMAIN trade PROVE RestoredId(i) = i
    OBVIOUS
  <2>1. backup.trades[i].ext \in Stored
    BY <1>1 DEF Stored
  <2> QED
    BY <1>1, <2>1, RestoredKnown DEF JournalInv, OneRowPerTrade
<1>3. RestoredTrades = trade
  <2> DEFINE back(id) == {i \in DOMAIN backup.trades : RestoredId(i) = id}
             ids == DOMAIN trade \cup {RestoredId(i) : i \in DOMAIN backup.trades}
             row(id) == IF back(id) = {} THEN trade[id]
                        ELSE backup.trades[CHOOSE i \in back(id) : TRUE]
  <2>1. RestoredTrades = [id \in ids |-> [row(id) EXCEPT !.rewritten = @ \/ ~quiet]]
    BY DEF RestoredTrades
  <2>2. ids = DOMAIN trade
    BY <1>1, <1>2
  <2>3. \A id \in DOMAIN trade : row(id) = trade[id]
    <3> SUFFICES ASSUME NEW id \in DOMAIN trade PROVE row(id) = trade[id]
      OBVIOUS
    <3>1. back(id) = {id}
      BY <1>1, <1>2
    <3> HIDE DEF back
    <3> QED
      BY <1>1, <3>1
  <2> HIDE DEF ids, row
  <2>4. \A id \in DOMAIN trade : [row(id) EXCEPT !.rewritten = @ \/ ~quiet] = trade[id]
    <3> SUFFICES ASSUME NEW id \in DOMAIN trade
                 PROVE  [trade[id] EXCEPT !.rewritten = @ \/ ~quiet] = trade[id]
      BY <2>3
    <3>1. trade[id] \in TradeRow
      BY DEF JournalInv, Typed, IsTable
    <3> QED
      BY <3>1 DEF TradeRow
  <2>5. trade = [id \in DOMAIN trade |-> trade[id]]
    BY DEF JournalInv, Typed, IsTable
  <2> QED
    BY <2>1, <2>2, <2>4, <2>5
<1>4. RestoredMatches = match
  <2>1. RestoredMatches = [k \in DOMAIN match |-> [match[k] EXCEPT !.amount = match[k].amount]]
    BY <1>1 DEF RestoredMatches
  <2>2. \A k \in DOMAIN match : [match[k] EXCEPT !.amount = match[k].amount] = match[k]
    BY DEF JournalInv, Typed, IsTable, MatchRow
  <2>3. match = [k \in DOMAIN match |-> match[k]]
    BY DEF JournalInv, Typed, IsTable
  <2> QED
    BY <2>1, <2>2, <2>3
<1>5. Taken(NewIds) = {}
  <2>1. \A i \in DOMAIN backup.trades : backup.trades[i].ext \in Stored
    BY <1>1 DEF Stored
  <2> QED
    BY <2>1 DEF NewIds, Taken
<1> QED
  BY <1>1, <1>3, <1>4, <1>5 DEF Restorable

(* Each action keeps the agreement. *)
LEMMA BatchOfDistinct ==
  ASSUME NEW batch \in Batches
  PROVE  \A j, k \in 1 .. Len(batch) : batch[j] = batch[k] => j = k
<1>1. \/ \E x \in Trades : batch = <<x>>
      \/ \E x \in Buys, y \in Sells : batch = <<x, y>>
  BY DEF Batches
<1>2. ASSUME NEW x \in Trades, batch = <<x>>
      PROVE  \A j, k \in 1 .. Len(batch) : batch[j] = batch[k] => j = k
  BY <1>2
<1>3. ASSUME NEW x \in Buys, NEW y \in Sells, batch = <<x, y>>
      PROVE  \A j, k \in 1 .. Len(batch) : batch[j] = batch[k] => j = k
  <2>1. x # y /\ Len(batch) = 2 /\ batch[1] = x /\ batch[2] = y
    BY <1>3, JournalAssumption
  <2> QED
    BY <2>1
<1> QED
  BY <1>1, <1>2, <1>3

LEMMA ImportInsertAgrees ==
  ASSUME JournalInv, [Next]_vars, NEW batch \in Batches, ImportInsert(batch) PROVE JournalInv'
<1>1. Typed'
  BY NextTyped DEF JournalInv
<1>2. /\ \A id \in Numbered(batch) : id >= nextTrade /\ id < nextTrade + Len(batch)
      /\ Len(batch) \in Nat /\ nextTrade \in Nat
      /\ \A id \in Numbered(batch) : id \in Nat
  BY NumberedIds DEF ImportInsert, JournalInv, Typed, TradeIds
<1>3. /\ UNCHANGED <<trade, match, request, backup, quiet>>
      /\ importing' = [id \in Numbered(batch) |-> NewRow(batch[id - nextTrade + 1])]
      /\ Taken(Numbered(batch)) = {}
  BY DEF ImportInsert
<1>4. /\ DOMAIN importing' = Numbered(batch)
      /\ \A id \in Numbered(batch) :
           importing'[id] = NewRow(batch[id - nextTrade + 1])
           /\ importing'[id].ext = batch[id - nextTrade + 1]
  BY <1>3 DEF NewRow
<1>5. ImportsApart'
  <2>1. \A id \in Numbered(batch) : batch[id - nextTrade + 1] \notin Stored
    BY DEF Numbered
  <2>2. \A i, j \in Numbered(batch) :
          batch[i - nextTrade + 1] = batch[j - nextTrade + 1] => i = j
    <3> SUFFICES ASSUME NEW i \in Numbered(batch), NEW j \in Numbered(batch),
                        batch[i - nextTrade + 1] = batch[j - nextTrade + 1]
                 PROVE  i = j
      OBVIOUS
    <3>1. i - nextTrade + 1 \in 1 .. Len(batch) /\ j - nextTrade + 1 \in 1 .. Len(batch)
      BY <1>2
    <3>2. i - nextTrade + 1 = j - nextTrade + 1
      BY <3>1, BatchOfDistinct
    <3> QED
      BY <1>2, <3>2
  <2>3. Stored' = Stored /\ \A id \in Numbered(batch) : id \notin DOMAIN trade
    BY <1>3 DEF Stored, Taken
  <2>4. OneRowPerTrade(importing)'
    BY <1>4, <2>2 DEF OneRowPerTrade
  <2>5. ASSUME NEW id \in DOMAIN importing'
        PROVE  /\ id \notin DOMAIN trade' /\ importing'[id].ext \notin Stored'
               /\ importing'[id] = NewRow(importing'[id].ext)
    BY <1>3, <1>4, <2>1, <2>3, <2>5
  <2>6. \A ext : NewRow(ext)' = NewRow(ext)
    BY DEF NewRow
  <2> QED
    BY <2>4, <2>5, <2>6 DEF ImportsApart
<1> QED
  BY <1>1, <1>3, <1>5 DEF JournalInv, KeysHold, InsertsApart, Inserting, QuietBackup, RequestsFit

LEMMA ImportCommitAgrees ==
  ASSUME JournalInv, [Next]_vars, ImportCommit PROVE JournalInv'
<1>1. Typed'
  BY NextTyped DEF JournalInv
<1>2. UNCHANGED <<match, request, backup>> /\ Watch
  BY DEF ImportCommit
<1>3. /\ DOMAIN trade' = DOMAIN importing \cup DOMAIN trade
      /\ \A id \in DOMAIN importing : trade'[id] = importing[id]
      /\ \A id \in DOMAIN trade \ DOMAIN importing : trade'[id] = trade[id]
      /\ DOMAIN importing' = {}
  BY ImportedRows
<1>4. OneRowPerTrade(trade')
  <2>1. \A id \in DOMAIN trade : trade[id].ext \in Stored /\ id \notin DOMAIN importing
    BY DEF JournalInv, ImportsApart, Stored
  <2>2. \A id \in DOMAIN importing : importing[id].ext \notin Stored
    BY DEF JournalInv, ImportsApart
  <2> QED
    BY <1>3, <2>1, <2>2 DEF JournalInv, ImportsApart, OneRowPerTrade
<1>5. KeysHold'
  BY <1>2, <1>3 DEF JournalInv, KeysHold
<1>6. ImportsApart' /\ InsertsApart'
  BY <1>2, <1>3 DEF JournalInv, ImportsApart, OneRowPerTrade, InsertsApart, Inserting
<1>7. QuietBackup'
  BY <1>2, WatchQuiet DEF JournalInv
<1> QED
  BY <1>1, <1>2, <1>4, <1>5, <1>6, <1>7 DEF JournalInv, RequestsFit

(* Steps that leave the tables and what is under way alone. *)
LEMMA NothingMoves ==
  ASSUME JournalInv, [Next]_vars, UNCHANGED <<trade, match, importing, request, backup, quiet>>
  PROVE  JournalInv'
<1>1. Typed'
  BY NextTyped DEF JournalInv
<1>2. Stored' = Stored /\ \A ext : NewRow(ext)' = NewRow(ext)
  BY DEF Stored, NewRow
<1>3. ImportsApart' /\ InsertsApart'
  BY <1>2 DEF JournalInv, ImportsApart, OneRowPerTrade, InsertsApart, Inserting
<1> QED
  BY <1>1, <1>3 DEF JournalInv, KeysHold, OneRowPerTrade, QuietBackup, RequestsFit

(* Handlers that keep the ids and the trades of the rows. *)
LEMMA RowsAgree ==
  ASSUME JournalInv, [Next]_vars, UNCHANGED <<importing, backup>>, Watch,
         DOMAIN trade' = DOMAIN trade, \A id \in DOMAIN trade : trade'[id].ext = trade[id].ext,
         \A k \in DOMAIN match' : match'[k].buy \in DOMAIN trade,
         \A c \in Clients : request'[c] = request[c] \/ request'[c] = Idle,
         \A c \in Inserting' : request'[c].id \notin DOMAIN match'
  PROVE  JournalInv'
<1>1. Typed'
  BY NextTyped DEF JournalInv
<1>2. QuietBackup'
  BY WatchQuiet DEF JournalInv
<1>3. RequestsFit'
  BY DEF JournalInv, RequestsFit, Idle
<1>4. KeysHold'
  BY DEF KeysHold
<1>5. OneRowPerTrade(trade')
  BY DEF JournalInv, OneRowPerTrade
<1>6. ImportsApart'
  <2>1. Stored' = Stored
    BY DEF Stored
  <2> QED
    BY <2>1 DEF JournalInv, ImportsApart, OneRowPerTrade, NewRow
<1>7. InsertsApart'
  <2>1. \A c \in Inserting' : c \in Inserting /\ request'[c] = request[c]
    BY DEF Inserting, Idle
  <2> QED
    BY <2>1 DEF JournalInv, InsertsApart
<1> QED
  BY <1>1, <1>2, <1>3, <1>4, <1>5, <1>6, <1>7 DEF JournalInv

LEMMA UpdateAgrees ==
  ASSUME JournalInv, [Next]_vars, NEW id \in DOMAIN trade, NEW flags, NEW rems,
         UpdateTrade(id, flags, rems)
  PROVE  JournalInv'
<1>1. /\ DOMAIN trade' = DOMAIN trade
      /\ UNCHANGED <<match, importing, request, backup>> /\ Watch
      /\ \A i \in DOMAIN trade : i # id => trade'[i] = trade[i]
  BY DEF UpdateTrade
<1>2. trade'[id].ext = trade[id].ext
  <2>1. trade[id] \in TradeRow
    BY DEF JournalInv, Typed, IsTable
  <2> QED
    BY <2>1 DEF UpdateTrade, TradeRow
<1>3. \A k \in DOMAIN match : match[k].buy \in DOMAIN trade
  BY DEF JournalInv, KeysHold
<1>4. \A c \in Inserting' : request'[c].id \notin DOMAIN match'
  BY <1>1 DEF JournalInv, InsertsApart, Inserting
<1> QED
  BY <1>1, <1>2, <1>3, <1>4, RowsAgree

LEMMA DeleteTradeAgrees ==
  ASSUME JournalInv, [Next]_vars, NEW id \in DOMAIN trade, DeleteTrade(id) PROVE JournalInv'
<1>1. /\ DOMAIN trade' = DOMAIN trade \ {id}
      /\ \A i \in DOMAIN trade' : trade'[i] = trade[i]
      /\ DOMAIN match' = {k \in DOMAIN match : match[k].buy # id}
      /\ \A k \in DOMAIN match' : match'[k] = match[k]
      /\ UNCHANGED <<importing, request, backup>> /\ Watch
      /\ \A c \in Inserting : request[c].buy # id
  BY DEF DeleteTrade, Restrict
<1>2. Typed'
  BY NextTyped DEF JournalInv
<1>3. QuietBackup'
  BY <1>1, WatchQuiet DEF JournalInv
<1>4. ImportsApart'
  <2>1. Stored' \subseteq Stored
    BY <1>1 DEF Stored
  <2> QED
    BY <1>1, <2>1 DEF JournalInv, ImportsApart, OneRowPerTrade, NewRow
<1>5. InsertsApart'
  BY <1>1 DEF JournalInv, InsertsApart, Inserting
<1> QED
  BY <1>1, <1>2, <1>3, <1>4, <1>5 DEF JournalInv, OneRowPerTrade, KeysHold, RequestsFit

(* A request that is not one to insert joins or replaces another. *)
LEMMA RequestAgrees ==
  ASSUME JournalInv, [Next]_vars, UNCHANGED <<trade, match, importing, backup, quiet>>,
         Inserting' \subseteq Inserting, \A c \in Inserting' : request'[c] = request[c],
         RequestsFit'
  PROVE  JournalInv'
<1>1. Typed'
  BY NextTyped DEF JournalInv
<1>2. ImportsApart'
  <2>1. Stored' = Stored
    BY DEF Stored
  <2> QED
    BY <2>1 DEF JournalInv, ImportsApart, OneRowPerTrade, NewRow
<1>3. InsertsApart'
  BY DEF JournalInv, InsertsApart
<1> QED
  BY <1>1, <1>2, <1>3 DEF JournalInv, KeysHold, OneRowPerTrade, QuietBackup

LEMMA CreateReadAgrees ==
  ASSUME JournalInv, [Next]_vars, NEW c \in Clients, NEW buy, NEW sell, NEW amount,
         CreateRead(c, buy, sell, amount)
  PROVE  JournalInv'
<1>1. /\ UNCHANGED <<trade, match, importing, backup, quiet>>
      /\ amount <= trade[buy].rem + Tol
      /\ request' = [request EXCEPT ![c] = [kind |-> "create", buy |-> buy, sell |-> sell,
                                            amount |-> amount, rem |-> trade[buy].rem]]
  BY DEF CreateRead
<1>2. RequestsFit'
  BY <1>1 DEF JournalInv, Typed, RequestsFit
<1>3. \A d \in Inserting' : d \in Inserting /\ request'[d] = request[d]
  BY <1>1 DEF JournalInv, Typed, Inserting
<1> QED
  BY <1>1, <1>2, <1>3, RequestAgrees

LEMMA DeleteReadAgrees ==
  ASSUME JournalInv, [Next]_vars, NEW c \in Clients, NEW k, DeleteRead(c, k) PROVE JournalInv'
<1>1. /\ UNCHANGED <<trade, match, importing, backup, quiet>>
      /\ request' = [request EXCEPT ![c] = [kind |-> "delete", id |-> k, match |-> match[k]]]
  BY DEF DeleteRead
<1>2. RequestsFit'
  BY <1>1 DEF JournalInv, Typed, RequestsFit
<1>3. \A d \in Inserting' : d \in Inserting /\ request'[d] = request[d]
  BY <1>1 DEF JournalInv, Typed, Inserting
<1> QED
  BY <1>1, <1>2, <1>3, RequestAgrees

(* The insert of a match: its number is its own, its buy is there.          *)
LEMMA CreateInsertAgrees ==
  ASSUME JournalInv, [Next]_vars, NEW c \in Clients, CreateInsert(c) PROVE JournalInv'
<1> DEFINE r == request[c]
           refused == r.buy \notin DOMAIN trade \/ MatchIdTaken(nextMatch)
           mine == [kind |-> "insert", buy |-> r.buy, sell |-> r.sell,
                    amount |-> r.amount, rem |-> r.rem, id |-> nextMatch]
<1>1. /\ UNCHANGED <<trade, match, importing, backup, quiet>>
      /\ r.kind = "create"
      /\ request' = [request EXCEPT ![c] = IF refused THEN Idle ELSE mine]
  BY DEF CreateInsert
<1>2. request \in [Clients -> Request]
  BY DEF JournalInv, Typed
<1>3. r.amount <= r.rem + Tol
  BY <1>1 DEF JournalInv, RequestsFit
<1>4. mine.kind = "insert" /\ mine.buy = r.buy /\ mine.id = nextMatch
      /\ mine.amount = r.amount /\ mine.rem = r.rem
  OBVIOUS
<1>5. CASE refused
  <2>1. request'[c] = Idle /\ \A d \in Clients : d # c => request'[d] = request[d]
    BY <1>1, <1>2, <1>5
  <2>2. RequestsFit'
    BY <2>1 DEF JournalInv, RequestsFit, Idle
  <2>3. \A d \in Inserting' : d \in Inserting /\ request'[d] = request[d]
    BY <2>1 DEF Inserting, Idle
  <2> QED
    BY <1>1, <2>2, <2>3, RequestAgrees
<1>6. CASE ~refused
  <2>1. request'[c] = mine /\ \A d \in Clients : d # c => request'[d] = request[d]
    BY <1>1, <1>2, <1>6
  <2>2. /\ r.buy \in DOMAIN trade /\ nextMatch \notin DOMAIN match
        /\ \A d \in Inserting : request[d].id # nextMatch
    BY <1>6 DEF MatchIdTaken
  <2> HIDE DEF mine, refused, r
  <2>3. RequestsFit'
    BY <1>3, <1>4, <2>1 DEF JournalInv, RequestsFit
  <2>4. \A d \in Inserting' : d = c \/ (d \in Inserting /\ request'[d] = request[d])
    BY <2>1 DEF Inserting
  <2>5. InsertsApart'
    BY <1>1, <1>4, <2>1, <2>2, <2>4 DEF JournalInv, InsertsApart
  <2>6. ImportsApart'
    <3>1. Stored' = Stored
      BY <1>1 DEF Stored
    <3> QED
      BY <1>1, <3>1 DEF JournalInv, ImportsApart, OneRowPerTrade, NewRow
  <2>7. Typed'
    BY NextTyped DEF JournalInv
  <2> QED
    BY <1>1, <2>3, <2>5, <2>6, <2>7 DEF JournalInv, KeysHold, OneRowPerTrade, QuietBackup
<1> QED
  BY <1>5, <1>6

(* What a commit of create_match does. *)
LEMMA CreateCommitFacts ==
  ASSUME JournalInv, NEW c \in Clients, CreateCommit(c)
  PROVE  LET r == request[c] IN
         /\ r.amount \in Int /\ r.rem \in Int /\ r.amount <= r.rem + Tol
         /\ r.id \notin DOMAIN match /\ DOMAIN match' = DOMAIN match \cup {r.id}
         /\ \A k \in DOMAIN match : match'[k] = match[k]
         /\ match'[r.id].buy = r.buy /\ match'[r.id].amount = r.amount
         /\ r.buy \in DOMAIN trade /\ DOMAIN trade' = DOMAIN trade
         /\ \A id \in DOMAIN trade : trade'[id] = Booked(r, id, trade[id])
         /\ request' = [request EXCEPT ![c] = Idle] /\ UNCHANGED <<importing, backup>> /\ Watch
<1> DEFINE r == request[c]
<1>1. r.kind = "insert"
  BY DEF CreateCommit
<1>2. r.amount \in Int /\ r.rem \in Int
  BY <1>1, RequestKinds, JournalAssumption DEF JournalInv
<1>3. r.amount <= r.rem + Tol
  BY <1>1 DEF JournalInv, RequestsFit
<1>4. r.id \notin DOMAIN match /\ r.buy \in DOMAIN trade
  BY <1>1 DEF JournalInv, InsertsApart, Inserting
<1>5. /\ match' = [k \in DOMAIN match \cup {r.id} |->
             IF k # r.id THEN match[k]
             ELSE [buy |-> r.buy, sell |-> r.sell, amount |-> r.amount]]
      /\ trade' = [id \in DOMAIN trade |-> Booked(r, id, trade[id])]
      /\ request' = [request EXCEPT ![c] = Idle] /\ UNCHANGED <<importing, backup>> /\ Watch
  BY CreateBooks
<1> HIDE DEF r
<1>6. \A k \in DOMAIN match : match'[k] = match[k]
  BY <1>4, <1>5
<1>7. match'[r.id].buy = r.buy /\ match'[r.id].amount = r.amount
  BY <1>5
<1> QED
  BY <1>2, <1>3, <1>4, <1>5, <1>6, <1>7 DEF r

LEMMA ConsumeKeeps ==
  ASSUME NEW row \in TradeRow, NEW r, r.amount \in Int, r.rem \in Int, NEW stale \in BOOLEAN
  PROVE  LET after == Consume(row, r, stale) IN
         /\ after.ext = row.ext /\ after.rewritten = row.rewritten
         /\ after.raced = (row.raced \/ stale) /\ after.creates = row.creates + 1
         /\ after.rem = IF r.amount < r.rem THEN r.rem - r.amount ELSE 0
BY DEF Consume, TradeRow

LEMMA FlagKeeps ==
  ASSUME NEW row \in TradeRow
  PROVE  LET after == FlagAsSold(row) IN
         /\ after.ext = row.ext /\ after.rewritten = row.rewritten /\ after.raced = row.raced
         /\ after.creates = row.creates /\ after.rem = row.rem
BY DEF FlagAsSold, TradeRow

(* What the commit of create_match leaves of a row. *)
LEMMA BookedKeeps ==
  ASSUME NEW row \in TradeRow, NEW id, NEW r, r.amount \in Int, r.rem \in Int
  PROVE  LET after == Booked(r, id, row) IN
         /\ after.ext = row.ext /\ after.rewritten = row.rewritten
         /\ id # r.buy => /\ after.raced = row.raced /\ after.creates = row.creates
                          /\ after.rem = row.rem
         /\ id = r.buy => /\ after.raced = (row.raced \/ row.rem # r.rem)
                          /\ after.creates = row.creates + 1
                          /\ after.rem = IF r.amount < r.rem THEN r.rem - r.amount ELSE 0
<1> DEFINE stale == row.rem # r.rem
           bought == IF id = r.buy THEN Consume(row, r, stale) ELSE row
<1>1. stale \in BOOLEAN
  OBVIOUS
<1> HIDE DEF stale
<1>2. bought \in TradeRow
  BY <1>1, ConsumeTyped
<1>3. /\ bought.ext = row.ext /\ bought.rewritten = row.rewritten
      /\ id # r.buy => /\ bought.raced = row.raced /\ bought.creates = row.creates
                       /\ bought.rem = row.rem
      /\ id = r.buy => /\ bought.raced = (row.raced \/ stale)
                       /\ bought.creates = row.creates + 1
                       /\ bought.rem = IF r.amount < r.rem THEN r.rem - r.amount ELSE 0
  BY <1>1, ConsumeKeeps
<1>4. Booked(r, id, row) = IF id = r.sell THEN FlagAsSold(bought) ELSE bought
  BY DEF Booked, stale
<1> HIDE DEF bought
<1> DEFINE after == Booked(r, id, row)
<1>5. /\ after.ext = bought.ext /\ after.rewritten = bought.rewritten
      /\ after.raced = bought.raced /\ after.creates = bought.creates
      /\ after.rem = bought.rem
  BY <1>2, <1>4, FlagKeeps
<1> HIDE DEF after
<1>6. /\ after.ext = row.ext /\ after.rewritten = row.rewritten
      /\ id # r.buy => /\ after.raced = row.raced /\ after.creates = row.creates
                       /\ after.rem = row.rem
      /\ id = r.buy => /\ after.raced = (row.raced \/ stale)
                       /\ after.creates = row.creates + 1
                       /\ after.rem = IF r.amount < r.rem THEN r.rem - r.amount ELSE 0
  BY <1>3, <1>5
<1> QED
  BY <1>6 DEF after, stale

LEMMA CreateCommitAgrees ==
  ASSUME JournalInv, [Next]_vars, NEW c \in Clients, CreateCommit(c) PROVE JournalInv'
<1>1. /\ request \in [Clients -> Request] /\ \A k \in DOMAIN match : match[k].buy \in DOMAIN trade
      /\ \A id \in DOMAIN trade : trade[id] \in TradeRow
  BY DEF JournalInv, Typed, IsTable, KeysHold
<1> DEFINE r == request[c]
<1>2. /\ r.amount \in Int /\ r.rem \in Int
      /\ r.id \notin DOMAIN match /\ DOMAIN match' = DOMAIN match \cup {r.id}
      /\ \A k \in DOMAIN match : match'[k] = match[k]
      /\ match'[r.id].buy = r.buy
      /\ r.buy \in DOMAIN trade /\ DOMAIN trade' = DOMAIN trade
      /\ \A id \in DOMAIN trade : trade'[id] = Booked(r, id, trade[id])
      /\ request' = [request EXCEPT ![c] = Idle] /\ UNCHANGED <<importing, backup>> /\ Watch
  BY CreateCommitFacts
<1>3. r.kind = "insert"
  BY DEF CreateCommit
<1>4. \A d \in Clients : d # c => request'[d] = request[d]
  BY <1>1, <1>2
<1>5. request'[c] = Idle
  BY <1>1, <1>2
<1>6. \A d \in Inserting' : request'[d].id \notin DOMAIN match'
  <2>1. \A d \in Inserting' : d \in Inserting /\ d # c /\ request'[d] = request[d]
    BY <1>4, <1>5 DEF Inserting, Idle
  <2>2. \A d \in Inserting : d # c => request[d].id # r.id /\ request[d].id \notin DOMAIN match
    BY <1>3 DEF JournalInv, InsertsApart, Inserting
  <2> HIDE DEF r
  <2> QED
    BY <1>2, <2>1, <2>2
<1> HIDE DEF r
<1>7. \A id \in DOMAIN trade : trade'[id].ext = trade[id].ext
  BY <1>1, <1>2, BookedKeeps
<1>8. \A k \in DOMAIN match' : match'[k].buy \in DOMAIN trade
  BY <1>1, <1>2
<1>9. \A d \in Clients : request'[d] = request[d] \/ request'[d] = Idle
  BY <1>4, <1>5
<1> QED
  BY <1>2, <1>6, <1>7, <1>8, <1>9, RowsAgree

(* What a commit of delete_match does. *)
LEMMA DeleteCommitFacts ==
  ASSUME JournalInv, NEW c \in Clients, DeleteCommit(c)
  PROVE  LET r == request[c]
             stale == r.id \notin DOMAIN match \/ match[r.id] # r.match
         IN
         /\ r.match \in MatchRow
         /\ DOMAIN trade' = DOMAIN trade
         /\ \A id \in DOMAIN trade :
              /\ trade'[id].ext = trade[id].ext /\ trade'[id].creates = trade[id].creates
              /\ trade'[id].rewritten = trade[id].rewritten
              /\ trade[id].raced => trade'[id].raced
              /\ trade'[id].rem =
                   trade[id].rem + IF id = r.match.buy THEN r.match.amount ELSE 0
              /\ stale /\ (id = r.match.buy \/ (r.id \in DOMAIN match /\ id = match[r.id].buy))
                   => trade'[id].raced
         /\ DOMAIN match' = DOMAIN match \ {r.id}
         /\ \A k \in DOMAIN match' : match'[k] = match[k]
         /\ request' = [request EXCEPT ![c] = Idle] /\ UNCHANGED <<importing, backup>> /\ Watch
<1> DEFINE r == request[c]
           stale == r.id \notin DOMAIN match \/ match[r.id] # r.match
           losers == IF stale /\ r.id \in DOMAIN match THEN {match[r.id].buy} ELSE {}
           new(i) ==
             IF i = r.match.buy THEN GiveBack(trade[i], r.match, stale)
             ELSE [trade[i] EXCEPT !.matched = @ /\ i # r.match.sell,
                                   !.raced = @ \/ i \in losers]
<1>1. r.match \in MatchRow
  BY RequestKinds DEF DeleteCommit, JournalInv
<1>2. /\ trade' = [i \in DOMAIN trade |-> new(i)]
      /\ match' = Restrict(match, DOMAIN match \ {r.id})
      /\ request' = [request EXCEPT ![c] = Idle] /\ UNCHANGED <<importing, backup>> /\ Watch
  BY DEF DeleteCommit
<1>3. stale \in BOOLEAN
  OBVIOUS
<1>4. stale /\ r.id \in DOMAIN match => match[r.id].buy \in losers
  OBVIOUS
<1> HIDE DEF stale, losers, r, new
<1>5. ASSUME NEW id \in DOMAIN trade
      PROVE  /\ trade'[id].ext = trade[id].ext /\ trade'[id].creates = trade[id].creates
             /\ trade'[id].rewritten = trade[id].rewritten
             /\ trade[id].raced => trade'[id].raced
             /\ trade'[id].rem =
                  trade[id].rem + IF id = r.match.buy THEN r.match.amount ELSE 0
             /\ stale /\ (id = r.match.buy \/ (r.id \in DOMAIN match /\ id = match[r.id].buy))
                  => trade'[id].raced
  <2>1. trade[id] \in TradeRow /\ trade'[id] = new(id)
    BY <1>2 DEF JournalInv, Typed, IsTable
  <2>2. CASE id = r.match.buy
    <3>1. trade'[id] = GiveBack(trade[id], r.match, stale)
      BY <2>1, <2>2 DEF new
    <3> QED
      BY <1>3, <2>1, <2>2, <3>1 DEF GiveBack, TradeRow
  <2>3. CASE id # r.match.buy
    <3>1. trade'[id] = [trade[id] EXCEPT !.matched = @ /\ id # r.match.sell,
                                         !.raced = @ \/ id \in losers]
      BY <2>1, <2>3 DEF new
    <3>2. /\ trade'[id].ext = trade[id].ext /\ trade'[id].creates = trade[id].creates
          /\ trade'[id].rewritten = trade[id].rewritten /\ trade'[id].rem = trade[id].rem
          /\ trade'[id].raced = (trade[id].raced \/ id \in losers) /\ trade[id].rem \in Int
      BY <2>1, <3>1 DEF TradeRow
    <3>3. trade'[id].rem = trade[id].rem + IF id = r.match.buy THEN r.match.amount ELSE 0
      <4>1. (IF id = r.match.buy THEN r.match.amount ELSE 0) = 0
        BY <2>3
      <4> QED
        BY <3>2, <4>1
    <3>4. stale /\ (id = r.match.buy \/ (r.id \in DOMAIN match /\ id = match[r.id].buy))
            => trade'[id].raced
      BY <1>4, <2>3, <3>2
    <3> QED
      BY <3>2, <3>3, <3>4
  <2> QED
    BY <2>2, <2>3
<1>6. /\ DOMAIN trade' = DOMAIN trade /\ DOMAIN match' = DOMAIN match \ {r.id}
      /\ \A k \in DOMAIN match' : match'[k] = match[k]
  BY <1>2 DEF Restrict
<1> QED
  BY <1>1, <1>2, <1>5, <1>6 DEF r, stale

LEMMA DeleteCommitAgrees ==
  ASSUME JournalInv, [Next]_vars, NEW c \in Clients, DeleteCommit(c) PROVE JournalInv'
<1>1. /\ DOMAIN trade' = DOMAIN trade
      /\ \A id \in DOMAIN trade : trade'[id].ext = trade[id].ext
      /\ \A k \in DOMAIN match' : k \in DOMAIN match /\ match'[k] = match[k]
      /\ request' = [request EXCEPT ![c] = Idle] /\ UNCHANGED <<importing, backup>> /\ Watch
  BY DeleteCommitFacts
<1>2. \A d \in Clients : request'[d] = request[d] \/ request'[d] = Idle
  BY <1>1 DEF JournalInv, Typed
<1>3. \A k \in DOMAIN match' : match'[k].buy \in DOMAIN trade
  BY <1>1 DEF JournalInv, KeysHold
<1>4. \A d \in Inserting' : request'[d].id \notin DOMAIN match'
  <2>1. \A d \in Inserting' : d \in Inserting /\ request'[d] = request[d]
    BY <1>2 DEF Inserting, Idle
  <2> QED
    BY <1>1, <2>1 DEF JournalInv, InsertsApart
<1> QED
  BY <1>1, <1>2, <1>3, <1>4, RowsAgree

LEMMA BackupAgrees ==
  ASSUME JournalInv, [Next]_vars, ExportTrades \/ ExportMatches PROVE JournalInv'
<1>1. Typed'
  BY NextTyped DEF JournalInv
<1>2. UNCHANGED <<trade, match, importing, request>>
  BY DEF ExportTrades, ExportMatches
<1>3. ImportsApart' /\ InsertsApart'
  <2>1. Stored' = Stored
    BY <1>2 DEF Stored
  <2> QED
    BY <1>2, <2>1 DEF JournalInv, ImportsApart, OneRowPerTrade, NewRow, InsertsApart, Inserting
<1>4. CASE ExportTrades
  <2>1. backup'.trades = trade /\ backup'.stage = "half"
    BY <1>4 DEF ExportTrades, JournalInv, Typed
  <2> QED
    BY <1>1, <1>2, <1>3, <2>1 DEF JournalInv, KeysHold, QuietBackup, RequestsFit
<1>5. CASE ExportMatches
  <2>1. quiet' = quiet /\ backup'.trades = backup.trades /\ backup'.matches = match
    BY <1>5 DEF ExportMatches, JournalInv, Typed
  <2> QED
    BY <1>1, <1>2, <1>3, <2>1 DEF JournalInv, KeysHold, QuietBackup, RequestsFit
<1> QED
  BY <1>4, <1>5

LEMMA FreshAgrees ==
  ASSUME JournalInv, [Next]_vars, FreshServer PROVE JournalInv'
<1>1. Typed'
  BY NextTyped DEF JournalInv
<1>2. /\ DOMAIN trade' = {} /\ DOMAIN match' = {} /\ DOMAIN importing' = {}
      /\ UNCHANGED backup /\ Watch /\ \A c \in Clients : request'[c] = Idle
  BY DEF FreshServer
<1>3. QuietBackup'
  BY <1>2, WatchQuiet DEF JournalInv
<1>4. Inserting' = {}
  BY <1>2 DEF Inserting, Idle
<1>5. ImportsApart' /\ InsertsApart'
  BY <1>2, <1>4 DEF ImportsApart, OneRowPerTrade, InsertsApart
<1> QED
  BY <1>1, <1>2, <1>3, <1>5 DEF JournalInv, OneRowPerTrade, KeysHold, RequestsFit, Idle

LEMMA RestoreAgrees ==
  ASSUME JournalInv, [Next]_vars, Restore PROVE JournalInv'
<1>1. Typed'
  BY NextTyped DEF JournalInv
<1>2. /\ UNCHANGED <<importing, request, backup>> /\ Watch
      /\ trade' = RestoredTrades /\ match' = RestoredMatches
      /\ Taken(NewIds) = {} /\ MayRestore /\ RestoreMayGoOn
      /\ nextTrade + Cardinality(DOMAIN backup.trades) - 1 <= MaxTradeId
  BY DEF Restore, Restorable, MayRestore
<1>3. QuietBackup'
  BY <1>2, WatchQuiet DEF JournalInv
<1>4. OneRowPerTrade(trade')
  BY <1>2, RestoredOnce DEF JournalInv
<1>5. DOMAIN trade \subseteq DOMAIN RestoredTrades
  BY DEF RestoredTrades
<1>6. \A k \in DOMAIN match : match[k] \in MatchRow /\ match[k].buy \in DOMAIN trade
  BY DEF JournalInv, KeysHold, Typed, IsTable
<1>7. KeysHold'
  <2>1. \A k \in DOMAIN RestoredMatches :
          \/ k \in DOMAIN match /\ RestoredMatches[k].buy = match[k].buy
          \/ /\ k \in DOMAIN backup.matches \ DOMAIN match
             /\ RestoredMatches[k] = backup.matches[k]
    BY <1>6 DEF RestoredMatches, MatchRow
  <2>2. \A k \in DOMAIN backup.matches \ DOMAIN match :
          backup.matches[k].buy \in DOMAIN RestoredTrades
    BY DEF Restore, Restorable
  <2> QED
    BY <1>2, <1>5, <1>6, <2>1, <2>2 DEF KeysHold
<1>8. ImportsApart'
  <2>1. ASSUME NEW id \in DOMAIN importing, id \in DOMAIN RestoredTrades PROVE FALSE
    <3>1. id \notin DOMAIN trade
      BY DEF JournalInv, ImportsApart
    <3>2. PICK i \in DOMAIN backup.trades :
            id = RestoredId(i) /\ backup.trades[i].ext \notin Stored
      BY <1>2, <2>1, <3>1, RestoredExt DEF JournalInv
    <3>3. id \in NewIds
      BY <1>2, <3>2, RestoredNew
    <3> QED
      BY <1>2, <3>3 DEF RestoreMayGoOn
  <2>2. ASSUME NEW id \in DOMAIN importing PROVE importing[id].ext \notin Stored'
    <3>1. importing[id].ext \notin Stored
      BY DEF JournalInv, ImportsApart
    <3>2. \A i \in DOMAIN backup.trades : backup.trades[i].ext # importing[id].ext
      BY <1>2 DEF RestoreMayGoOn
    <3>3. \A j \in DOMAIN trade : trade[j].ext \in Stored
      BY DEF Stored
    <3>4. \A j \in DOMAIN RestoredTrades : RestoredTrades[j].ext # importing[id].ext
      BY <1>2, <3>1, <3>2, <3>3, RestoredExt DEF JournalInv
    <3> QED
      BY <1>2, <3>4 DEF Stored
  <2> QED
    BY <1>2, <2>1, <2>2 DEF JournalInv, ImportsApart, OneRowPerTrade, NewRow
<1>9. InsertsApart'
  <2>1. Inserting' = Inserting
    BY <1>2 DEF Inserting
  <2>2. \A c \in Inserting : request[c].id \notin DOMAIN RestoredMatches
    BY <1>2 DEF RestoreMayGoOn, RestoredMatches, JournalInv, InsertsApart
  <2> QED
    BY <1>2, <1>5, <2>1, <2>2 DEF JournalInv, InsertsApart
<1> QED
  BY <1>1, <1>2, <1>3, <1>4, <1>7, <1>8, <1>9 DEF JournalInv, RequestsFit

LEMMA NextAgrees == ASSUME JournalInv, [Next]_vars PROVE JournalInv'
<1>1. CASE UNCHANGED vars
  BY <1>1, NothingMoves DEF vars
<1>2. ASSUME NEW batch \in Batches, ImportFails(batch) PROVE JournalInv'
  BY <1>2, NothingMoves DEF ImportFails
<1>3. CASE RestoreFails
  BY <1>3, NothingMoves DEF RestoreFails
<1>4. CASE Next
  BY <1>2, <1>3, <1>4, ImportInsertAgrees, ImportCommitAgrees, UpdateAgrees, DeleteTradeAgrees,
     CreateReadAgrees, CreateInsertAgrees, CreateCommitAgrees, DeleteReadAgrees,
     DeleteCommitAgrees, BackupAgrees, FreshAgrees, RestoreAgrees DEF Next
<1> QED
  BY <1>1, <1>4

LEMMA InitAgrees == Init => JournalInv
<1> SUFFICES ASSUME Init PROVE JournalInv
  OBVIOUS
<1>1. DOMAIN trade = {} /\ DOMAIN match = {} /\ DOMAIN importing = {} /\ quiet = FALSE
      /\ DOMAIN backup.trades = {} /\ \A c \in Clients : request[c].kind = "idle"
  BY DEF Init, NoBackup, Idle
<1>2. Inserting = {}
  BY <1>1 DEF Inserting
<1> QED
  BY <1>1, <1>2, InitTyped DEF JournalInv, OneRowPerTrade, KeysHold, ImportsApart, InsertsApart,
     QuietBackup, RequestsFit

(* The journal stays well formed, and every match in it has its buy         *)
(* (01_init.sql:166), through cascades, restores and matches that are being *)
(* inserted while trades are deleted.                                       *)
THEOREM JournalTyped == Spec => []TypeOK
<1>1. JournalInv => TypeOK
  BY DEF JournalInv, TypeOK
<1> QED
  BY <1>1, InitAgrees, NextAgrees, PTL DEF Spec

(* Restoring what was exported, while no row has changed since the export   *)
(* began, neither fails nor changes a row (backup.py:120-219), because every *)
(* trade of the backup finds its own row again.                             *)
THEOREM RestoreOfCurrentStateIsNoChange == Spec => QuietRestoreIsIdentity
<1>1. JournalInv /\ quiet => ~RestoreFails /\ (Restore => UNCHANGED <<trade, match>>)
  <2> SUFFICES ASSUME JournalInv, quiet
               PROVE  ~RestoreFails /\ (Restore => UNCHANGED <<trade, match>>)
    OBVIOUS
  <2>1. backup.stage = "done" =>
          Restorable /\ RestoredTrades = trade /\ RestoredMatches = match
    BY QuietRestored
  <2> QED
    BY <2>1 DEF Restore, RestoreFails, MayRestore
<1> QED
  BY <1>1, InitAgrees, NextAgrees, PTL DEF Spec, QuietRestoreIsIdentity

-----------------------------------------------------------------------------
(* What the matches of a table took from a buy, as a sum of the amounts of  *)
(* the matches that name it.                                                *)
MatchedIn(m, id) ==
  MapThenSumSet(LAMBDA k : m[k].amount, {k \in DOMAIN m : m[k].buy = id})
OfBuy(m, id) == {k \in DOMAIN m : m[k].buy = id}
Amounts(m) == [k \in DOMAIN m |-> m[k].amount]
IsMatches(m) == IsTable(m, 1 .. MaxMatchId, MatchRow)

LEMMA MatchesTyped ==
  ASSUME NEW m, IsMatches(m), NEW id
  PROVE  /\ IsFiniteSet(OfBuy(m, id)) /\ OfBuy(m, id) \subseteq DOMAIN m
         /\ IntOn(Amounts(m), DOMAIN m) /\ \A k \in DOMAIN m : m[k].amount \in Int
<1>1. DOMAIN m \subseteq 1 .. MaxMatchId /\ \A k \in DOMAIN m : m[k] \in MatchRow
  BY DEF IsMatches, IsTable
<1>2. OfBuy(m, id) \subseteq 1 .. MaxMatchId
  BY <1>1 DEF OfBuy
<1>3. IsFiniteSet(1 .. MaxMatchId)
  BY JournalAssumption, FS_Interval
<1>4. IsFiniteSet(OfBuy(m, id))
  BY <1>2, <1>3, FS_Subset
<1>5. \A k \in DOMAIN m : m[k].amount \in Int
  BY <1>1, JournalAssumption DEF MatchRow
<1> QED
  BY <1>4, <1>5 DEF OfBuy, Amounts, IntOn

LEMMA MatchedIsSum ==
  ASSUME NEW m, IsMatches(m), NEW id
  PROVE  MatchedIn(m, id) = SumFunctionOnSet(Amounts(m), OfBuy(m, id))
<1> DEFINE S == OfBuy(m, id)
           f == Amounts(m)
           G(jt) == jt = [T \in SUBSET S |->
                            IF T = {} THEN 0
                            ELSE m[CHOOSE x \in T : TRUE].amount
                                   + jt[T \ {CHOOSE x \in T : TRUE}]]
           it == CHOOSE jt : G(jt)
<1>1. IsFiniteSet(S) /\ IntOn(f, S) /\ S \subseteq DOMAIN m
  BY MatchesTyped DEF IntOn
<1>2. \A T \in SUBSET S : T # {} => f[Some(T)] = m[CHOOSE x \in T : TRUE].amount
  <2> SUFFICES ASSUME NEW T \in SUBSET S, T # {}
               PROVE  f[Some(T)] = m[CHOOSE x \in T : TRUE].amount
    OBVIOUS
  <2>1. Some(T) \in T /\ Some(T) = CHOOSE x \in T : TRUE
    BY DEF Some
  <2>2. Some(T) \in DOMAIN m
    BY <1>1, <2>1
  <2> QED
    BY <2>1, <2>2 DEF Amounts
<1>3. PICK jt : IsSum(jt, f, S)
  BY <1>1, SumExists
<1>4. ASSUME NEW kt PROVE IsSum(kt, f, S) <=> G(kt)
  <2> DEFINE a == [T \in SUBSET S |-> IF T = {} THEN 0 ELSE f[Some(T)] + kt[T \ {Some(T)}]]
             b == [T \in SUBSET S |->
                            IF T = {} THEN 0
                            ELSE m[CHOOSE x \in T : TRUE].amount
                                   + kt[T \ {CHOOSE x \in T : TRUE}]]
  <2>1. a = b
    <3> HIDE DEF S, f
    <3> QED
      BY <1>2 DEF Some
  <2>2. IsSum(kt, f, S) <=> kt = a
    BY DEF IsSum
  <2> HIDE DEF a
  <2> QED
    BY <2>1, <2>2
<1>5. G(jt)
  BY <1>3, <1>4
<1>6. G(it)
  BY <1>5
<1>7. IsSum(it, f, S)
  BY <1>4, <1>6
<1>8. MatchedIn(m, id) = it[S]
  BY DEF MatchedIn, MapThenSumSet, MapThenFoldSet, OfBuy
<1> HIDE DEF it, S, f
<1>9. SumFunctionOnSet(f, S) = it[S]
  <2>1. S \in SUBSET S
    OBVIOUS
  <2> QED
    BY <1>1, <1>7, <2>1, SumOverSubset
<1> QED
  BY <1>8, <1>9 DEF S, f

LEMMA MatchedNumber ==
  ASSUME NEW m, IsMatches(m), NEW id PROVE MatchedIn(m, id) \in Int
<1>1. IsFiniteSet(OfBuy(m, id)) /\ IntOn(Amounts(m), OfBuy(m, id))
  BY MatchesTyped DEF IntOn
<1> QED
  BY <1>1, MatchedIsSum, SumWithout

(* The sum depends on the matches of the buy only, *)
LEMMA MatchedSame ==
  ASSUME NEW m, IsMatches(m), NEW n, IsMatches(n), NEW id, OfBuy(m, id) = OfBuy(n, id),
         \A k \in OfBuy(m, id) : n[k].amount = m[k].amount
  PROVE  MatchedIn(n, id) = MatchedIn(m, id)
<1>1. IsFiniteSet(OfBuy(m, id)) /\ IntOn(Amounts(m), OfBuy(m, id))
  BY MatchesTyped DEF IntOn
<1>2. Agree(Amounts(m), Amounts(n), OfBuy(m, id))
  <2>1. \A k \in OfBuy(m, id) : k \in DOMAIN m /\ k \in DOMAIN n
    BY DEF OfBuy
  <2> QED
    BY <2>1 DEF Agree, Amounts
<1> QED
  BY <1>1, <1>2, MatchedIsSum, SumCongruent

(* a match more adds its amount, *)
LEMMA MatchedMore ==
  ASSUME NEW m, IsMatches(m), NEW n, IsMatches(n), NEW id, NEW k \in DOMAIN n,
         k \notin OfBuy(m, id), OfBuy(n, id) = OfBuy(m, id) \cup {k},
         \A j \in OfBuy(m, id) : n[j].amount = m[j].amount
  PROVE  MatchedIn(n, id) = MatchedIn(m, id) + n[k].amount
<1>1. IsFiniteSet(OfBuy(m, id)) /\ IntOn(Amounts(m), OfBuy(m, id))
  BY MatchesTyped DEF IntOn
<1>2. Agree(Amounts(m), Amounts(n), OfBuy(m, id))
  <2>1. \A j \in OfBuy(m, id) : j \in DOMAIN m /\ j \in DOMAIN n
    BY DEF OfBuy
  <2> QED
    BY <2>1 DEF Agree, Amounts
<1>3. Amounts(n)[k] = n[k].amount /\ n[k].amount \in Int
  <2>1. n[k].amount \in Int
    BY MatchesTyped
  <2> QED
    BY <2>1 DEF Amounts
<1>4. SumFunctionOnSet(Amounts(n), OfBuy(m, id) \cup {k})
        = SumFunctionOnSet(Amounts(m), OfBuy(m, id)) + Amounts(n)[k]
  BY <1>1, <1>2, <1>3, SumExtended
<1> QED
  BY <1>3, <1>4, MatchedIsSum

(* and a buy without matches was not taken from. *)
LEMMA MatchedNone ==
  ASSUME NEW m, IsMatches(m), NEW id, OfBuy(m, id) = {} PROVE MatchedIn(m, id) = 0
BY MatchedIsSum, SumOfNone

(* A row that no race and no client spoiled adds up with what was taken     *)
(* from its buy, but for the tolerance of each match made on it.            *)
AddsUp(row, taken) ==
  ~row.raced /\ ~row.rewritten =>
    Amount <= row.rem + taken /\ row.rem + taken <= Amount + Tol * row.creates

LEMMA ConservedIsAddsUp ==
  /\ Conserved = \A id \in DOMAIN trade :
                   trade[id].ext \in Buys => AddsUp(trade[id], MatchedIn(match, id))
  /\ Conserved' = \A id \in DOMAIN trade' :
                    trade'[id].ext \in Buys => AddsUp(trade'[id], MatchedIn(match', id))
<1>1. \A id : MatchedOn(id) = MatchedIn(match, id)
  BY DEF MatchedOn, MatchedIn
<1>2. \A id : MatchedOn(id)' = MatchedIn(match', id)
  <2> SUFFICES ASSUME NEW id PROVE MatchedOn(id)' = MatchedIn(match', id)
    OBVIOUS
  <2> QED
    BY DEF MatchedOn, MatchedIn, MapThenSumSet, MapThenFoldSet
<1> QED
  BY <1>1, <1>2 DEF Conserved, AddsUp

LEMMA TablesTyped ==
  ASSUME JournalInv, JournalInv'
  PROVE  /\ IsMatches(match) /\ IsMatches(match')
         /\ \A id \in DOMAIN trade : trade[id] \in TradeRow
         /\ \A id \in DOMAIN trade' : trade'[id] \in TradeRow
BY DEF JournalInv, Typed, IsMatches, IsTable

(* A step that leaves the matches of a row alone, and its remainder unless  *)
(* it spoils the row. *)
LEMMA RowStillAddsUp ==
  ASSUME JournalInv, JournalInv', Conserved, NEW id \in DOMAIN trade,
         trade[id].ext \in Buys, id \in DOMAIN trade',
         \/ trade'[id].raced \/ trade'[id].rewritten
         \/ /\ trade'[id].rem = trade[id].rem /\ trade'[id].creates = trade[id].creates
            /\ trade[id].raced => trade'[id].raced
            /\ trade[id].rewritten => trade'[id].rewritten
            /\ OfBuy(match, id) = OfBuy(match', id)
            /\ \A k \in OfBuy(match, id) : match'[k].amount = match[k].amount
  PROVE  AddsUp(trade'[id], MatchedIn(match', id))
<1>1. CASE trade'[id].raced \/ trade'[id].rewritten
  BY <1>1 DEF AddsUp
<1>2. CASE ~trade'[id].raced /\ ~trade'[id].rewritten
  <2>1. MatchedIn(match', id) = MatchedIn(match, id)
    BY <1>2, TablesTyped, MatchedSame
  <2>2. AddsUp(trade[id], MatchedIn(match, id))
    BY ConservedIsAddsUp
  <2> QED
    BY <1>2, <2>1, <2>2 DEF AddsUp
<1> QED
  BY <1>1, <1>2

LEMMA SameMatches ==
  ASSUME match' = match
  PROVE  \A id : /\ OfBuy(match, id) = OfBuy(match', id)
                 /\ \A k \in OfBuy(match, id) : match'[k].amount = match[k].amount
OBVIOUS

LEMMA ImportConserves ==
  ASSUME JournalInv, JournalInv', Conserved, ImportCommit
  PROVE  Conserved'
<1>1. /\ match' = match
      /\ DOMAIN trade' = DOMAIN importing \cup DOMAIN trade
      /\ \A id \in DOMAIN importing : trade'[id] = importing[id]
      /\ \A id \in DOMAIN trade \ DOMAIN importing : trade'[id] = trade[id]
  BY ImportedRows DEF ImportCommit
<1>2. SUFFICES ASSUME NEW id \in DOMAIN trade', trade'[id].ext \in Buys
               PROVE  AddsUp(trade'[id], MatchedIn(match', id))
  BY ConservedIsAddsUp
<1>3. CASE id \in DOMAIN trade
  <2>1. trade'[id] = trade[id]
    BY <1>1, <1>3 DEF JournalInv, ImportsApart
  <2>2. OfBuy(match, id) = OfBuy(match', id)
        /\ \A k \in OfBuy(match, id) : match'[k].amount = match[k].amount
    BY <1>1, SameMatches
  <2> QED
    BY <1>2, <1>3, <2>1, <2>2, RowStillAddsUp
<1>4. CASE id \notin DOMAIN trade
  <2>1. trade'[id] = importing[id] /\ importing[id] = NewRow(importing[id].ext)
    BY <1>1, <1>2, <1>4 DEF JournalInv, ImportsApart
  <2>2. trade'[id].rem = Amount /\ trade'[id].creates = 0
    BY <1>2, <2>1 DEF NewRow
  <2>3. OfBuy(match', id) = {}
    BY <1>1, <1>4 DEF JournalInv, KeysHold, OfBuy
  <2>4. MatchedIn(match', id) = 0
    BY <2>3, TablesTyped, MatchedNone
  <2>5. Amount \in Nat /\ Tol * 0 = 0
    BY JournalAssumption
  <2> QED
    BY <2>2, <2>4, <2>5 DEF AddsUp
<1> QED
  BY <1>3, <1>4

LEMMA UpdateConserves ==
  ASSUME JournalInv, JournalInv', Conserved, NEW id \in DOMAIN trade, NEW flags, NEW rems,
         UpdateTrade(id, flags, rems)
  PROVE  Conserved'
<1>1. match' = match /\ DOMAIN trade' = DOMAIN trade
      /\ \A i \in DOMAIN trade : i # id => trade'[i] = trade[i]
  BY DEF UpdateTrade
<1>2. /\ trade'[id].ext = trade[id].ext /\ trade'[id].creates = trade[id].creates
      /\ trade'[id].raced = trade[id].raced
      /\ trade'[id].rewritten = (trade[id].rewritten \/ rems # {})
      /\ rems = {} => trade'[id].rem = trade[id].rem
  <2>1. trade[id] \in TradeRow
    BY TablesTyped
  <2> QED
    BY <2>1 DEF UpdateTrade, TradeRow
<1>3. SUFFICES ASSUME NEW i \in DOMAIN trade, trade'[i].ext \in Buys
               PROVE  AddsUp(trade'[i], MatchedIn(match', i))
  BY <1>1, ConservedIsAddsUp
<1>4. /\ OfBuy(match, i) = OfBuy(match', i)
      /\ \A k \in OfBuy(match, i) : match'[k].amount = match[k].amount
  BY <1>1, SameMatches
<1>5. CASE i # id
  BY <1>1, <1>3, <1>4, <1>5, RowStillAddsUp
<1>6. CASE i = id
  BY <1>1, <1>2, <1>3, <1>4, <1>6, RowStillAddsUp
<1> QED
  BY <1>5, <1>6

LEMMA DeleteTradeConserves ==
  ASSUME JournalInv, JournalInv', Conserved, NEW id \in DOMAIN trade, DeleteTrade(id)
  PROVE  Conserved'
<1>1. /\ DOMAIN trade' = DOMAIN trade \ {id}
      /\ \A i \in DOMAIN trade' : trade'[i] = trade[i]
      /\ DOMAIN match' = {k \in DOMAIN match : match[k].buy # id}
      /\ \A k \in DOMAIN match' : match'[k] = match[k]
  BY DEF DeleteTrade, Restrict
<1>2. SUFFICES ASSUME NEW i \in DOMAIN trade', trade'[i].ext \in Buys
               PROVE  AddsUp(trade'[i], MatchedIn(match', i))
  BY ConservedIsAddsUp
<1>3. i \in DOMAIN trade /\ i # id /\ trade'[i] = trade[i]
  BY <1>1
<1>4. /\ OfBuy(match, i) = OfBuy(match', i)
      /\ \A k \in OfBuy(match, i) : match'[k].amount = match[k].amount
  BY <1>1, <1>3 DEF OfBuy
<1> QED
  BY <1>2, <1>3, <1>4, RowStillAddsUp

LEMMA CreateCommitConserves ==
  ASSUME JournalInv, JournalInv', Conserved, NEW c \in Clients, CreateCommit(c)
  PROVE  Conserved'
<1> DEFINE r == request[c]
<1>1. /\ r.amount \in Int /\ r.rem \in Int /\ r.amount <= r.rem + Tol
      /\ r.id \notin DOMAIN match /\ DOMAIN match' = DOMAIN match \cup {r.id}
      /\ \A k \in DOMAIN match : match'[k] = match[k]
      /\ match'[r.id].buy = r.buy /\ match'[r.id].amount = r.amount
      /\ DOMAIN trade' = DOMAIN trade
      /\ \A id \in DOMAIN trade : trade'[id] = Booked(r, id, trade[id])
  BY CreateCommitFacts
<1> HIDE DEF r
<1>2. SUFFICES ASSUME NEW id \in DOMAIN trade, trade'[id].ext \in Buys
               PROVE  AddsUp(trade'[id], MatchedIn(match', id))
  BY <1>1, ConservedIsAddsUp
<1>3. trade[id] \in TradeRow
  BY TablesTyped
<1>4. /\ trade'[id].ext = trade[id].ext /\ trade'[id].rewritten = trade[id].rewritten
      /\ id # r.buy => /\ trade'[id].raced = trade[id].raced
                       /\ trade'[id].creates = trade[id].creates
                       /\ trade'[id].rem = trade[id].rem
      /\ id = r.buy => /\ trade'[id].raced = (trade[id].raced \/ trade[id].rem # r.rem)
                       /\ trade'[id].creates = trade[id].creates + 1
                       /\ trade'[id].rem = IF r.amount < r.rem THEN r.rem - r.amount ELSE 0
  BY <1>1, <1>3, BookedKeeps
<1>5. CASE id # r.buy
  <2>1. OfBuy(match, id) = OfBuy(match', id)
        /\ \A k \in OfBuy(match, id) : match'[k].amount = match[k].amount
    BY <1>1, <1>5 DEF OfBuy
  <2> QED
    BY <1>1, <1>2, <1>4, <1>5, <2>1, RowStillAddsUp
<1>6. CASE id = r.buy
  <2>1. MatchedIn(match', id) = MatchedIn(match, id) + r.amount
    <3>1. r.id \in DOMAIN match' /\ r.id \notin OfBuy(match, id)
          /\ OfBuy(match', id) = OfBuy(match, id) \cup {r.id}
          /\ \A j \in OfBuy(match, id) : match'[j].amount = match[j].amount
      BY <1>1, <1>6 DEF OfBuy
    <3> QED
      BY <1>1, <3>1, TablesTyped, MatchedMore
  <2>2. AddsUp(trade[id], MatchedIn(match, id))
    BY <1>2, <1>4, ConservedIsAddsUp
  <2>3. MatchedIn(match, id) \in Int
    BY TablesTyped, MatchedNumber
  <2>4. trade[id].rem \in Int /\ trade[id].creates \in Nat /\ Tol \in Nat /\ Amount \in Nat
    BY <1>3, JournalAssumption DEF TradeRow
  <2>5. Tol * (trade[id].creates + 1) = Tol * trade[id].creates + Tol
        /\ Tol * trade[id].creates \in Int
    BY <2>4
  <2> DEFINE taken == MatchedIn(match, id)
             grants == Tol * trade[id].creates
             rem == trade[id].rem
  <2> HIDE DEF taken, grants, rem
  <2>6. ASSUME ~trade[id].raced, ~trade[id].rewritten, rem = r.rem
        PROVE  LET left == IF r.amount < r.rem THEN r.rem - r.amount ELSE 0
               IN  Amount <= left + (taken + r.amount)
                   /\ left + (taken + r.amount) <= Amount + (grants + Tol)
    <3>1. Amount <= r.rem + taken /\ r.rem + taken <= Amount + grants
      BY <2>2, <2>6 DEF AddsUp, taken, grants, rem
    <3>2. taken \in Int /\ grants \in Int /\ Tol \in Nat /\ Amount \in Nat
      BY <2>3, <2>4, <2>5 DEF taken, grants
    <3> QED
      BY <1>1, <3>1, <3>2
  <2>7. ASSUME ~trade'[id].raced, ~trade'[id].rewritten
        PROVE  /\ Amount <= trade'[id].rem + MatchedIn(match', id)
               /\ trade'[id].rem + MatchedIn(match', id)
                    <= Amount + Tol * trade'[id].creates
    <3>1. ~trade[id].raced /\ ~trade[id].rewritten /\ rem = r.rem
      BY <1>4, <1>6, <2>7 DEF rem
    <3>2. /\ trade'[id].rem = IF r.amount < r.rem THEN r.rem - r.amount ELSE 0
          /\ MatchedIn(match', id) = taken + r.amount
          /\ Tol * trade'[id].creates = grants + Tol
      BY <1>4, <1>6, <2>1, <2>5 DEF taken, grants
    <3> QED
      BY <2>6, <3>1, <3>2
  <2> QED
    BY <2>7 DEF AddsUp
<1> QED
  BY <1>5, <1>6

LEMMA DeleteCommitConserves ==
  ASSUME JournalInv, JournalInv', Conserved, NEW c \in Clients, DeleteCommit(c)
  PROVE  Conserved'
<1> DEFINE r == request[c]
           stale == r.id \notin DOMAIN match \/ match[r.id] # r.match
<1>1. /\ r.match \in MatchRow
      /\ DOMAIN trade' = DOMAIN trade
      /\ \A id \in DOMAIN trade :
           /\ trade'[id].ext = trade[id].ext /\ trade'[id].creates = trade[id].creates
           /\ trade'[id].rewritten = trade[id].rewritten
           /\ trade[id].raced => trade'[id].raced
           /\ trade'[id].rem =
                trade[id].rem + IF id = r.match.buy THEN r.match.amount ELSE 0
           /\ stale /\ (id = r.match.buy \/ (r.id \in DOMAIN match /\ id = match[r.id].buy))
                => trade'[id].raced
      /\ DOMAIN match' = DOMAIN match \ {r.id}
      /\ \A k \in DOMAIN match' : match'[k] = match[k]
  BY DeleteCommitFacts
<1>2. ~stale => r.id \in DOMAIN match /\ match[r.id] = r.match
  OBVIOUS
<1> HIDE DEF r, stale
<1>3. SUFFICES ASSUME NEW id \in DOMAIN trade, trade'[id].ext \in Buys
               PROVE  AddsUp(trade'[id], MatchedIn(match', id))
  BY <1>1, ConservedIsAddsUp
<1>4. trade[id].rem \in Int /\ trade[id].ext \in Buys
  BY <1>1, <1>3, TablesTyped DEF TradeRow
<1>5. CASE trade'[id].raced
  BY <1>5 DEF AddsUp
<1>6. CASE ~trade'[id].raced /\ ~stale /\ id = r.match.buy
  <2>1. r.id \in DOMAIN match /\ match[r.id].buy = id /\ match[r.id].amount = r.match.amount
    BY <1>2, <1>6
  <2>2. MatchedIn(match, id) = MatchedIn(match', id) + match[r.id].amount
    <3>1. /\ r.id \notin OfBuy(match', id)
          /\ OfBuy(match, id) = OfBuy(match', id) \cup {r.id}
          /\ \A j \in OfBuy(match', id) : match[j].amount = match'[j].amount
      BY <1>1, <2>1 DEF OfBuy
    <3> QED
      BY <2>1, <3>1, TablesTyped, MatchedMore
  <2>3. AddsUp(trade[id], MatchedIn(match, id))
    BY <1>4, ConservedIsAddsUp
  <2>4. MatchedIn(match', id) \in Int /\ r.match.amount \in Int
    <3>1. r.match.amount \in Int
      BY <1>1, JournalAssumption DEF MatchRow
    <3> QED
      BY <3>1, TablesTyped, MatchedNumber
  <2>5. /\ trade'[id].rem = trade[id].rem + r.match.amount
        /\ trade'[id].creates = trade[id].creates
        /\ trade'[id].rewritten = trade[id].rewritten /\ (trade[id].raced => trade'[id].raced)
    BY <1>1, <1>6
  <2>6. trade[id].rem + MatchedIn(match, id) = trade'[id].rem + MatchedIn(match', id)
    BY <1>4, <2>1, <2>2, <2>4, <2>5
  <2> QED
    BY <2>3, <2>5, <2>6 DEF AddsUp
<1>7. CASE ~trade'[id].raced /\ id # r.match.buy
  <2>1. ~(r.id \in DOMAIN match /\ id = match[r.id].buy)
    BY <1>1, <1>2, <1>7
  <2>2. /\ OfBuy(match, id) = OfBuy(match', id)
        /\ \A k \in OfBuy(match, id) : match'[k].amount = match[k].amount
    BY <1>1, <2>1 DEF OfBuy
  <2>3. trade'[id].rem = trade[id].rem
    <3>1. (IF id = r.match.buy THEN r.match.amount ELSE 0) = 0
      BY <1>7
    <3> QED
      BY <1>1, <1>4, <3>1
  <2> QED
    BY <1>1, <1>4, <2>2, <2>3, RowStillAddsUp
<1>8. CASE ~trade'[id].raced /\ stale /\ id = r.match.buy
  BY <1>1, <1>8
<1> QED
  BY <1>5, <1>6, <1>7, <1>8

LEMMA RestoredRewritten ==
  ASSUME Typed, ~quiet, nextTrade + Cardinality(DOMAIN backup.trades) - 1 <= MaxTradeId
  PROVE  \A id \in DOMAIN RestoredTrades : RestoredTrades[id].rewritten
<1> SUFFICES ASSUME NEW id \in DOMAIN RestoredTrades PROVE RestoredTrades[id].rewritten
  OBVIOUS
<1> DEFINE back == {i \in DOMAIN backup.trades : RestoredId(i) = id}
           row == IF back = {} THEN trade[id] ELSE backup.trades[CHOOSE i \in back : TRUE]
<1>1. /\ RestoredTrades[id] = [row EXCEPT !.rewritten = @ \/ ~quiet]
      /\ id \in DOMAIN trade \cup {RestoredId(i) : i \in DOMAIN backup.trades}
  BY DEF RestoredTrades
<1>2. row \in TradeRow
  BY <1>1 DEF Typed, IsTable
<1> HIDE DEF row
<1> QED
  BY <1>1, <1>2 DEF TradeRow

LEMMA RestoreConserves ==
  ASSUME JournalInv, JournalInv', Conserved, Restore PROVE Conserved'
<1>1. CASE quiet
  <2>1. trade' = trade /\ match' = match
    BY <1>1, QuietRestored DEF Restore, MayRestore
  <2> QED
    BY <2>1, ConservedIsAddsUp
<1>2. CASE ~quiet
  <2>1. trade' = RestoredTrades
    BY DEF Restore
  <2>2. \A id \in DOMAIN RestoredTrades : RestoredTrades[id].rewritten
    BY <1>2, RestoredRewritten DEF Restore, MayRestore, JournalInv
  <2> QED
    BY <2>1, <2>2, ConservedIsAddsUp DEF AddsUp
<1> QED
  BY <1>1, <1>2

LEMMA NextConserves ==
  ASSUME JournalInv, JournalInv', Conserved, [Next]_vars PROVE Conserved'
<1>1. CASE trade' = trade /\ match' = match
  BY <1>1, ConservedIsAddsUp
<1>2. CASE FreshServer
  <2>1. DOMAIN trade' = {}
    BY <1>2 DEF FreshServer
  <2> QED
    BY <2>1, ConservedIsAddsUp
<1>3. ASSUME NEW c \in Clients, NEW k, DeleteRead(c, k) PROVE trade' = trade /\ match' = match
  BY <1>3 DEF DeleteRead
<1>4. ASSUME NEW c \in Clients, NEW buy, NEW sell, NEW amount, CreateRead(c, buy, sell, amount)
      PROVE  trade' = trade /\ match' = match
  BY <1>4 DEF CreateRead
<1>5. ExportTrades \/ ExportMatches \/ RestoreFails \/ UNCHANGED vars
        => trade' = trade /\ match' = match
  BY DEF ExportTrades, ExportMatches, RestoreFails, vars
<1>6. ASSUME NEW c \in Clients, CreateInsert(c) PROVE trade' = trade /\ match' = match
  BY <1>6 DEF CreateInsert
<1>7. ASSUME NEW batch \in Batches, ImportInsert(batch) \/ ImportFails(batch)
      PROVE  trade' = trade /\ match' = match
  BY <1>7 DEF ImportInsert, ImportFails
<1> QED
  BY <1>1, <1>2, <1>3, <1>4, <1>5, <1>6, <1>7, ImportConserves, UpdateConserves, DeleteTradeConserves,
     CreateCommitConserves, DeleteCommitConserves, RestoreConserves DEF Next

(* What is left of a buy and what its matches took add up to its amount,    *)
(* but for the tolerance of each match, through every sequence of requests, *)
(* imports, cascades and restores of the current state (matches.py:84-167), *)
(* for every row that no request wrote or gave back to from a value no      *)
(* longer current, no client set and no restore of another state rewrote.   *)
THEOREM AmountsConserved == Spec => []Conserved
<1>1. Init => Conserved
  <2>1. ASSUME Init PROVE DOMAIN trade = {}
    BY <2>1 DEF Init
  <2> QED
    BY <2>1 DEF Conserved
<1>2. JournalInv /\ Conserved /\ [Next]_vars => (JournalInv /\ Conserved)'
  BY NextAgrees, NextConserves
<1> QED
  BY <1>1, <1>2, InitAgrees, PTL DEF Spec
=============================================================================
