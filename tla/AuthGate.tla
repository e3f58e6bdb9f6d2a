------------------------------- MODULE AuthGate -------------------------------
(***************************************************************************)
(* verify_api_key (backend/app/auth.py), the dependency every request of   *)
(* the cloud API passes: a sliding window over the requests of a client, a *)
(* key, and a lockout after too many wrong keys.  The function does not    *)
(* await anything, so one request is one action.  The server token is      *)
(* configured (it answers 500 to everything otherwise).  A client is what  *)
(* _get_client_ip makes of the headers, the address it claims.             *)
(*                                                                         *)
(* Time passes in whole steps; the tables hold times of requests.          *)
(***************************************************************************)
EXTENDS Integers, Sequences, FiniteSets, Lists

CONSTANTS
    Addresses,      \* client addresses
    Window,         \* the sliding window (60 s)
    MaxRequests,    \* MAX_REQUESTS_PER_MINUTE
    MaxFailed,      \* MAX_FAILED_ATTEMPTS
    Lockout,        \* LOCKOUT_TIME_SECONDS
    LastNow         \* bound: the last moment

ASSUME AuthAssumption ==
    /\ {Window, MaxRequests, MaxFailed, Lockout} \subseteq Nat \ {0}
    /\ LastNow \in Nat
    /\ Window <= Lockout

VARIABLES
    now,
    requests,     \* _request_history: of each client, times in order
    fails,        \* _failed_attempts
    blocked,      \* _blocked_ips: until when, or Never
    answer,       \* the last answer: [client, code]
    admitted,     \* ghost: times of all requests that passed the rate limit
    counted       \* ghost: times of the wrong keys sent outside a lockout since
                  \* the client last showed the right one

gateVars == <<now, requests, fails, blocked, answer, admitted, counted>>

Never == -1
NoAnswer == [client |-> "none", code |-> 0]

GateInit ==
    /\ now = 0
    /\ requests = [c \in Addresses |-> <<>>]
    /\ fails = [c \in Addresses |-> <<>>]
    /\ blocked = [c \in Addresses |-> Never]
    /\ answer = NoAnswer
    /\ admitted = [c \in Addresses |-> <<>>]
    /\ counted = [c \in Addresses |-> <<>>]

\* Mutant: the window starts anew when it is over.
RecentAnew(times) ==
    IF times # <<>> /\ now - times[1] >= Window THEN <<>> ELSE times
\* The times inside the window that ends now.
Recent(times) == Kept(times, {t \in 0 .. now : now - t < Window})

Answer(c, code) == answer' = [client |-> c, code |-> code]

\* Refused by the rate limit: the request is not recorded.
TooMany(c) ==
    /\ Len(Recent(requests[c])) >= MaxRequests
    /\ Answer(c, 429)
    /\ UNCHANGED <<now, requests, fails, blocked, admitted, counted>>

Admit(c) ==
    /\ Len(Recent(requests[c])) < MaxRequests
    /\ requests' = [requests EXCEPT ![c] = Append(Recent(requests[c]), now)]
    /\ admitted' = [admitted EXCEPT ![c] = Append(@, now)]

\* The right key: blocks and failures are forgotten.
RightKey(c) ==
    /\ Admit(c)
    /\ Answer(c, 200)
    /\ blocked' = [blocked EXCEPT ![c] = Never]
    /\ fails' = [fails EXCEPT ![c] = <<>>]
    /\ counted' = [counted EXCEPT ![c] = <<>>]
    /\ UNCHANGED now

\* Mutant: the end of the lockout is not waited for.
LockedOutOnce(c) == blocked[c] # Never /\ now < blocked[c] - 1
LockedOut(c) == blocked[c] # Never /\ now < blocked[c]

\* A key is compared before the lockout is looked at: the right one is RightKey at
\* any time, a wrong one is refused here and counts for nothing but the rate limit.
WrongKeyWhileLocked(c) ==
    /\ LockedOut(c)
    /\ Admit(c)
    /\ Answer(c, 429)
    /\ UNCHANGED <<now, fails, blocked, counted>>

\* Mutant: the failures before the last one are forgotten.
FailuresLast(c) == <<now>>
\* The failures that count; a lockout that is over clears them.
Failures(c) ==
    Append(IF blocked[c] # Never THEN <<>> ELSE Recent(fails[c]), now)

WrongKey(c) ==
    /\ ~LockedOut(c)
    /\ Admit(c)
    /\ fails' = [fails EXCEPT ![c] = Failures(c)]
    /\ LET lock == Len(Failures(c)) >= MaxFailed
       IN  /\ blocked' = [blocked EXCEPT ![c] = IF lock THEN now + Lockout ELSE Never]
           /\ Answer(c, IF lock THEN 429 ELSE 401)
    /\ counted' = [counted EXCEPT ![c] = Append(@, now)]
    /\ UNCHANGED now

Tick ==
    /\ now < LastNow
    /\ now' = now + 1
    /\ UNCHANGED <<requests, fails, blocked, answer, admitted, counted>>

GateNext ==
    \/ \E c \in Addresses : TooMany(c) \/ RightKey(c) \/ WrongKeyWhileLocked(c) \/ WrongKey(c)
    \/ Tick

GateSpec == GateInit /\ [][GateNext]_gateVars

-----------------------------------------------------------------------------
\* Entries of a log that fall into the window that starts with the i-th.
Within(log, i) == {j \in DOMAIN log : j >= i /\ log[j] - log[i] < Window}

\* The limit holds for every window, whenever it starts: the table is pruned on
\* each request, and what it forgets must not let a burst through.
RateHolds ==
    \A c \in Addresses : \A i \in DOMAIN admitted[c] :
      Cardinality(Within(admitted[c], i)) <= MaxRequests

\* The lockout comes in time: whatever keys, pauses and lockouts came before, no
\* window holds more than MaxFailed wrong keys that the client sent while it was
\* not locked out and since it last showed the right one, which forgets them.  It
\* rests on the lockout being at least as long as the window, since the end of a
\* lockout clears the failures.  It is no bound on the keys a client may try: the
\* code compares those it sends during a lockout too, and RateHolds alone limits
\* them.
LockedInTime ==
    \A c \in Addresses : \A i \in DOMAIN counted[c] :
      Cardinality(Within(counted[c], i)) <= MaxFailed

\* A lockout ends by the right key or by its time; meanwhile it is neither cut
\* short nor prolonged by further wrong keys.
LockoutLasts ==
    [][\A c \in Addresses : blocked[c] # Never /\ now < blocked[c] =>
         blocked'[c] = blocked[c] \/ (answer' = [client |-> c, code |-> 200])]_gateVars
=============================================================================
