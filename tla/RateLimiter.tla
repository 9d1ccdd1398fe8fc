------------------------------ MODULE RateLimiter ------------------------------
(***************************************************************************)
(* rate_limit/redis.py: the fixed-window limiter, for one identity.  A     *)
(* request names the window it falls in by the handler's clock, and then   *)
(* one Redis script counts it in the key of that window; the first count   *)
(* starts the key's time to live.  The label and the script are apart: an  *)
(* await, and a new window, may come between them.                         *)
(***************************************************************************)
EXTENDS Naturals

CONSTANTS
    Client,         \* requests of this identity that may be checked at a time
    NoWindow,       \* no check under way
    Limit,          \* requests admitted per window
    WindowSeconds,  \* length of a window, and the time to live of its key
    MaxTime,        \* bound on the clock
    MaxChecks       \* bound on the requests checked

ASSUME RateAssumption ==
    /\ Limit \in Nat
    /\ WindowSeconds \in Nat \ {0}
    /\ MaxTime \in Nat
    /\ MaxChecks \in Nat
    /\ NoWindow \notin Nat

VARIABLES
    now,      \* the clock, in seconds
    count,    \* the key of each window: its value, 0 when there is none
    expires,  \*   and when it goes
    label,    \* the window each pending check named
    checks,   \* requests checked so far
    prompt    \* history: requests of the present window admitted while it lasts

rateVars == <<now, count, expires, label, checks, prompt>>
--------------------------------------------------------------------------------
WindowAt(t) == t \div WindowSeconds
Window      == {WindowAt(t) : t \in 0..MaxTime}

RateTypeOK ==
    /\ now \in 0..MaxTime
    /\ count \in [Window -> Nat]
    /\ expires \in [Window -> Nat]
    /\ label \in [Client -> Window \cup {NoWindow}]
    /\ checks \in 0..MaxChecks
    /\ prompt \in Nat

RateInit ==
    /\ now = 0
    /\ count = [w \in Window |-> 0]
    /\ expires = [w \in Window |-> 0]
    /\ label = [c \in Client |-> NoWindow]
    /\ checks = 0
    /\ prompt = 0

\* int(time.time()) // window_seconds
Label(c) ==
    /\ label[c] = NoWindow
    /\ checks < MaxChecks
    /\ checks' = checks + 1
    /\ label' = [label EXCEPT ![c] = WindowAt(now)]
    /\ UNCHANGED <<now, count, expires, prompt>>

\* numeric_count <= limit, for the count the script is about to return
Allowed(c) == count[label[c]] + 1 <= Limit

\* When a key created now is to go.
\* Seeded defect: the window is over a second before its key is meant to be.
MutExpiry == now + WindowSeconds - 1
Expiry    == now + WindowSeconds

\* The script: INCR, and EXPIRE on the first count.
Count(c) ==
    LET w == label[c] IN
    /\ count' = [count EXCEPT ![w] = @ + 1]
    /\ expires' = IF count[w] = 0 THEN [expires EXCEPT ![w] = Expiry] ELSE expires

Checked(c) ==
    /\ label[c] # NoWindow
    /\ label' = [label EXCEPT ![c] = NoWindow]
    /\ UNCHANGED <<now, checks>>

Pass(c) ==
    /\ Checked(c)
    /\ Allowed(c)
    /\ Count(c)
    /\ prompt' = IF label[c] = WindowAt(now) THEN prompt + 1 ELSE prompt

Exceed(c) ==
    /\ Checked(c)
    /\ ~Allowed(c)
    /\ Count(c)
    /\ UNCHANGED prompt

\* Redis failed, before or after it counted: the request fails.
CheckFails(c) ==
    /\ Checked(c)
    /\ Count(c) \/ UNCHANGED <<count, expires>>
    /\ UNCHANGED prompt

\* A second passes; keys whose time has come are gone. The clock is followed
\* while a check is under way or may come.
Tick ==
    /\ now < MaxTime
    /\ checks < MaxChecks \/ \E c \in Client : label[c] # NoWindow
    /\ now' = now + 1
    /\ count' = [w \in Window |-> IF expires[w] <= now' THEN 0 ELSE count[w]]
    /\ expires' = [w \in Window |-> IF expires[w] <= now' THEN 0 ELSE expires[w]]
    /\ prompt' = IF WindowAt(now') = WindowAt(now) THEN prompt ELSE 0
    /\ UNCHANGED <<label, checks>>

RateNext == \/ Tick
            \/ \E c \in Client : Label(c) \/ Pass(c) \/ Exceed(c) \/ CheckFails(c)

RateSpec == RateInit /\ [][RateNext]_rateVars
--------------------------------------------------------------------------------
(* Properties *)

\* Of the requests that are answered within the window they fell in, no more
\* than the limit are admitted: the key never goes while its window lasts,
\* though its life starts with the first request and not with the window. A
\* request that is counted after its window is over meets the key of that window,
\* or a new one, and is not among them.
WindowLimit == prompt <= Limit
================================================================================
