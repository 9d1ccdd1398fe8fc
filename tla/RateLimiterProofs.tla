--------------------------- MODULE RateLimiterProofs ---------------------------
(***************************************************************************)
(* The window limit of RateLimiter, for any limit, length of the window    *)
(* and number of requests.                                                 *)
(***************************************************************************)
EXTENDS RateLimiter, Integers, TLAPS

\* A moment lies between the start and the end of the window it falls in.
LEMMA WindowBounds ==
    ASSUME NEW t \in Nat, NEW w \in Nat \ {0}
    PROVE  /\ t \div w \in Nat
           /\ (t \div w) * w <= t
           /\ t < (t \div w) * w + w
  BY SMT

\* Time does not return to an earlier window.
LEMMA WindowsPass ==
    ASSUME NEW t \in Nat, NEW w \in Nat \ {0}
    PROVE  t \div w <= (t + 1) \div w
  BY SMT

\* When a window is over.
End(w) == w * WindowSeconds + WindowSeconds

\* The key of the present window, once it was counted in, stays until the window
\* is over; it has counted every request admitted promptly, and none was counted
\* or labelled for a window to come.
RateInv ==
    /\ RateTypeOK
    /\ prompt <= Limit
    /\ prompt <= count[WindowAt(now)]
    /\ count[WindowAt(now)] > 0 => expires[WindowAt(now)] >= End(WindowAt(now))
    /\ \A w \in Window : count[w] > 0 => w <= WindowAt(now)
    /\ \A c \in Client : label[c] # NoWindow => label[c] <= WindowAt(now)

\* The window of a moment of the clock is one of the windows, a number, and the
\* moment lies in it.
LEMMA WindowOf ==
    ASSUME NEW t \in 0..MaxTime
    PROVE  /\ WindowAt(t) \in Window
           /\ WindowAt(t) \in Nat
           /\ WindowAt(t) * WindowSeconds \in Nat
           /\ WindowAt(t) * WindowSeconds <= t
           /\ t < End(WindowAt(t))
<1>1. t \in Nat /\ WindowSeconds \in Nat \ {0}
  BY RateAssumption
<1>2. WindowAt(t) \in Nat /\ WindowAt(t) * WindowSeconds <= t /\ t < End(WindowAt(t))
  BY <1>1, WindowBounds DEF WindowAt, End
<1>3. WindowAt(t) * WindowSeconds \in Nat
  <2>1. \A a, b \in Nat : a * b \in Nat
    OBVIOUS
  <2>. QED  BY <1>1, <1>2, <2>1
<1>. QED  BY <1>2, <1>3 DEF Window

LEMMA WindowsAreNumbers == Window \subseteq Nat
  BY WindowOf DEF Window

\* Nothing is counted at first.
LEMMA RateInitially == RateInit => RateInv
<1>. SUFFICES ASSUME RateInit PROVE RateInv
  OBVIOUS
<1>1. 0 \in 0..MaxTime /\ Limit \in Nat /\ 0 \in 0..MaxChecks
  BY RateAssumption
<1>2. RateTypeOK
  BY <1>1 DEF RateInit, RateTypeOK
<1>3. WindowAt(now) \in Window
  BY <1>1, WindowOf DEF RateInit
<1>. QED  BY <1>1, <1>2, <1>3 DEF RateInit, RateInv

\* What the script does to the keys: the window a check named is not one to come,
\* and the key it creates for the present window outlives the window.
LEMMA CountKeeps ==
    ASSUME RateInv, NEW c \in Client, label[c] # NoWindow, Count(c), now' = now
    PROVE  /\ count' \in [Window -> Nat]
           /\ expires' \in [Window -> Nat]
           /\ count'[WindowAt(now)] >= count[WindowAt(now)]
           /\ label[c] = WindowAt(now) => count'[WindowAt(now)] = count[WindowAt(now)] + 1
           /\ count'[WindowAt(now)] > 0 => expires'[WindowAt(now)] >= End(WindowAt(now))
           /\ \A w \in Window : count'[w] > 0 => w <= WindowAt(now)
<1>. DEFINE w == label[c]
            here == WindowAt(now)
<1>1. /\ now \in 0..MaxTime /\ now \in Nat
      /\ count \in [Window -> Nat]
      /\ expires \in [Window -> Nat]
      /\ w \in Window
      /\ w <= here
      /\ WindowSeconds \in Nat
  BY RateAssumption DEF RateInv, RateTypeOK
<1>2. /\ here \in Window /\ here \in Nat
      /\ here * WindowSeconds \in Nat
      /\ here * WindowSeconds <= now
  BY <1>1, WindowOf
<1>3. /\ count' = [count EXCEPT ![w] = count[w] + 1]
      /\ expires' = IF count[w] = 0 THEN [expires EXCEPT ![w] = now + WindowSeconds] ELSE expires
  BY DEF Count, Expiry
<1>4. \A v \in Window : count[v] > 0 => v <= here
  BY DEF RateInv
<1>5. count[here] > 0 => expires[here] >= End(here)
  BY DEF RateInv
<1>6. now + WindowSeconds >= End(here)
  BY <1>1, <1>2 DEF End
<1>. HIDE DEF w, here
<1>7. count' \in [Window -> Nat] /\ expires' \in [Window -> Nat]
  BY <1>1, <1>3
<1>8. /\ count'[here] >= count[here]
      /\ w = here => count'[here] = count[here] + 1
  BY <1>1, <1>2, <1>3
<1>9. count'[here] > 0 => expires'[here] >= End(here)
  <2>1. CASE w = here /\ count[here] = 0
    BY <2>1, <1>1, <1>2, <1>3, <1>6
  <2>2. CASE w = here /\ count[here] # 0
    <3>1. count[here] > 0
      BY <2>2, <1>1, <1>2
    <3>. QED  BY <2>2, <3>1, <1>3, <1>5
  <2>3. CASE w # here
    BY <2>3, <1>1, <1>2, <1>3, <1>5
  <2>. QED  BY <2>1, <2>2, <2>3
<1>10. \A v \in Window : count'[v] > 0 => v <= here
  BY <1>1, <1>3, <1>4
<1>. QED  BY <1>7, <1>8, <1>9, <1>10 DEF w, here

\* A step of the limiter keeps the invariant.
LEMMA RateStep == RateInv /\ [RateNext]_rateVars => RateInv'
<1>. SUFFICES ASSUME RateInv, [RateNext]_rateVars PROVE RateInv'
  OBVIOUS
<1>1. /\ RateTypeOK
      /\ now \in 0..MaxTime
      /\ WindowAt(now) \in Window
      /\ WindowAt(now) \in Nat
  BY WindowOf DEF RateInv, RateTypeOK
<1>2. ASSUME NEW c \in Client, Label(c) PROVE RateInv'
  <2>1. checks' \in 0..MaxChecks
    BY <1>1, <1>2, RateAssumption DEF Label, RateTypeOK
  <2>2. RateTypeOK'
    BY <1>1, <1>2, <2>1 DEF Label, RateTypeOK
  <2>3. \A d \in Client : label'[d] # NoWindow => label'[d] <= WindowAt(now)
    BY <1>1, <1>2 DEF Label, RateTypeOK, RateInv
  <2>. QED  BY <1>2, <2>2, <2>3 DEF Label, RateInv
<1>3. ASSUME NEW c \in Client, Checked(c), Count(c),
             \/ prompt' = prompt
             \/ label[c] = WindowAt(now) /\ Allowed(c) /\ prompt' = prompt + 1
      PROVE  RateInv'
  <2>1. now' = now /\ label[c] # NoWindow /\ checks' = checks
    BY <1>3 DEF Checked
  <2>2. /\ count' \in [Window -> Nat]
        /\ expires' \in [Window -> Nat]
        /\ count'[WindowAt(now)] >= count[WindowAt(now)]
        /\ label[c] = WindowAt(now) => count'[WindowAt(now)] = count[WindowAt(now)] + 1
        /\ count'[WindowAt(now)] > 0 => expires'[WindowAt(now)] >= End(WindowAt(now))
        /\ \A w \in Window : count'[w] > 0 => w <= WindowAt(now)
    BY <1>3, <2>1, CountKeeps
  <2>3. prompt' \in Nat /\ prompt' <= Limit /\ prompt' <= count'[WindowAt(now)]
    <3>1. /\ prompt \in Nat /\ prompt <= Limit /\ prompt <= count[WindowAt(now)]
          /\ count[WindowAt(now)] \in Nat /\ count'[WindowAt(now)] \in Nat
          /\ Limit \in Nat
      BY <1>1, <2>2, RateAssumption DEF RateInv, RateTypeOK
    <3>2. CASE prompt' = prompt
      BY <3>1, <3>2, <2>2
    <3>3. CASE label[c] = WindowAt(now) /\ Allowed(c) /\ prompt' = prompt + 1
      BY <3>1, <3>3, <2>2 DEF Allowed
    <3>. QED  BY <1>3, <3>2, <3>3
  <2>4. label' \in [Client -> Window \cup {NoWindow}]
    BY <1>1, <1>3 DEF Checked, RateTypeOK
  <2>5. \A d \in Client : label'[d] # NoWindow => label'[d] <= WindowAt(now)
    BY <1>1, <1>3 DEF Checked, RateTypeOK, RateInv
  <2>6. RateTypeOK'
    BY <1>1, <2>1, <2>2, <2>3, <2>4 DEF RateTypeOK
  <2>. QED  BY <2>1, <2>2, <2>3, <2>5, <2>6 DEF RateInv
<1>4. ASSUME NEW c \in Client, Pass(c) PROVE RateInv'
  BY <1>3, <1>4 DEF Pass
<1>5. ASSUME NEW c \in Client, Exceed(c) PROVE RateInv'
  BY <1>3, <1>5 DEF Exceed
<1>6. ASSUME NEW c \in Client, CheckFails(c) PROVE RateInv'
  <2>1. CASE Count(c)
    BY <1>3, <1>6, <2>1 DEF CheckFails
  <2>2. CASE UNCHANGED <<count, expires>>
    <3>1. label' \in [Client -> Window \cup {NoWindow}]
      BY <1>1, <1>6 DEF CheckFails, Checked, RateTypeOK
    <3>2. \A d \in Client : label'[d] # NoWindow => label'[d] <= WindowAt(now)
      BY <1>1, <1>6 DEF CheckFails, Checked, RateTypeOK, RateInv
    <3>3. RateTypeOK'
      BY <1>1, <1>6, <2>2, <3>1 DEF CheckFails, Checked, RateTypeOK
    <3>. QED  BY <1>6, <2>2, <3>2, <3>3 DEF CheckFails, Checked, RateInv
  <2>. QED  BY <1>6, <2>1, <2>2 DEF CheckFails
<1>7. ASSUME Tick PROVE RateInv'
  <2>. DEFINE here == WindowAt(now)
              next == WindowAt(now + 1)
  <2>1. /\ now' = now + 1 /\ now + 1 \in 0..MaxTime
        /\ label' = label /\ checks' = checks
        /\ count' = [w \in Window |-> IF expires[w] <= now + 1 THEN 0 ELSE count[w]]
        /\ expires' = [w \in Window |-> IF expires[w] <= now + 1 THEN 0 ELSE expires[w]]
        /\ prompt' = IF next = here THEN prompt ELSE 0
    BY <1>1, <1>7, RateAssumption DEF Tick
  <2>2. /\ next \in Window /\ next \in Nat
        /\ now + 1 < End(next)
    BY <2>1, WindowOf
  <2>3. here <= next
    BY <1>1, RateAssumption, WindowsPass DEF WindowAt
  <2>4. /\ prompt \in Nat /\ prompt <= Limit /\ prompt <= count[here]
        /\ count[here] > 0 => expires[here] >= End(here)
        /\ \A w \in Window : count[w] > 0 => w <= here
        /\ \A c \in Client : label[c] # NoWindow => label[c] <= here
        /\ count \in [Window -> Nat] /\ expires \in [Window -> Nat]
        /\ label \in [Client -> Window \cup {NoWindow}]
        /\ here \in Window /\ here \in Nat
        /\ Limit \in Nat
    BY <1>1, RateAssumption DEF RateInv, RateTypeOK
  <2>5. next \in Nat /\ now + 1 \in Nat /\ Window \subseteq Nat
    BY <2>1, <2>2, WindowsAreNumbers
  <2>. HIDE DEF here, next
  <2>6. count' \in [Window -> Nat] /\ expires' \in [Window -> Nat]
    BY <2>1, <2>4
  <2>7. \A w \in Window : count'[w] > 0 => w <= next
    BY <2>1, <2>3, <2>4, <2>5
  <2>8. ASSUME NEW c \in Client, label'[c] # NoWindow
        PROVE  label'[c] <= next
    <3>1. label[c] \in Nat /\ label[c] <= here
      BY <2>1, <2>4, <2>5, <2>8
    <3>. QED  BY <3>1, <2>1, <2>3, <2>4, <2>5
  <2>9. /\ prompt' \in Nat /\ prompt' <= Limit /\ prompt' <= count'[next]
        /\ count'[next] > 0 => expires'[next] >= End(next)
    <3>1. CASE next = here
      <4>1. CASE count[here] = 0
        BY <3>1, <4>1, <2>1, <2>4
      <4>2. CASE count[here] > 0
        <5>1. expires[here] >= End(here) /\ now + 1 < End(here)
          BY <3>1, <4>2, <2>2, <2>4
        <5>2. End(here) \in Int /\ expires[here] \in Nat
          BY <2>4, RateAssumption DEF End
        <5>3. ~(expires[here] <= now + 1)
          BY <5>1, <5>2, <2>5
        <5>. QED  BY <3>1, <5>1, <5>3, <2>1, <2>4
      <4>. QED  BY <4>1, <4>2, <2>4
    <3>2. CASE next # here
      <4>1. ~(next <= here)
        BY <3>2, <2>3, <2>4, <2>5
      <4>2. count[next] = 0
        BY <4>1, <2>2, <2>4
      <4>. QED  BY <3>2, <4>2, <2>1, <2>2, <2>4
    <3>. QED  BY <3>1, <3>2
  <2>10. RateTypeOK'
    BY <1>1, <2>1, <2>4, <2>6, <2>9 DEF RateTypeOK
  <2>11. WindowAt(now') = next
    BY <2>1 DEF next
  <2>. QED  BY <2>7, <2>8, <2>9, <2>10, <2>11 DEF RateInv
<1>8. CASE UNCHANGED rateVars
  BY <1>8 DEF rateVars, RateInv, RateTypeOK
<1>. QED  BY <1>2, <1>4, <1>5, <1>6, <1>7, <1>8 DEF RateNext

\* The limiter's invariant, for any limit and length of the window.
THEOREM RateInvariance == RateSpec => []RateInv
<1>1. RateInit => RateInv
  BY RateInitially
<1>2. RateInv /\ [RateNext]_rateVars => RateInv'
  BY RateStep
<1>. QED  BY <1>1, <1>2, PTL DEF RateSpec

\* Of the requests answered within their window no more than the limit are
\* admitted: rate_limit/redis.py's key outlives the window it counts.
THEOREM LimitHolds == RateSpec => []WindowLimit
<1>1. RateInv => WindowLimit
  BY DEF RateInv, WindowLimit
<1>. QED  BY <1>1, RateInvariance, PTL
================================================================================
