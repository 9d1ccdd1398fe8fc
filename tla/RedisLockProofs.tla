--------------------------- MODULE RedisLockProofs ----------------------------
(***************************************************************************)
(* Theorems about RedisLock: the inductive invariant is that a worker in   *)
(* the block whose lease has not run out is the one the key names.         *)
(***************************************************************************)
EXTENDS RedisLock, TLAPS

\* Every step keeps the key, the stages and the overrun workers well-typed and tied together.
LEMMA NextInv == IInv /\ [Next]_vars => IInv'
  <1> SUFFICES ASSUME IInv, [Next]_vars PROVE IInv'
      OBVIOUS
  <1> USE WorkerAssumption DEF IInv, TypeOK, LeaseIsKey, Stage
  <1>1. ASSUME NEW w \in Worker, Try(w) PROVE IInv'
      BY <1>1 DEF Try
  <1>2. ASSUME NEW w \in Worker, Enter(w) PROVE IInv'
      BY <1>2 DEF Enter
  <1>3. ASSUME NEW w \in Worker, EnterUnheard(w) PROVE IInv'
      BY <1>3 DEF EnterUnheard
  <1>4. ASSUME NEW w \in Worker, GiveUp(w) PROVE IInv'
      BY <1>4 DEF GiveUp
  <1>5. ASSUME NEW w \in Worker, Leave(w) PROVE IInv'
    <2>1. TypeOK'
        BY <1>5 DEF Leave, Released
    <2>2. LeaseIsKey'
        BY <1>5 DEF Leave, Released
    <2> QED
        BY <2>1, <2>2
  <1>6. ASSUME NEW w \in Worker, Vanish(w) PROVE IInv'
      BY <1>6 DEF Vanish
  <1>7. ASSUME Expire PROVE IInv'
      BY <1>7 DEF Expire
  <1>8. CASE UNCHANGED vars
      BY <1>8 DEF vars
  <1> QED
      BY <1>1, <1>2, <1>3, <1>4, <1>5, <1>6, <1>7, <1>8 DEF Next

\* The inductive invariant holds in every behaviour.
THEOREM LockInvariance == Spec => []IInv
  <1>1. Init => IInv
      BY WorkerAssumption DEF Init, IInv, TypeOK, LeaseIsKey, Stage
  <1> QED
      BY <1>1, NextInv, PTL DEF Spec

\* Whatever the number of workers, only an overrun lease lets two of them into the block of
\* `async with locks.acquire(...)`: no crash, lost answer or late release does.
THEOREM LockMutualExclusion == Spec => []MutualExclusion
  <1>1. IInv => MutualExclusion
      BY DEF IInv, LeaseIsKey, MutualExclusion
  <1> QED
      BY <1>1, LockInvariance, PTL
===============================================================================
