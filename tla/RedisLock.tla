------------------------------ MODULE RedisLock -------------------------------
(***************************************************************************)
(* persistence/redis/locks.py, RedisDistributedLock: the key that          *)
(* serializes the turns of one conversation across processes.              *)
(*                                                                         *)
(* The key is set with SET NX and an expiry and deleted by a script that   *)
(* compares its value with the caller's token.  The expiry is not renewed, *)
(* so a worker can outlive its own lease: overrun remembers which did.     *)
(* A fresh token per acquisition is written as the worker's name: a worker *)
(* acquires again only once the key of its last acquisition is gone.       *)
(***************************************************************************)
CONSTANTS
    Worker,    \* request handlers, in any process
    NoWorker   \* value of an absent key

ASSUME WorkerAssumption == NoWorker \notin Worker

VARIABLES
    owner,   \* whose token the key holds
    stage,   \* where each worker is with respect to the guarded block
    overrun  \* workers in the block whose lease has run out

vars == <<owner, stage, overrun>>

Stage == {"outside", "trying", "inside"}

TypeOK ==
    /\ owner \in Worker \cup {NoWorker}
    /\ stage \in [Worker -> Stage]
    /\ overrun \in SUBSET Worker

Init ==
    /\ owner = NoWorker
    /\ stage = [w \in Worker |-> "outside"]
    /\ overrun = {}
-------------------------------------------------------------------------------
\* acquire is called: the token and the deadline are fixed.
Try(w) ==
    /\ stage[w] = "outside"
    /\ stage' = [stage EXCEPT ![w] = "trying"]
    /\ UNCHANGED <<owner, overrun>>

\* SET NX succeeds.
Enter(w) ==
    /\ stage[w] = "trying"
    /\ owner = NoWorker
    /\ owner' = w
    /\ stage' = [stage EXCEPT ![w] = "inside"]
    /\ UNCHANGED overrun

\* SET NX took effect but its answer was lost: the key stays until it expires.
EnterUnheard(w) ==
    /\ stage[w] = "trying"
    /\ owner = NoWorker
    /\ owner' = w
    /\ stage' = [stage EXCEPT ![w] = "outside"]
    /\ UNCHANGED overrun

\* SET NX fails and the deadline has passed: TimeoutError.
GiveUp(w) ==
    /\ stage[w] = "trying"
    /\ owner # NoWorker
    /\ stage' = [stage EXCEPT ![w] = "outside"]
    /\ UNCHANGED <<owner, overrun>>

\* Seeded defect: the release deletes whatever the key holds.
MutDeleteAny(w) == NoWorker

\* RELEASE_SCRIPT: delete the key only if it still holds the caller's token.
Released(w) == IF owner = w THEN NoWorker ELSE owner

\* The block ends, normally or with an exception, and finally runs the script.
Leave(w) ==
    /\ stage[w] = "inside"
    /\ owner' = Released(w)
    /\ stage' = [stage EXCEPT ![w] = "outside"]
    /\ overrun' = overrun \ {w}

\* The process dies, or Redis cannot be reached: no script runs.
Vanish(w) ==
    /\ stage[w] # "outside"
    /\ stage' = [stage EXCEPT ![w] = "outside"]
    /\ overrun' = overrun \ {w}
    /\ UNCHANGED owner

\* The key was set with ex=ttl_seconds: Redis drops it, whatever became of the worker.
Expire ==
    /\ owner # NoWorker
    /\ owner' = NoWorker
    /\ overrun' = IF stage[owner] = "inside" THEN overrun \cup {owner} ELSE overrun
    /\ UNCHANGED stage

Next ==
    \/ \E w \in Worker :
          Try(w) \/ Enter(w) \/ EnterUnheard(w) \/ GiveUp(w) \/ Leave(w) \/ Vanish(w)
    \/ Expire

Spec == Init /\ [][Next]_vars

-------------------------------------------------------------------------------
(* Properties *)

\* Two workers are in the block together only after the lease of one of them ran out:
\* crashes, lost answers and late releases by overrun workers never admit a second one.
MutualExclusion ==
    \A v, w \in Worker :
        v # w /\ stage[v] = "inside" /\ stage[w] = "inside" => v \in overrun \/ w \in overrun

(* What makes MutualExclusion inductive: a lease that has not run out is the key. *)
LeaseIsKey ==
    \A w \in Worker :
        /\ stage[w] = "inside" /\ w \notin overrun => owner = w
        /\ w \in overrun => stage[w] = "inside"

IInv == TypeOK /\ LeaseIsKey
===============================================================================
