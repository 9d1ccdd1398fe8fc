-------------------------- MODULE ToolDispatchProofs --------------------------
(***************************************************************************)
(* Theorems about ToolDispatch.  The argument: as long as the record of an *)
(* operation was not lost, a handler that holds the operation is alone,    *)
(* the record stands for it, and nothing commits before the one that       *)
(* holds it does (OnceOnly); and whatever is called completed, or answered *)
(* with success, did commit (Honest).                                      *)
(***************************************************************************)
EXTENDS ToolDispatch, TLAPS

Kept(o) == record[o] \in {"reserved", "completed"}

OnceOnly ==
    \A o \in Operation \ forgotten :
        /\ made[o] <= 1
        /\ made[o] > 0 => Kept(o)
        /\ \A w \in Worker : Holds(w, o) => Kept(o)
        /\ \A v, w \in Worker : Holds(v, o) /\ Holds(w, o) => v = w
        /\ \A w \in Worker :
              Holds(w, o) /\ step[w] \in {"prepare", "begin", "write"} => made[o] = 0

Honest ==
    /\ \A o \in Operation : record[o] = "completed" => made[o] > 0
    /\ \A w \in Worker : step[w] \in {"reread", "complete"} => made[op[w]] > 0
    /\ \A w \in Worker : answer[w] \in {"success", "replayed"} =>
          op[w] \in Operation /\ made[op[w]] > 0

IInv == TypeOK /\ OnceOnly /\ Honest

\* The steps that leave the store alone and neither begin nor end a handler's hold.
Quiet(w) ==
    \/ \E o \in Operation, phone \in BOOLEAN : Call(w, o, phone)
    \/ RejectArguments(w) \/ Collect(w) \/ Get(w) \/ ReserveRefused(w)
    \/ Prepare(w) \/ Refuse(w) \/ Begin(w) \/ Conflict(w) \/ Reread(w)

\* What a call of Redis or PostgreSQL stores is well-typed.
LEMMA EffectType ==
    ASSUME TypeOK, NEW w \in Worker, step[w] # "idle", WithinBound(w), Effect(w)
    PROVE  /\ record' \in [Operation -> Record]
           /\ made' \in [Operation -> 0..MaxMade]
  <1>1. op[w] \in Operation
      BY DEF TypeOK
  <1>2. Stored(step[w], record[op[w]]) \in Record
      BY <1>1 DEF TypeOK, Stored, Record
  <1>3. record' \in [Operation -> Record]
      BY <1>1, <1>2 DEF TypeOK, Effect
  <1>4. made' \in [Operation -> 0..MaxMade]
      BY <1>1, OperationAssumption DEF TypeOK, Effect, WithinBound
  <1> QED
      BY <1>3, <1>4

\* Every step of a handler and every expiry keeps the variables well-typed.
LEMMA NextType == TypeOK /\ Next => TypeOK'
  <1> SUFFICES ASSUME TypeOK, Next PROVE TypeOK'
      OBVIOUS
  <1>0. forgotten' \in SUBSET Operation
      BY DEF Next, Forget, TypeOK
  <1>1. ASSUME NEW w \in Worker, Quiet(w) PROVE TypeOK'
      BY <1>0, <1>1 DEF TypeOK, Quiet, Call, RejectArguments, Collect, Over, Get,
         ReserveRefused, Prepare, Refuse, Begin, Conflict, Reread, Go, Return, Raise, Step,
         Answer, Error, Faulty, store
  <1>2. ASSUME NEW w \in Worker, Reserve(w) \/ Write(w) \/ Complete(w) \/ Mark(w) PROVE TypeOK'
    <2>1. step[w] # "idle" /\ WithinBound(w) /\ Effect(w)
        BY <1>2 DEF Reserve, Write, Complete, Mark, WithinBound
    <2>2. record' \in [Operation -> Record] /\ made' \in [Operation -> 0..MaxMade]
        BY <2>1, EffectType
    <2> QED
        BY <1>0, <1>2, <2>2 DEF TypeOK, Reserve, Write, Complete, Mark, Go, Return, Step,
           Answer, Error, Faulty
  <1>3. ASSUME NEW w \in Worker, Fail(w) \/ Abandon(w) PROVE TypeOK'
    <2>1. step[w] # "idle" /\ WithinBound(w)
        BY <1>3 DEF Fail, Abandon, Remote
    <2>2. record' \in [Operation -> Record] /\ made' \in [Operation -> 0..MaxMade]
        BY <1>3, <2>1, EffectType DEF Fail, Abandon, store, TypeOK
    <2>3. op[w] \in Operation
        BY <2>1 DEF TypeOK
    <2>4. CASE Fail(w)
        BY <1>0, <2>2, <2>3, <2>4 DEF TypeOK, Fail, Raised, Step, Error, Faulty
    <2>5. CASE Abandon(w)
        BY <1>0, <2>2, <2>5 DEF TypeOK, Abandon, Over, Step, Answer, Error, Faulty
    <2> QED
        BY <1>3, <2>4, <2>5
  <1>4. ASSUME NEW o \in Operation, Lapse(o) PROVE TypeOK'
      BY <1>0, <1>4 DEF TypeOK, Lapse, call, Record
  <1> QED
      BY <1>1, <1>2, <1>3, <1>4 DEF Next, Execute, Quiet

\* Success is answered for a replayed record, which is completed, or after a commit.
LEMMA NextHonest == TypeOK /\ Honest /\ Next => Honest'
  <1> SUFFICES ASSUME TypeOK, Honest, Next PROVE Honest'
      OBVIOUS
  <1>1. ASSUME NEW w \in Worker, Quiet(w) PROVE Honest'
      BY <1>1 DEF TypeOK, Honest, Quiet, Call, RejectArguments, Collect, Over, Get,
         ReserveRefused, Prepare, Refuse, Begin, Conflict, Reread, Go, Return, Raise, store,
         Replayable
  <1>2. ASSUME NEW w \in Worker, Reserve(w) \/ Write(w) \/ Complete(w) \/ Mark(w) PROVE Honest'
    <2> op[w] \in Operation
        BY <1>2 DEF TypeOK, Reserve, Write, Complete, Mark
    <2>1. CASE Reserve(w)
        BY <2>1 DEF TypeOK, Honest, Reserve, Effect, Stored, Free, Go
    <2>2. CASE Write(w)
        BY <2>2 DEF TypeOK, Honest, Write, Effect, Stored, Go
    <2>3. CASE Complete(w)
        BY <2>3 DEF TypeOK, Honest, Complete, Effect, Stored, Return
    <2>4. CASE Mark(w)
        BY <2>4 DEF TypeOK, Honest, Mark, Effect, Stored, Return, Error, Faulty
    <2> QED
        BY <1>2, <2>1, <2>2, <2>3, <2>4
  <1>3. ASSUME NEW w \in Worker, Fail(w) \/ Abandon(w) PROVE Honest'
    <2> op[w] \in Operation
        BY <1>3 DEF TypeOK, Fail, Abandon, Remote
    <2>1. \A o \in Operation : record'[o] = "completed" => made'[o] > 0
        BY <1>3 DEF TypeOK, Honest, Fail, Abandon, Effect, Stored, Free, store
    <2>2. \A o \in Operation : made'[o] >= made[o]
        BY <1>3 DEF TypeOK, Fail, Abandon, Effect, store
    <2>3. \A v \in Worker : op[v] \in Operation => made'[op[v]] >= made[op[v]]
        BY <2>2
    <2>4. \A v \in Worker :
             step'[v] \in {"reread", "complete"} => op'[v] = op[v] /\ step'[v] = step[v]
        BY <1>3 DEF TypeOK, Fail, Abandon, Over
    <2>5. \A v \in Worker :
             answer'[v] \in {"success", "replayed"} => op'[v] = op[v] /\ answer'[v] = answer[v]
        BY <1>3 DEF TypeOK, Fail, Abandon, Over
    <2>6. made' \in [Operation -> Nat] /\ made \in [Operation -> Nat]
      <3>1. step[w] # "idle" /\ WithinBound(w)
          BY <1>3 DEF Fail, Abandon, Remote
      <3> QED
          BY <1>3, <3>1, EffectType, OperationAssumption DEF TypeOK, Fail, Abandon, store
    <2>7. \A v \in Worker : step'[v] \in {"reread", "complete"} => made'[op'[v]] > 0
        BY <2>3, <2>4, <2>6 DEF TypeOK, Honest
    <2>8. \A v \in Worker : answer'[v] \in {"success", "replayed"} =>
             op'[v] \in Operation /\ made'[op'[v]] > 0
        BY <2>3, <2>5, <2>6 DEF TypeOK, Honest
    <2> QED
        BY <2>1, <2>7, <2>8 DEF Honest
  <1>4. ASSUME NEW o \in Operation, Lapse(o) PROVE Honest'
      BY <1>4 DEF TypeOK, Honest, Lapse, call
  <1> QED
      BY <1>1, <1>2, <1>3, <1>4 DEF Next, Execute, Quiet

\* An operation whose record was not lost is held by one handler at a time, and only a
\* handler that holds it commits it, once.
LEMMA NextOnce == IInv /\ Next => OnceOnly'
  <1> SUFFICES ASSUME IInv, Next, NEW o \in Operation, o \notin forgotten'
               PROVE  /\ made'[o] <= 1
                      /\ made'[o] > 0 => Kept(o)'
                      /\ \A w \in Worker : Holds(w, o)' => Kept(o)'
                      /\ \A v, w \in Worker : Holds(v, o)' /\ Holds(w, o)' => v = w
                      /\ \A w \in Worker :
                            Holds(w, o)' /\ step'[w] \in {"prepare", "begin", "write"} =>
                                made'[o] = 0
      BY DEF OnceOnly
  <1> DEFINE Alone ==
        /\ made'[o] <= 1
        /\ \A v, w \in Worker : Holds(v, o)' /\ Holds(w, o)' => v = w
        /\ \A w \in Worker :
              Holds(w, o)' /\ step'[w] \in {"prepare", "begin", "write"} => made'[o] = 0
  <1>0. TypeOK /\ TypeOK'
      BY NextType DEF IInv
  <1>1. /\ o \notin forgotten
        /\ made'[o] > 0 => Kept(o)'
        /\ \A w \in Worker : Holds(w, o)' => Kept(o)'
    <2>1. record'[o] \in Record
        BY <1>0 DEF TypeOK
    <2> QED
        BY <1>0, <2>1 DEF Next, Forget, Kept, Record
  <1>2. /\ made[o] \in Nat /\ made[o] <= 1
        /\ made[o] > 0 => Kept(o)
        /\ \A w \in Worker : Holds(w, o) => Kept(o)
        /\ \A v, w \in Worker : Holds(v, o) /\ Holds(w, o) => v = w
        /\ \A w \in Worker :
              Holds(w, o) /\ step[w] \in {"prepare", "begin", "write"} => made[o] = 0
      BY <1>0, <1>1, OperationAssumption DEF IInv, OnceOnly, TypeOK
  <1>3. ASSUME NEW w \in Worker, Quiet(w) PROVE Alone
    <2>1. made' = made
        BY <1>3 DEF Quiet, Call, RejectArguments, Collect, Over, Get, ReserveRefused,
           Prepare, Refuse, Begin, Conflict, Reread, store
    <2>2. \A v \in Worker : Holds(v, o)' =>
             /\ Holds(v, o)
             /\ step'[v] \in {"prepare", "begin", "write"} =>
                   step[v] \in {"prepare", "begin", "write"}
        BY <1>0, <1>3 DEF TypeOK, Holds, Holding, Quiet, Call, RejectArguments, Collect, Over,
           Get, ReserveRefused, Prepare, Refuse, Begin, Conflict, Reread, Go, Return, Raise
    <2> QED
        BY <1>2, <2>1, <2>2
  <1>4. ASSUME NEW w \in Worker, Reserve(w) PROVE Alone
    <2>1. made' = made /\ op' = op /\ step' = [step EXCEPT ![w] = "prepare"]
        BY <1>4 DEF Reserve, Effect, Go
    <2>2. \A v \in Worker : v # w => (Holds(v, o)' <=> Holds(v, o)) /\ step'[v] = step[v]
        BY <1>0, <2>1 DEF TypeOK, Holds
    <2>3. op[w] = o => made[o] = 0 /\ \A v \in Worker : ~Holds(v, o)
        BY <1>2, <1>4 DEF Reserve, Free, Kept
    <2>4. Holds(w, o)' => op[w] = o
        BY <2>1 DEF Holds
    <2> QED
        BY <1>2, <2>1, <2>2, <2>3, <2>4
  <1>5. ASSUME NEW w \in Worker, Write(w) PROVE Alone
    <2>1. op' = op /\ step' = [step EXCEPT ![w] = "reread"]
        BY <1>5 DEF Write, Go
    <2>2. \A v \in Worker : (Holds(v, o)' <=> Holds(v, o)) /\ (v # w => step'[v] = step[v])
        BY <1>0, <1>5, <2>1 DEF TypeOK, Holds, Holding, Write
    <2>3. op[w] = o => made[o] = 0 /\ made'[o] = 1 /\ Holds(w, o)
        BY <1>0, <1>2, <1>5 DEF TypeOK, Write, Effect, Holds, Holding
    <2>4. op[w] # o => made'[o] = made[o]
        BY <1>0, <1>5 DEF TypeOK, Write, Effect
    <2>5. step'[w] = "reread"
        BY <1>0, <2>1 DEF TypeOK
    <2> QED
        BY <1>2, <2>2, <2>3, <2>4, <2>5
  <1>6. ASSUME NEW w \in Worker, Complete(w) \/ Mark(w) PROVE Alone
    <2>1. op' = op /\ step' = [step EXCEPT ![w] = "idle"] /\ made' = made
        BY <1>6 DEF Complete, Mark, Effect, Return
    <2>2. \A v \in Worker : Holds(v, o)' => Holds(v, o) /\ step'[v] = step[v]
        BY <1>0, <2>1 DEF TypeOK, Holds, Holding
    <2> QED
        BY <1>2, <2>1, <2>2
  <1>7. ASSUME NEW w \in Worker, Fail(w) \/ Abandon(w) PROVE Alone
    <2>1. step'[w] \in {"mark", "idle"}
        BY <1>0, <1>7 DEF TypeOK, Fail, Abandon
    <2>2. \A v \in Worker : v # w => step'[v] = step[v] /\ op'[v] = op[v]
        BY <1>0, <1>7 DEF TypeOK, Fail, Abandon, Over
    <2>3. \A v \in Worker : Holds(v, o)' => v # w /\ Holds(v, o) /\ step'[v] = step[v]
        BY <2>1, <2>2 DEF Holds, Holding
    <2>4. \/ made'[o] = made[o]
          \/ made[o] = 0 /\ made'[o] = 1 /\ Holds(w, o)
        BY <1>0, <1>2, <1>7 DEF TypeOK, Fail, Abandon, Effect, store, Holds, Holding
    <2> QED
        BY <1>2, <2>3, <2>4
  <1>8. ASSUME NEW q \in Operation, Lapse(q) PROVE Alone
      BY <1>2, <1>8 DEF Lapse, call, Holds
  <1>9. Alone
      BY <1>3, <1>4, <1>5, <1>6, <1>7, <1>8 DEF Next, Execute, Quiet
  <1> QED
      BY <1>1, <1>9

\* The inductive invariant holds in every behaviour.
THEOREM DispatchInvariance == Spec => []IInv
  <1>1. Init => IInv
      BY OperationAssumption DEF Init, IInv, TypeOK, OnceOnly, Honest, Kept, Holds, Holding,
         Record, Step, Answer, Error, Faulty
  <1>2. IInv /\ [Next]_vars => IInv'
    <2>1. IInv /\ Next => IInv'
        BY NextType, NextHonest, NextOnce DEF IInv
    <2>2. IInv /\ UNCHANGED vars => IInv'
        BY DEF IInv, TypeOK, OnceOnly, Honest, Kept, Holds, vars, store, call
    <2> QED
        BY <2>1, <2>2
  <1> QED
      BY <1>1, <1>2, PTL DEF Spec

\* For any number of handlers and operations: a confirmed operation commits once, unless its
\* idempotency record was lost while it was under way or after it had committed.
THEOREM DispatchAppliesOnce == Spec => []AppliedOnce
  <1>1. IInv => AppliedOnce
      BY OperationAssumption DEF IInv, TypeOK, OnceOnly, AppliedOnce
  <1> QED
      BY <1>1, DispatchInvariance, PTL

\* The dispatcher answers success, replayed or not, only for an operation that committed.
THEOREM DispatchIsHonest == Spec => []SuccessIsCommitted
  <1>1. IInv => SuccessIsCommitted
      BY DEF IInv, Honest, SuccessIsCommitted
  <1> QED
      BY <1>1, DispatchInvariance, PTL
===============================================================================
