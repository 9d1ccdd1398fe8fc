----------------------------- MODULE ToolDispatch -----------------------------
(***************************************************************************)
(* conversation/tools/dispatcher.py, execute, for the mutation tools: the  *)
(* idempotency records it keeps in Redis around the reservation gateway of *)
(* conversation/dependencies.py.                                           *)
(*                                                                         *)
(* Every await is a step of its own.  A remote call may fail before or     *)
(* after it took effect, and a call of execute may be cut off anywhere, by *)
(* a crash or by the cancellation of its task, which no except clause of   *)
(* execute catches.                                                        *)
(***************************************************************************)
EXTENDS Naturals

CONSTANTS
    Worker,       \* request handlers, in any process, each with its own session
    Operation,    \* idempotency keys: conversation, tool and canonical arguments
    NoOperation,  \* a handler that has not called execute yet
    Lookups,      \* modifications and cancellations: they read the reservation first
    MaxMade       \* bound on the times an operation commits

ASSUME OperationAssumption ==
    /\ NoOperation \notin Operation
    /\ Lookups \subseteq Operation
    /\ MaxMade \in Nat

VARIABLES
    record,    \* status of the idempotency record of each operation
    made,      \* times each operation committed in PostgreSQL
    step,      \* next await of each handler inside execute
    op,        \* operation the handler executes
    begun,     \* handlers whose session has a transaction open
    error,     \* what the except clause will answer
    answer,    \* status of the ToolResult
    hit,       \* history: handlers whose call met a fault of Redis or PostgreSQL
    forgotten  \* history: operations under way or committed whose record was lost

store   == <<record, made>>
call    == <<step, op, begun, error, answer, hit>>
vars    == <<store, call, forgotten>>
-------------------------------------------------------------------------------
Record == {"missing", "reserved", "completed", "failed"}
Step   == {"idle", "get", "reserve", "prepare", "begin", "write", "reread", "complete", "mark"}
Faulty == {"database_error", "unavailable"}    \* DatabaseOperationError, any other exception
Error  == {"none", "domain_error", "validation_error"} \cup Faulty
Answer == Error \cup {"success", "replayed", "duplicate"}

TypeOK ==
    /\ record \in [Operation -> Record]
    /\ made \in [Operation -> 0..MaxMade]
    /\ step \in [Worker -> Step]
    /\ op \in [Worker -> Operation \cup {NoOperation}]
    /\ \A w \in Worker : step[w] # "idle" => op[w] \in Operation
    /\ begun \in SUBSET Worker
    /\ error \in [Worker -> Error]
    /\ answer \in [Worker -> Answer]
    /\ hit \in SUBSET Worker
    /\ forgotten \in SUBSET Operation

Init ==
    /\ record = [o \in Operation |-> "missing"]
    /\ made = [o \in Operation |-> 0]
    /\ step = [w \in Worker |-> "idle"]
    /\ op = [w \in Worker |-> NoOperation]
    /\ begun = {}
    /\ error = [w \in Worker |-> "none"]
    /\ answer = [w \in Worker |-> "none"]
    /\ hit = {}
    /\ forgotten = {}

\* Between its successful reserve and its complete, a handler holds the operation.
Holding == {"prepare", "begin", "write", "reread", "complete"}
Holds(w, o) == op[w] = o /\ step[w] \in Holding
-------------------------------------------------------------------------------
(* Effects of the remote calls *)

\* Seeded defect: SET without NX.
MutSetAnyway(r) == r \in Record

\* SET NX succeeds only where there is no record.
Free(r) == r = "missing"

\* What the call at step s makes of a record r: SET NX, or an unconditional SET.
Stored(s, r) ==
    CASE s = "reserve" /\ Free(r) -> "reserved"
      [] s = "complete"           -> "completed"
      [] s = "mark"               -> "failed"
      [] OTHER                    -> r

Effect(w) ==
    /\ record' = [record EXCEPT ![op[w]] = Stored(step[w], @)]
    /\ made' = IF step[w] = "write" THEN [made EXCEPT ![op[w]] = @ + 1] ELSE made

\* There is room below the bound for the commit that the call at this step may make.
WithinBound(w) == step[w] = "write" => made[op[w]] < MaxMade

Go(w, s) ==
    /\ step' = [step EXCEPT ![w] = s]
    /\ UNCHANGED <<op, begun, error, answer, hit>>

Return(w, a) ==
    /\ step' = [step EXCEPT ![w] = "idle"]
    /\ answer' = [answer EXCEPT ![w] = a]
    /\ UNCHANGED <<op, begun, error, hit>>

Raise(w, e) ==
    /\ step' = [step EXCEPT ![w] = "mark"]
    /\ error' = [error EXCEPT ![w] = e]
    /\ UNCHANGED <<op, begun, answer, hit>>

\* The call of execute is over, and the session is closed with the request.
Over(w) ==
    /\ op' = [op EXCEPT ![w] = NoOperation]
    /\ begun' = begun \ {w}
    /\ error' = [error EXCEPT ![w] = "none"]
    /\ answer' = [answer EXCEPT ![w] = "none"]
    /\ hit' = hit \ {w}
-------------------------------------------------------------------------------
(* Steps of execute *)

\* A confirmed operation with valid arguments arrives; over the phone the request has
\* already read its call row in the same session, which opened a transaction.
Call(w, o, phone) ==
    /\ step[w] = "idle"
    /\ answer[w] = "none"
    /\ step' = [step EXCEPT ![w] = "get"]
    /\ op' = [op EXCEPT ![w] = o]
    /\ begun' = IF phone THEN begun \cup {w} ELSE begun
    /\ UNCHANGED <<store, error, answer, hit>>

\* The arguments do not fit the tool's schema, or the party is too large: no key is made.
RejectArguments(w) ==
    /\ step[w] = "idle"
    /\ answer[w] = "none"
    /\ answer' = [answer EXCEPT ![w] = "validation_error"]
    /\ UNCHANGED <<store, step, op, begun, error, hit>>

\* The caller takes the answer.
Collect(w) ==
    /\ step[w] = "idle"
    /\ answer[w] # "none"
    /\ Over(w)
    /\ UNCHANGED <<store, step>>

\* Seeded defect: any record is replayed, whatever its status.
MutAnyRecord(r) == r # "missing"

Replayable(r) == r = "completed"

Get(w) ==
    /\ step[w] = "get"
    /\ IF Replayable(record[op[w]]) THEN Return(w, "replayed") ELSE Go(w, "reserve")
    /\ UNCHANGED store

Reserve(w) ==
    /\ step[w] = "reserve"
    /\ Free(record[op[w]])
    /\ Effect(w)
    /\ Go(w, "prepare")

ReserveRefused(w) ==
    /\ step[w] = "reserve"
    /\ ~Free(record[op[w]])
    /\ Return(w, "duplicate")
    /\ UNCHANGED store

\* The gateway builds the request; to modify or cancel it first reads the reservation,
\* which opens a transaction in the session.
Prepare(w) ==
    /\ step[w] = "prepare"
    /\ step' = [step EXCEPT ![w] = "begin"]
    /\ begun' = IF op[w] \in Lookups THEN begun \cup {w} ELSE begun
    /\ UNCHANGED <<store, op, error, answer, hit>>

\* A bad date or party, or no such reservation.
Refuse(w) ==
    /\ step[w] = "prepare"
    /\ \E e \in {"domain_error", "validation_error"} : Raise(w, e)
    /\ UNCHANGED store

\* async with session.begin(): SQLAlchemy refuses when a transaction is open, and the
\* service makes a DatabaseOperationError of that.
Begin(w) ==
    /\ step[w] = "begin"
    /\ IF w \in begun THEN Raise(w, "database_error") ELSE Go(w, "write")
    /\ UNCHANGED store

\* The transaction of ReservationService commits.
Write(w) ==
    /\ step[w] = "write"
    /\ WithinBound(w)
    /\ Effect(w)
    /\ Go(w, "reread")

\* No table, a cancelled reservation: the transaction is rolled back.
Conflict(w) ==
    /\ step[w] = "write"
    /\ Raise(w, "domain_error")
    /\ UNCHANGED store

Reread(w) ==
    /\ step[w] = "reread"
    /\ Go(w, "complete")
    /\ UNCHANGED store

Complete(w) ==
    /\ step[w] = "complete"
    /\ Effect(w)
    /\ Return(w, "success")

\* An except clause stores the failed record and answers.
Mark(w) ==
    /\ step[w] = "mark"
    /\ Effect(w)
    /\ Return(w, error[w])
-------------------------------------------------------------------------------
(* Faults *)

\* Steps with a remote call whose exception the except clauses catch.
Remote(w) ==
    \/ step[w] \in {"get", "reserve", "write", "reread", "complete"}
    \/ step[w] = "prepare" /\ op[w] \in Lookups

\* Only inside the transaction is an SQLAlchemyError made a DatabaseOperationError.
Raised(s) == IF s \in {"write", "reread"} THEN Faulty ELSE {"unavailable"}

\* Redis or PostgreSQL raises, after the call took effect or not.
Fail(w) ==
    /\ Remote(w)
    /\ WithinBound(w)
    /\ Effect(w) \/ UNCHANGED store
    /\ step' = [step EXCEPT ![w] = "mark"]
    /\ \E e \in Raised(step[w]) : error' = [error EXCEPT ![w] = e]
    /\ hit' = hit \cup {w}
    /\ UNCHANGED <<op, begun, answer>>

\* The process dies, the task is cancelled, or storing the failed record raises.
Abandon(w) ==
    /\ step[w] # "idle"
    /\ WithinBound(w)
    /\ Effect(w) \/ UNCHANGED store
    /\ step' = [step EXCEPT ![w] = "idle"]
    /\ Over(w)

\* A record outlives its time: 300 s when failed, a day otherwise.
Lapse(o) ==
    /\ record[o] # "missing"
    /\ record' = [record EXCEPT ![o] = "missing"]
    /\ UNCHANGED <<made, call>>
-------------------------------------------------------------------------------
Execute(w) ==
    \/ Get(w) \/ Reserve(w) \/ ReserveRefused(w) \/ Prepare(w) \/ Refuse(w) \/ Begin(w)
    \/ Write(w) \/ Conflict(w) \/ Reread(w) \/ Complete(w) \/ Mark(w)

\* History: a record no longer says of an operation that it is under way or done.
Forget ==
    forgotten' = forgotten \cup
        {o \in Operation : /\ record'[o] \in {"missing", "failed"}
                           /\ made'[o] > 0 \/ \E w \in Worker : Holds(w, o)'}

Next ==
    /\ \/ \E w \in Worker, o \in Operation, phone \in BOOLEAN : Call(w, o, phone)
       \/ \E w \in Worker :
             RejectArguments(w) \/ Collect(w) \/ Execute(w) \/ Fail(w) \/ Abandon(w)
       \/ \E o \in Operation : Lapse(o)
    /\ Forget

Spec == Init /\ [][Next]_vars
-------------------------------------------------------------------------------
(* Properties *)

\* However often and however concurrently an operation is executed, it commits once,
\* unless its record was lost: it expired, or some except clause marked it failed,
\* while the operation was under way or after it had committed.
AppliedOnce ==
    \A o \in Operation : made[o] > 1 => o \in forgotten

\* The assistant is told of success only for an operation that did commit
\* (docs/langgraph-design.md: "Never say a reservation is confirmed, changed or
\* cancelled unless a successful committed tool result says so").
SuccessIsCommitted ==
    \A w \in Worker : answer[w] \in {"success", "replayed"} => made[op[w]] > 0

\* A technical error is answered only when Redis or PostgreSQL failed (README.md:285: "Only an
\* explicit confirmation invokes the deterministic reservation tool; TwiML then speaks the
\* committed result"). The code breaks this: a lookup, or a phone request's own read, leaves
\* a transaction open in the session, and session.begin() refuses to start another.
UnavailableOnlyOnFault ==
    \A w \in Worker : answer[w] \in Faulty => w \in hit

\* A record becomes failed only when the operation did not take effect, as the state diagram of
\* docs/stage-8a-production-readiness.md draws it ("Reserved --> Failed: operation fails", and
\* of a completed one "Completed --> Completed: duplicate returns saved result").  The code
\* breaks this: fail() overwrites whatever is there, and the except clauses that call it also
\* answer a commit whose reply is lost, a read after it that raises, a complete() that raises,
\* and a duplicate's own errors.  The operation is then free to be executed again.
FailedDidNotApply ==
    [][\A o \in Operation :
          record[o] # "failed" /\ record'[o] = "failed" => made'[o] = 0]_<<record, made>>
===============================================================================
