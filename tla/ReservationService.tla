-------------------------- MODULE ReservationService --------------------------
(***************************************************************************)
(* db/services/reservation_service.py over its repositories: the           *)
(* transactions with which API and conversation sessions create, update    *)
(* and cancel reservations, one SQL statement at a time.                   *)
(*                                                                         *)
(* PostgreSQL runs them at READ COMMITTED: a plain SELECT sees the rows    *)
(* committed so far, SELECT ... FOR UPDATE and UPDATE wait for the row     *)
(* lock and then see the newest committed row, locks are kept until the    *)
(* transaction ends, and what a transaction flushed is seen by nobody      *)
(* else before its commit.                                                 *)
(***************************************************************************)
EXTENDS Naturals, FiniteSets

CONSTANTS
    Client,          \* concurrent request handlers, each with its own session
    NoClient,        \* owner of a free row lock
    Reservation,     \* primary keys a creation may draw
    NoCode,          \* a cancellation without a confirmation code
    NumTables,       \* tables in the order (capacity, table_number)
    Capacity,        \* seats of each table
    MaxParty,        \* settings.max_party_size
    Duration,        \* settings.default_reservation_duration_minutes
    MaxNow,          \* bound on the clock
    CreateRequests,  \* bodies of POST /reservations
    UpdateRequests   \* bodies of PATCH /reservations/{id}

Table   == 1..NumTables
NoTable == 0

\* The schedule a request asks for; 0 stands for None.
Schedule == [party: Nat, start: Nat, end: Nat]

\* An update also says which schedule keys the body holds: a key may be present with None.
ScheduleKey == {"party", "start", "end"}
UpdateBody  == [keys: SUBSET ScheduleKey, party: Nat, start: Nat, end: Nat]

ASSUME ClientAssumption == NoClient \notin Client
ASSUME TableAssumption ==
    /\ NumTables \in Nat
    /\ Capacity \in [Table -> Nat]
    /\ \A t, u \in Table : t <= u => Capacity[t] <= Capacity[u]
ASSUME RequestAssumption ==
    /\ NoCode \notin Reservation
    /\ MaxParty \in Nat
    /\ Duration \in Nat \ {0}
    /\ MaxNow \in Nat
    /\ CreateRequests \subseteq Schedule
    /\ UpdateRequests \subseteq UpdateBody
    /\ \A d \in UpdateRequests :
          /\ "party" \notin d.keys => d.party = 0
          /\ "start" \notin d.keys => d.start = 0
          /\ "end" \notin d.keys => d.end = 0

VARIABLES
    now,        \* the clock, read by datetime.now(UTC)
    tables,     \* committed restaurant_tables rows
    rsv,        \* committed reservations rows
    rowLock,    \* holder of the lock on each reservations row
    tableLock,  \* holder of the lock on each restaurant_tables row
    pc,         \* next statement of each handler
    req,        \* the request each handler serves
    want,       \* party_size, start and end the handler works with
    cand,       \* find_candidates' result
    todo,       \* candidates still to lock or to check for overlap
    avail,      \* candidates found free so far
    pick,       \* the table selected
    stamp,      \* cancelled_at the handler is about to write
    reply       \* outcome of the handler's last request

shared  == <<now, tables, rsv>>
locks   == <<rowLock, tableLock>>
session == <<pc, req, want, cand, todo, avail, pick, stamp, reply>>
vars    == <<shared, locks, session>>
-------------------------------------------------------------------------------
Kind    == {"none", "create", "update", "cancel"}
Point   == {"idle", "row", "search", "flush", "commit", "reread"}
Outcome == {"none", "ok", "conflict", "invalid", "invalid_state", "not_found", "failed"}
Status  == {"none", "confirmed", "cancelled"}

Row == [status: Status, table: Table \cup {NoTable}, party: Nat, start: Nat, end: Nat,
        cancelledAt: Nat]

Request == [kind: Kind, id: Reservation, code: Reservation \cup {NoCode}, body: UpdateBody]
NoRequest == [kind |-> "none"]

NoBody   == [keys |-> {}, party |-> 0, start |-> 0, end |-> 0]
NoWant   == [party |-> 0, start |-> 0, end |-> 0]
Absent   == [status |-> "none", table |-> NoTable, party |-> 0, start |-> 0, end |-> 0,
             cancelledAt |-> 0]

TypeOK ==
    /\ now \in 0..MaxNow
    /\ tables \in SUBSET Table
    /\ rsv \in [Reservation -> Row]
    /\ rowLock \in [Reservation -> Client \cup {NoClient}]
    /\ tableLock \in [Table -> Client \cup {NoClient}]
    /\ pc \in [Client -> Point]
    /\ req \in [Client -> Request \cup {NoRequest}]
    /\ \A c \in Client : pc[c] # "idle" => req[c] \in Request
    /\ want \in [Client -> Schedule]
    /\ cand \in [Client -> SUBSET Table]
    /\ todo \in [Client -> SUBSET Table]
    /\ avail \in [Client -> SUBSET Table]
    /\ pick \in [Client -> Table \cup {NoTable}]
    /\ stamp \in [Client -> 0..MaxNow]
    /\ reply \in [Client -> Outcome]

Init ==
    /\ now = 0
    /\ tables = {}
    /\ rsv = [r \in Reservation |-> Absent]
    /\ rowLock = [r \in Reservation |-> NoClient]
    /\ tableLock = [t \in Table |-> NoClient]
    /\ pc = [c \in Client |-> "idle"]
    /\ req = [c \in Client |-> NoRequest]
    /\ want = [c \in Client |-> NoWant]
    /\ cand = [c \in Client |-> {}]
    /\ todo = [c \in Client |-> {}]
    /\ avail = [c \in Client |-> {}]
    /\ pick = [c \in Client |-> NoTable]
    /\ stamp = [c \in Client |-> 0]
    /\ reply = [c \in Client |-> "none"]
-------------------------------------------------------------------------------
(* Queries *)

Blocking == {"confirmed"}    \* BLOCKING_STATUSES; nothing ever sets "pending"

\* Seeded defect: only a reservation that starts inside [start, end) counts.
MutStartsInside(t, start, end, exclude) ==
    \E q \in Reservation \ {exclude} :
        /\ rsv[q].table = t
        /\ rsv[q].status \in Blocking
        /\ start <= rsv[q].start
        /\ rsv[q].start < end

\* ReservationRepository.has_overlap on the committed rows: half-open intervals.
HasOverlap(t, start, end, exclude) ==
    \E q \in Reservation \ {exclude} :
        /\ rsv[q].table = t
        /\ rsv[q].status \in Blocking
        /\ rsv[q].start < end
        /\ rsv[q].end > start

\* TableRepository.find_candidates: the rows, and so the lock order, are ascending.
FindCandidates(party) == {t \in tables : Capacity[t] >= party}

IsFirst(t, S) == t \in S /\ \A u \in S : t <= u

\* Seeded defect: find_candidates without FOR UPDATE.
MutNoTableLocks(c) == TRUE

\* SELECT ... FOR UPDATE has locked every candidate.
HoldsCandidates(c) == \A t \in cand[c] : tableLock[t] = c

-------------------------------------------------------------------------------
(* Starting and ending a request *)

\* uuid4 draws a key nobody uses.
Fresh(r) ==
    /\ rsv[r].status = "none"
    /\ \A d \in Client : pc[d] # "idle" => ~(req[d].kind = "create" /\ req[d].id = r)

Receive(c, request, point) ==
    /\ req' = [req EXCEPT ![c] = request]
    /\ pc' = [pc EXCEPT ![c] = point]
    /\ reply' = [reply EXCEPT ![c] = "none"]

\* The find_candidates statement starts: its rows are fixed, none is locked yet.
StartSearch(c, schedule) ==
    LET rows == FindCandidates(schedule.party)
    IN  /\ want' = [want EXCEPT ![c] = schedule]
        /\ cand' = [cand EXCEPT ![c] = rows]
        /\ todo' = [todo EXCEPT ![c] = rows]

\* COMMIT and ROLLBACK release the transaction's row locks.
ReleaseLocks(c) ==
    /\ rowLock' = [r \in Reservation |-> IF rowLock[r] = c THEN NoClient ELSE rowLock[r]]
    /\ tableLock' = [t \in Table |-> IF tableLock[t] = c THEN NoClient ELSE tableLock[t]]

ForgetSearch(c) ==
    /\ want' = [want EXCEPT ![c] = NoWant]
    /\ cand' = [cand EXCEPT ![c] = {}]
    /\ todo' = [todo EXCEPT ![c] = {}]
    /\ avail' = [avail EXCEPT ![c] = {}]
    /\ pick' = [pick EXCEPT ![c] = NoTable]
    /\ stamp' = [stamp EXCEPT ![c] = 0]

\* The handler answers, and what it has not committed is rolled back.
Finish(c, outcome) ==
    /\ pc' = [pc EXCEPT ![c] = "idle"]
    /\ req' = [req EXCEPT ![c] = NoRequest]
    /\ reply' = [reply EXCEPT ![c] = outcome]
    /\ ForgetSearch(c)
    /\ ReleaseLocks(c)

-------------------------------------------------------------------------------
(* create *)

\* ReservationCreate's validators, run before the handler.
AcceptedCreate(d) == d.party >= 1 /\ d.start > now /\ (d.end = 0 \/ d.end > d.start)

Create(c, r, d) ==
    LET schedule == [d EXCEPT !.end = IF d.end = 0 THEN d.start + Duration ELSE d.end]
        request  == [kind |-> "create", id |-> r, code |-> NoCode, body |-> NoBody]
    IN  /\ pc[c] = "idle"
        /\ Fresh(r)
        /\ AcceptedCreate(d)
        /\ d.party <= MaxParty
        /\ Receive(c, request, "search")
        /\ StartSearch(c, schedule)
        /\ UNCHANGED <<shared, locks, avail, pick, stamp>>

\* validate_party_size fails before a transaction begins.
RejectCreate(c, d) ==
    /\ pc[c] = "idle"
    /\ AcceptedCreate(d)
    /\ d.party > MaxParty
    /\ reply' = [reply EXCEPT ![c] = "invalid"]
    /\ UNCHANGED <<shared, locks, pc, req, want, cand, todo, avail, pick, stamp>>

-------------------------------------------------------------------------------
(* update and cancel: reading the reservation *)

\* ReservationUpdate's validator.
AcceptedUpdate(d) == d.start = 0 \/ d.end = 0 \/ d.end > d.start

Update(c, r, d) ==
    /\ pc[c] = "idle"
    /\ AcceptedUpdate(d)
    /\ Receive(c, [kind |-> "update", id |-> r, code |-> NoCode, body |-> d], "row")
    /\ UNCHANGED <<shared, locks, want, cand, todo, avail, pick, stamp>>

Cancel(c, r, code) ==
    /\ pc[c] = "idle"
    /\ Receive(c, [kind |-> "cancel", id |-> r, code |-> code, body |-> NoBody], "row")
    /\ UNCHANGED <<shared, locks, want, cand, todo, avail, pick, stamp>>

\* The schedule an update asks for, completed from the row it read.
Resolve(row, d) ==
    LET start == IF d.start # 0 THEN d.start ELSE row.start
    IN  [party |-> IF d.party # 0 THEN d.party ELSE row.party,
         start |-> start,
         end   |-> IF d.end # 0 THEN d.end ELSE start + (row.end - row.start)]

Acceptable(s) == s.party <= MaxParty /\ s.end > s.start /\ s.start > now

\* get_by_id found no row, or the code is another reservation's.
NotFound(c) ==
    /\ pc[c] = "row"
    /\ \/ req[c].code = NoCode /\ rsv[req[c].id].status = "none"
       \/ req[c].code # NoCode /\ (\/ req[c].code # req[c].id
                                   \/ rsv[req[c].code].status = "none")
    /\ Finish(c, "not_found")
    /\ UNCHANGED shared

\* get_by_id(lock=True) returned the row.
ReadsLocked(c, status) ==
    /\ pc[c] = "row"
    /\ req[c].code = NoCode
    /\ rsv[req[c].id].status = status
    /\ rowLock[req[c].id] = NoClient

\* Seeded defect: get_by_id without lock=True.
MutNoRowLock(c) == rowLock' = rowLock

HoldRow(c) == rowLock' = [rowLock EXCEPT ![req[c].id] = c]

UpdateCancelled(c) ==
    /\ req[c].kind = "update"
    /\ ReadsLocked(c, "cancelled")
    /\ Finish(c, "invalid_state")
    /\ UNCHANGED shared

\* No schedule key in the body: the table stays, nothing is checked.
UpdateDetails(c) ==
    /\ req[c].kind = "update"
    /\ req[c].body.keys = {}
    /\ ReadsLocked(c, "confirmed")
    /\ HoldRow(c)
    /\ pc' = [pc EXCEPT ![c] = "flush"]
    /\ UNCHANGED <<shared, tableLock, req, want, cand, todo, avail, pick, stamp, reply>>

UpdateSchedule(c) ==
    LET schedule == Resolve(rsv[req[c].id], req[c].body)
    IN  /\ req[c].kind = "update"
        /\ req[c].body.keys # {}
        /\ ReadsLocked(c, "confirmed")
        /\ Acceptable(schedule)
        /\ HoldRow(c)
        /\ StartSearch(c, schedule)
        /\ pc' = [pc EXCEPT ![c] = "search"]
        /\ UNCHANGED <<shared, tableLock, req, avail, pick, stamp, reply>>

RejectUpdate(c) ==
    /\ req[c].kind = "update"
    /\ req[c].body.keys # {}
    /\ ReadsLocked(c, "confirmed")
    /\ ~Acceptable(Resolve(rsv[req[c].id], req[c].body))
    /\ Finish(c, "invalid")
    /\ UNCHANGED shared

\* get_by_confirmation_code reads without a lock.
ReadsByCode(c, status) ==
    /\ pc[c] = "row"
    /\ req[c].code = req[c].id
    /\ rsv[req[c].id].status = status

CancelById(c) ==
    /\ req[c].kind = "cancel"
    /\ ReadsLocked(c, "confirmed")
    /\ HoldRow(c)
    /\ stamp' = [stamp EXCEPT ![c] = now]
    /\ pc' = [pc EXCEPT ![c] = "flush"]
    /\ UNCHANGED <<shared, tableLock, req, want, cand, todo, avail, pick, reply>>

CancelByCode(c) ==
    /\ ReadsByCode(c, "confirmed")
    /\ stamp' = [stamp EXCEPT ![c] = now]
    /\ pc' = [pc EXCEPT ![c] = "flush"]
    /\ UNCHANGED <<shared, locks, req, want, cand, todo, avail, pick, reply>>

\* The row read is cancelled already: nothing is written, the transaction commits.
CancelAgain(c) ==
    /\ req[c].kind = "cancel"
    /\ ReadsLocked(c, "cancelled") \/ ReadsByCode(c, "cancelled")
    /\ pc' = [pc EXCEPT ![c] = "reread"]
    /\ UNCHANGED <<shared, locks, req, want, cand, todo, avail, pick, stamp, reply>>

-------------------------------------------------------------------------------
(* _available_tables(lock=True) and the choice of a table *)

\* Seeded defect: find_candidates without ORDER BY.
MutLockAnyTable(c) ==
    /\ pc[c] = "search"
    /\ \E t \in cand[c] :
          /\ tableLock[t] = NoClient
          /\ tableLock' = [tableLock EXCEPT ![t] = c]
    /\ UNCHANGED <<shared, rowLock, session>>

\* FOR UPDATE locks the rows in the order of the result, waiting at each one.
LockTable(c) ==
    /\ pc[c] = "search"
    /\ \E t \in cand[c] :
          /\ IsFirst(t, {u \in cand[c] : tableLock[u] # c})
          /\ tableLock[t] = NoClient
          /\ tableLock' = [tableLock EXCEPT ![t] = c]
    /\ UNCHANGED <<shared, rowLock, session>>

\* One has_overlap statement.
CheckTable(c) ==
    /\ pc[c] = "search"
    /\ HoldsCandidates(c)
    /\ \E t \in Table :
          /\ IsFirst(t, todo[c])
          /\ todo' = [todo EXCEPT ![c] = @ \ {t}]
          /\ avail' = IF HasOverlap(t, want[c].start, want[c].end, req[c].id)
                      THEN avail
                      ELSE [avail EXCEPT ![c] = @ \cup {t}]
    /\ UNCHANGED <<shared, locks, pc, req, want, cand, pick, stamp, reply>>

\* Seeded defect: an update keeps its table without looking at the party.
MutKeepTable(c, t) ==
    IF req[c].kind = "update" THEN t = rsv[req[c].id].table ELSE IsFirst(t, avail[c])

\* An update keeps its table when that is free, everybody else takes available[0].
IsSelected(c, t) ==
    LET current == rsv[req[c].id].table
    IN  IF req[c].kind = "update" /\ current \in avail[c]
        THEN t = current
        ELSE IsFirst(t, avail[c])

Searched(c) == pc[c] = "search" /\ HoldsCandidates(c) /\ todo[c] = {}

SelectTable(c) ==
    /\ Searched(c)
    /\ \E t \in Table :
          /\ IsSelected(c, t)
          /\ pick' = [pick EXCEPT ![c] = t]
    /\ pc' = [pc EXCEPT ![c] = "flush"]
    /\ UNCHANGED <<shared, locks, req, want, cand, todo, avail, stamp, reply>>

Conflict(c) ==
    /\ Searched(c)
    /\ avail[c] = {}
    /\ Finish(c, "conflict")
    /\ UNCHANGED shared

-------------------------------------------------------------------------------
(* Writing *)

\* party_size present with None violates NOT NULL.
ViolatesNotNull(c) == "party" \in req[c].body.keys /\ req[c].body.party = 0

\* Seeded defect: the answer is given before the commit.
MutAnswerFirst(c) ==
    /\ pc[c] = "flush"
    /\ ~ViolatesNotNull(c)
    /\ rowLock[req[c].id] \in {NoClient, c}
    /\ HoldRow(c)
    /\ pc' = [pc EXCEPT ![c] = "reread"]
    /\ UNCHANGED <<shared, tableLock, req, want, cand, todo, avail, pick, stamp, reply>>

\* The INSERT or UPDATE statement; an UPDATE waits for the row's lock.
Flush(c) ==
    /\ pc[c] = "flush"
    /\ ~ViolatesNotNull(c)
    /\ rowLock[req[c].id] \in {NoClient, c}
    /\ HoldRow(c)
    /\ pc' = [pc EXCEPT ![c] = "commit"]
    /\ UNCHANGED <<shared, tableLock, req, want, cand, todo, avail, pick, stamp, reply>>

FlushFails(c) ==
    /\ pc[c] = "flush"
    /\ ViolatesNotNull(c)
    /\ Finish(c, "failed")
    /\ UNCHANGED shared

\* The row after the handler's statement: an UPDATE sets the changed columns only.
Written(c) ==
    LET row == rsv[req[c].id]
    IN  CASE req[c].kind = "cancel" ->
               [row EXCEPT !.status = "cancelled", !.cancelledAt = stamp[c]]
          [] req[c].kind = "create" ->
               [Absent EXCEPT !.status = "confirmed", !.table = pick[c],
                              !.party = want[c].party,
                              !.start = want[c].start, !.end = want[c].end]
          [] req[c].kind = "update" /\ req[c].body.keys # {} ->
               [row EXCEPT !.table = pick[c], !.party = want[c].party,
                           !.start = want[c].start, !.end = want[c].end]
          [] OTHER -> row

\* Seeded defect: the handler forgets which reservation it has to read back.
MutForgetRequest(c) ==
    /\ pc[c] = "commit"
    /\ rsv' = [rsv EXCEPT ![req[c].id] = Written(c)]
    /\ pc' = [pc EXCEPT ![c] = "reread"]
    /\ req' = [req EXCEPT ![c] = NoRequest]
    /\ ForgetSearch(c)
    /\ ReleaseLocks(c)
    /\ UNCHANGED <<now, tables, reply>>

Commit(c) ==
    /\ pc[c] = "commit"
    /\ rsv' = [rsv EXCEPT ![req[c].id] = Written(c)]
    /\ pc' = [pc EXCEPT ![c] = "reread"]
    /\ ForgetSearch(c)
    /\ ReleaseLocks(c)
    /\ UNCHANGED <<now, tables, req, reply>>

\* get_by_id after the commit; the row is always there.
Reread(c) ==
    /\ pc[c] = "reread"
    /\ Finish(c, "ok")
    /\ UNCHANGED shared

\* A statement or the connection fails, or the handler is cancelled or killed: the
\* caller sees an error, even when the commit has already happened.
Fail(c) ==
    /\ pc[c] # "idle"
    /\ Finish(c, "failed")
    /\ UNCHANGED shared

-------------------------------------------------------------------------------
(* TableService.create; the row's table_number is unique. *)
AddTable(t) ==
    /\ t \notin tables
    /\ tables' = tables \cup {t}
    /\ UNCHANGED <<now, rsv, locks, session>>

Tick ==
    /\ now < MaxNow
    /\ now' = now + 1
    /\ UNCHANGED <<tables, rsv, locks, session>>

Arrive(c) ==
    \/ \E d \in CreateRequests : RejectCreate(c, d) \/ \E r \in Reservation : Create(c, r, d)
    \/ \E r \in Reservation, d \in UpdateRequests : Update(c, r, d)
    \/ \E r \in Reservation, code \in Reservation \cup {NoCode} : Cancel(c, r, code)

ReadRow(c) ==
    \/ NotFound(c)
    \/ UpdateCancelled(c) \/ UpdateDetails(c) \/ UpdateSchedule(c) \/ RejectUpdate(c)
    \/ CancelById(c) \/ CancelByCode(c) \/ CancelAgain(c)

\* What a handler does without a failure.
Step(c) ==
    \/ ReadRow(c)
    \/ LockTable(c) \/ CheckTable(c) \/ SelectTable(c) \/ Conflict(c)
    \/ Flush(c) \/ FlushFails(c) \/ Commit(c) \/ Reread(c)

Next ==
    \/ \E c \in Client : Arrive(c) \/ Step(c) \/ Fail(c)
    \/ \E t \in Table : AddTable(t)
    \/ Tick

Spec == Init /\ [][Next]_vars

\* A handler that has begun goes on, and PostgreSQL hands a row lock to the waiters in turn.
FairSpec == Spec /\ \A c \in Client : SF_vars(Step(c))
-------------------------------------------------------------------------------
(* Properties *)

\* No table is ever given to two confirmed reservations whose times overlap, however the
\* statements of concurrent creations, updates and cancellations interleave: what the row
\* locks of _available_tables(lock=True) are for.
NoDoubleBooking ==
    \A q, r \in Reservation :
        /\ q # r
        /\ rsv[q].status = "confirmed"
        /\ rsv[r].status = "confirmed"
        /\ rsv[q].table = rsv[r].table
        => \/ rsv[q].end <= rsv[r].start
           \/ rsv[r].end <= rsv[q].start

\* A confirmed reservation always sits at a table with a seat for everybody, also after
\* updates that change the party without the time or the time without the party.
SeatedWithinCapacity ==
    \A r \in Reservation :
        rsv[r].status = "confirmed" =>
            /\ rsv[r].table \in Table
            /\ rsv[r].party <= Capacity[rsv[r].table]
            /\ rsv[r].start < rsv[r].end

\* What a handler is about to commit was checked under locks it still holds: the check
\* cannot have become stale between has_overlap and COMMIT.
WriterIsSafe ==
    \A c \in Client :
        /\ pc[c] \in {"flush", "commit"}
        /\ pick[c] # NoTable
        => /\ tableLock[pick[c]] = c
           /\ ~HasOverlap(pick[c], want[c].start, want[c].end, req[c].id)
           /\ req[c].kind = "update" => /\ rowLock[req[c].id] = c
                                        /\ rsv[req[c].id].status = "confirmed"

\* The answer a handler is about to give after its commit matches the database whatever
\* others did meanwhile: the created or updated reservation exists, the cancelled one is
\* cancelled and nobody has confirmed it again.
AckedIsCommitted ==
    \A c \in Client :
        pc[c] = "reread" =>
            IF req[c].kind = "cancel" THEN rsv[req[c].id].status = "cancelled"
                                      ELSE rsv[req[c].id].status # "none"

\* The transactions implement the atomic book of reservations.
Book == INSTANCE ReservationBook
        WITH book <- [r \in Reservation |->
                        [status |-> rsv[r].status, table |-> rsv[r].table,
                         start |-> rsv[r].start, end |-> rsv[r].end,
                         party |-> rsv[r].party]]
ImplementsBook == Book!Spec

\* Every request is answered: no handlers wait for each other's row locks for ever.
EveryRequestAnswered == \A c \in Client : pc[c] # "idle" ~> pc[c] = "idle"

\* docs/database-design.md:96, "Cancellation is idempotent: an already-cancelled
\* reservation returns its current authoritative state": cancelling again changes nothing.
CancellationIsIdempotent ==
    [][\A r \in Reservation : rsv[r].status = "cancelled" => rsv'[r] = rsv[r]]_vars
=============================================================================
