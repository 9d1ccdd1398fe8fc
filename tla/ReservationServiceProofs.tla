----------------------- MODULE ReservationServiceProofs -----------------------
(***************************************************************************)
(* Proofs about ReservationService, for any number of handlers, tables and *)
(* reservations.  IInv is the inductive invariant; its heart is that a     *)
(* table found free stays free because the handler that checked it still   *)
(* holds the table's row lock, and that an update's row cannot change      *)
(* under it because it holds that row's lock.                              *)
(***************************************************************************)
EXTENDS ReservationService, TLAPS

\* The handlers whose transaction may still give r a table.
Booking(c) == pc[c] \in {"search", "flush", "commit"} /\ req[c].kind \in {"create", "update"}

Reschedules(c) == req[c].kind = "create" \/ (req[c].kind = "update" /\ req[c].body.keys # {})

\* Which requests may be at which statement.
RequestInv(c) ==
    /\ pc[c] # "idle" => req[c].kind # "none"
    /\ pc[c] = "row" => req[c].kind \in {"update", "cancel"}
    /\ pc[c] = "row" /\ req[c].code # NoCode => req[c].kind = "cancel"
    /\ pc[c] = "search" => Reschedules(c)
    /\ pc[c] \in {"flush", "commit"} => (pick[c] # NoTable <=> Reschedules(c))
    /\ pc[c] \in {"idle", "row", "search"} => pick[c] = NoTable
    /\ pc[c] \in {"idle", "row"} => avail[c] = {}

\* The row a handler works on: its lock, and the status it was read with.
RowInv(c) ==
    /\ Booking(c) /\ req[c].kind = "create" => rsv[req[c].id].status = "none"
    /\ Booking(c) /\ req[c].kind = "update" => /\ rsv[req[c].id].status = "confirmed"
                                              /\ rowLock[req[c].id] = c
    /\ pc[c] = "commit" => rowLock[req[c].id] = c
    /\ pc[c] \in {"flush", "commit"} /\ req[c].kind = "cancel" =>
          rsv[req[c].id].status # "none"

\* t is locked by c, seats c's party and is free at c's time.
Reserved(c, t) ==
    /\ tableLock[t] = c
    /\ want[c].party <= Capacity[t]
    /\ ~HasOverlap(t, want[c].start, want[c].end, req[c].id)

SearchInv(c) ==
    pc[c] = "search" =>
        /\ want[c].start < want[c].end
        /\ \A t \in cand[c] : want[c].party <= Capacity[t]
        /\ todo[c] \subseteq cand[c]
        /\ \A t \in avail[c] : t \in cand[c] /\ Reserved(c, t)

PickInv(c) ==
    pc[c] \in {"flush", "commit"} /\ pick[c] # NoTable =>
        want[c].start < want[c].end /\ Reserved(c, pick[c])

\* No two handlers insert the same key.
InsertInv ==
    \A c, d \in Client :
        /\ c # d
        /\ pc[c] # "idle" /\ req[c].kind = "create"
        /\ pc[d] # "idle" /\ req[d].kind = "create"
        => req[c].id # req[d].id

HandlerInv(c) == RequestInv(c) /\ RowInv(c) /\ SearchInv(c) /\ PickInv(c)

IInv ==
    /\ TypeOK
    /\ NoDoubleBooking
    /\ SeatedWithinCapacity
    /\ AckedIsCommitted
    /\ InsertInv
    /\ \A c \in Client : HandlerInv(c)
-------------------------------------------------------------------------------
(* Type correctness *)

USE ClientAssumption, TableAssumption, RequestAssumption

\* A request that ends leaves well-typed handler state and locks.
LEMMA FinishType ==
    ASSUME TypeOK, NEW c \in Client, NEW o \in Outcome, Finish(c, o), UNCHANGED shared
    PROVE  TypeOK'
<1> USE DEF TypeOK, Finish, ForgetSearch, ReleaseLocks, shared
<1>1. /\ pc' \in [Client -> Point]
      /\ req' \in [Client -> Request \cup {NoRequest}]
      /\ reply' \in [Client -> Outcome]
      /\ \A d \in Client : pc'[d] # "idle" => req'[d] \in Request
  BY DEF Point
<1>2. /\ want' \in [Client -> Schedule]
      /\ cand' \in [Client -> SUBSET Table]
      /\ todo' \in [Client -> SUBSET Table]
      /\ avail' \in [Client -> SUBSET Table]
      /\ pick' \in [Client -> Table \cup {NoTable}]
      /\ stamp' \in [Client -> 0..MaxNow]
  BY DEF Schedule, NoWant
<1>3. /\ rowLock' \in [Reservation -> Client \cup {NoClient}]
      /\ tableLock' \in [Table -> Client \cup {NoClient}]
  OBVIOUS
<1>4. QED
  BY <1>1, <1>2, <1>3

\* The schedule of an update is a schedule: it has natural party and times.
LEMMA ResolveType ==
    ASSUME NEW row \in Row, row.start < row.end, NEW d \in UpdateBody
    PROVE  Resolve(row, d) \in Schedule
BY DEF Resolve, Row, UpdateBody, Schedule

\* What a handler writes is a row.
LEMMA WrittenType ==
    ASSUME TypeOK, NEW c \in Client, pc[c] # "idle"
    PROVE  Written(c) \in Row
<1>1. rsv[req[c].id] \in Row /\ pick[c] \in Table \cup {NoTable} /\ want[c] \in Schedule
      /\ stamp[c] \in Nat
  BY DEF TypeOK, Request
<1>2. QED
  BY <1>1 DEF Written, Row, Status, Absent, Schedule

\* Every step keeps the types; an update needs its row to end after it starts.
LEMMA StepType ==
    ASSUME TypeOK, SeatedWithinCapacity, NEW c \in Client, Arrive(c) \/ Step(c) \/ Fail(c)
    PROVE  TypeOK'
<1> USE DEF TypeOK, shared, locks, session
<1>1. ASSUME NEW d \in CreateRequests, NEW r \in Reservation, Create(c, r, d)
      PROVE  TypeOK'
  <2>1. [d EXCEPT !.end = IF d.end = 0 THEN d.start + Duration ELSE d.end] \in Schedule
    BY DEF Schedule
  <2>2. [kind |-> "create", id |-> r, code |-> NoCode, body |-> NoBody] \in Request
    BY DEF Request, Kind, NoBody, UpdateBody
  <2>3. QED
    BY <1>1, <2>1, <2>2 DEF Create, Receive, StartSearch, FindCandidates, Point, Outcome
<1>2. ASSUME NEW d \in CreateRequests, RejectCreate(c, d)
      PROVE  TypeOK'
  BY <1>2 DEF RejectCreate, Outcome
<1>3. ASSUME NEW r \in Reservation, NEW d \in UpdateRequests, Update(c, r, d)
      PROVE  TypeOK'
  <2>1. [kind |-> "update", id |-> r, code |-> NoCode, body |-> d] \in Request
    BY DEF Request, Kind
  <2>2. QED
    BY <1>3, <2>1 DEF Update, Receive, Point, Outcome
<1>4. ASSUME NEW r \in Reservation, NEW code \in Reservation \cup {NoCode}, Cancel(c, r, code)
      PROVE  TypeOK'
  <2>1. [kind |-> "cancel", id |-> r, code |-> code, body |-> NoBody] \in Request
    BY DEF Request, Kind, NoBody, UpdateBody
  <2>2. QED
    BY <1>4, <2>1 DEF Cancel, Receive, Point, Outcome
<1>5. CASE NotFound(c) \/ UpdateCancelled(c) \/ RejectUpdate(c) \/ Conflict(c)
           \/ FlushFails(c) \/ Reread(c) \/ Fail(c)
  <2>1. \E o \in Outcome : Finish(c, o) /\ UNCHANGED shared
    BY <1>5 DEF NotFound, UpdateCancelled, RejectUpdate, Conflict, FlushFails, Reread, Fail,
                Outcome
  <2>2. QED
    BY <2>1, FinishType
<1>6. CASE UpdateDetails(c)
  BY <1>6 DEF UpdateDetails, ReadsLocked, HoldRow, Request, Point
<1>7. CASE UpdateSchedule(c)
  <2>1. req[c] \in Request /\ rsv[req[c].id] \in Row /\ req[c].body \in UpdateBody
    BY <1>7 DEF UpdateSchedule, ReadsLocked, Request
  <2>2. rsv[req[c].id].start < rsv[req[c].id].end
    BY <1>7, <2>1 DEF UpdateSchedule, ReadsLocked, SeatedWithinCapacity, Request
  <2>3. Resolve(rsv[req[c].id], req[c].body) \in Schedule
    BY <2>1, <2>2, ResolveType
  <2>4. QED
    BY <1>7, <2>1, <2>3 DEF UpdateSchedule, HoldRow, StartSearch, FindCandidates, Request, Point
<1>8. CASE CancelById(c)
  BY <1>8 DEF CancelById, ReadsLocked, HoldRow, Request, Point
<1>9. CASE CancelByCode(c)
  BY <1>9 DEF CancelByCode, ReadsByCode, Point
<1>10. CASE CancelAgain(c)
  BY <1>10 DEF CancelAgain, ReadsLocked, ReadsByCode, Point
<1>11. CASE LockTable(c)
  BY <1>11 DEF LockTable
<1>12. CASE CheckTable(c)
  BY <1>12 DEF CheckTable
<1>13. CASE SelectTable(c)
  BY <1>13 DEF SelectTable, Searched, Point
<1>14. CASE Flush(c)
  BY <1>14 DEF Flush, HoldRow, Request, Point
<1>15. CASE Commit(c)
  <2>1. rsv' \in [Reservation -> Row]
    BY <1>15, WrittenType DEF Commit
  <2>2. /\ pc' \in [Client -> Point]
        /\ \A d \in Client : pc'[d] # "idle" => req'[d] \in Request
    BY <1>15 DEF Commit, Point
  <2>3. /\ want' \in [Client -> Schedule]
        /\ cand' \in [Client -> SUBSET Table]
        /\ todo' \in [Client -> SUBSET Table]
        /\ avail' \in [Client -> SUBSET Table]
        /\ pick' \in [Client -> Table \cup {NoTable}]
        /\ stamp' \in [Client -> 0..MaxNow]
    BY <1>15 DEF Commit, ForgetSearch, Schedule, NoWant
  <2>4. /\ rowLock' \in [Reservation -> Client \cup {NoClient}]
        /\ tableLock' \in [Table -> Client \cup {NoClient}]
    BY <1>15 DEF Commit, ReleaseLocks
  <2>5. QED
    BY <1>15, <2>1, <2>2, <2>3, <2>4 DEF Commit
<1>16. QED
  BY <1>1, <1>2, <1>3, <1>4, <1>5, <1>6, <1>7, <1>8, <1>9, <1>10, <1>11, <1>12, <1>13,
     <1>14, <1>15 DEF Arrive, Step, ReadRow
-------------------------------------------------------------------------------
(* The inductive invariant *)

\* A handler that is not touched keeps its invariant: the rows are the same and the locks
\* it holds stay its own.
LEMMA Untouched ==
    ASSUME TypeOK, NEW d \in Client, HandlerInv(d),
           pc'[d] = pc[d], req'[d] = req[d], want'[d] = want[d], cand'[d] = cand[d],
           todo'[d] = todo[d], avail'[d] = avail[d], pick'[d] = pick[d],
           rsv' = rsv,
           \A r \in Reservation : rowLock[r] = d => rowLock'[r] = d,
           \A t \in Table : tableLock[t] = d => tableLock'[t] = d
    PROVE  HandlerInv(d)'
<1>1. RequestInv(d)'
  BY DEF HandlerInv, RequestInv, Reschedules
<1>2. RowInv(d)'
  BY DEF HandlerInv, RowInv, Booking, TypeOK, Request
<1>3. \A t \in Table : Reserved(d, t) => Reserved(d, t)'
  BY DEF Reserved, HasOverlap
<1>4. SearchInv(d)'
  BY <1>3 DEF HandlerInv, SearchInv, TypeOK
<1>5. PickInv(d)'
  BY <1>3 DEF HandlerInv, PickInv, TypeOK
<1>6. QED
  BY <1>1, <1>2, <1>4, <1>5 DEF HandlerInv

\* A handler that ends its request satisfies its invariant trivially.
LEMMA IdleInv ==
    ASSUME NEW c \in Client, pc'[c] = "idle", pick'[c] = NoTable, avail'[c] = {}
    PROVE  HandlerInv(c)'
BY DEF HandlerInv, RequestInv, RowInv, SearchInv, PickInv, Booking

\* The three properties of the rows, and the insertions, when no row changes.
LEMMA SameRows ==
    ASSUME IInv, rsv' = rsv
    PROVE  NoDoubleBooking' /\ SeatedWithinCapacity'
BY DEF IInv, NoDoubleBooking, SeatedWithinCapacity

\* Rolling back and answering keeps the invariant.
LEMMA FinishInv ==
    ASSUME IInv, NEW c \in Client, NEW o \in Outcome, Finish(c, o), UNCHANGED shared
    PROVE  IInv'
<1> USE DEF Finish, ForgetSearch, shared
<1>1. TypeOK'
  BY FinishType DEF IInv
<1>2. NoDoubleBooking' /\ SeatedWithinCapacity'
  BY SameRows
<1>3. AckedIsCommitted' /\ InsertInv'
  BY DEF IInv, AckedIsCommitted, InsertInv, TypeOK
<1>4. ASSUME NEW d \in Client
      PROVE  HandlerInv(d)'
  <2>1. CASE d = c
    BY <2>1, IdleInv DEF IInv, TypeOK
  <2>2. CASE d # c
    BY <2>2, Untouched DEF IInv, TypeOK, ReleaseLocks
  <2>3. QED
    BY <2>1, <2>2
<1>5. QED
  BY <1>1, <1>2, <1>3, <1>4 DEF IInv

\* What a step of c leaves to the other handlers: their state and the locks they hold.
OthersKeep(c) ==
    \A d \in Client \ {c} :
        /\ pc'[d] = pc[d] /\ req'[d] = req[d] /\ want'[d] = want[d] /\ cand'[d] = cand[d]
        /\ todo'[d] = todo[d] /\ avail'[d] = avail[d] /\ pick'[d] = pick[d]
        /\ \A r \in Reservation : rowLock[r] = d => rowLock'[r] = d
        /\ \A t \in Table : tableLock[t] = d => tableLock'[t] = d

\* A step of c that changes no row keeps the invariant when c's own part holds.
LEMMA OwnStep ==
    ASSUME IInv, NEW c \in Client, TypeOK', rsv' = rsv, OthersKeep(c), HandlerInv(c)',
           pc'[c] = "reread" => req'[c].kind = "cancel"
                                /\ rsv[req'[c].id].status = "cancelled",
           InsertInv'
    PROVE  IInv'
<1>1. NoDoubleBooking' /\ SeatedWithinCapacity'
  BY SameRows
<1>2. AckedIsCommitted'
  BY DEF IInv, AckedIsCommitted, OthersKeep
<1>3. ASSUME NEW d \in Client, d # c
      PROVE  HandlerInv(d)'
  BY <1>3, Untouched DEF IInv, OthersKeep
<1>4. QED
  BY <1>1, <1>2, <1>3 DEF IInv

\* Receiving a request and reading the reservation.
LEMMA ReadInv ==
    ASSUME IInv, NEW c \in Client, TypeOK',
           Arrive(c) \/ UpdateDetails(c) \/ UpdateSchedule(c)
           \/ CancelById(c) \/ CancelByCode(c) \/ CancelAgain(c)
    PROVE  IInv'
<1> USE DEF shared, locks, IInv
<1>1. ASSUME NEW d \in CreateRequests, NEW r \in Reservation, Create(c, r, d)
      PROVE  IInv'
  <2> USE <1>1 DEF Create, Receive, StartSearch, TypeOK
  <2>1. OthersKeep(c)
    BY DEF OthersKeep
  <2>2. InsertInv'
    BY DEF InsertInv, Fresh
  <2>3. RequestInv(c)' /\ RowInv(c)' /\ PickInv(c)'
    BY DEF HandlerInv, RequestInv, RowInv, PickInv, Booking, Reschedules, Fresh
  <2>4. want'[c].start < want'[c].end /\ want'[c].party = d.party
    BY DEF AcceptedCreate, Schedule
  <2>5. SearchInv(c)'
    BY <2>4 DEF SearchInv, FindCandidates, HandlerInv, RequestInv
  <2>6. QED
    BY <2>1, <2>2, <2>3, <2>5, OwnStep DEF HandlerInv
<1>2. ASSUME NEW d \in CreateRequests, RejectCreate(c, d)
      PROVE  IInv'
  <2>1. /\ \A e \in Client : HandlerInv(e)'
        /\ InsertInv' /\ AckedIsCommitted' /\ NoDoubleBooking' /\ SeatedWithinCapacity'
    BY <1>2, Untouched, SameRows DEF RejectCreate, InsertInv, AckedIsCommitted
  <2>2. QED
    BY <2>1
<1>3. ASSUME NEW r \in Reservation, NEW d \in UpdateRequests, Update(c, r, d)
      PROVE  IInv'
  <2> USE <1>3 DEF Update, Receive, TypeOK
  <2>1. OthersKeep(c) /\ InsertInv'
    BY DEF OthersKeep, InsertInv
  <2>2. HandlerInv(c)'
    BY DEF HandlerInv, RequestInv, RowInv, SearchInv, PickInv, Booking
  <2>3. QED
    BY <2>1, <2>2, OwnStep
<1>4. ASSUME NEW r \in Reservation, NEW code \in Reservation \cup {NoCode}, Cancel(c, r, code)
      PROVE  IInv'
  <2> USE <1>4 DEF Cancel, Receive, TypeOK
  <2>1. OthersKeep(c) /\ InsertInv'
    BY DEF OthersKeep, InsertInv
  <2>2. HandlerInv(c)'
    BY DEF HandlerInv, RequestInv, RowInv, SearchInv, PickInv, Booking
  <2>3. QED
    BY <2>1, <2>2, OwnStep
<1>5. CASE UpdateDetails(c)
  <2> USE <1>5 DEF UpdateDetails, ReadsLocked, HoldRow, TypeOK
  <2>1. OthersKeep(c) /\ InsertInv'
    BY DEF OthersKeep, InsertInv
  <2>2. HandlerInv(c)'
    BY DEF HandlerInv, RequestInv, RowInv, SearchInv, PickInv, Booking, Reschedules, Request
  <2>3. QED
    BY <2>1, <2>2, OwnStep
<1>6. CASE UpdateSchedule(c)
  <2> USE <1>6 DEF UpdateSchedule, ReadsLocked, HoldRow, StartSearch, TypeOK
  <2>1. OthersKeep(c) /\ InsertInv'
    BY DEF OthersKeep, InsertInv
  <2>2. RequestInv(c)' /\ RowInv(c)' /\ PickInv(c)'
    BY DEF HandlerInv, RequestInv, RowInv, PickInv, Booking, Reschedules, Request
  <2>3. want'[c].start < want'[c].end
    BY DEF Acceptable, Schedule
  <2>4. SearchInv(c)'
    BY <2>3 DEF SearchInv, FindCandidates, HandlerInv, RequestInv
  <2>5. QED
    BY <2>1, <2>2, <2>4, OwnStep DEF HandlerInv
<1>7. CASE CancelById(c) \/ CancelByCode(c)
  <2> USE <1>7 DEF CancelById, CancelByCode, ReadsLocked, ReadsByCode, HoldRow, TypeOK
  <2>1. req[c].kind = "cancel"
    BY DEF HandlerInv, RequestInv, Request
  <2>2. OthersKeep(c) /\ InsertInv'
    BY DEF OthersKeep, InsertInv
  <2>3. HandlerInv(c)'
    BY <2>1 DEF HandlerInv, RequestInv, RowInv, SearchInv, PickInv, Booking, Reschedules
  <2>4. QED
    BY <2>2, <2>3, OwnStep
<1>8. CASE CancelAgain(c)
  <2> USE <1>8 DEF CancelAgain, ReadsLocked, ReadsByCode, TypeOK
  <2>1. OthersKeep(c) /\ InsertInv'
    BY DEF OthersKeep, InsertInv
  <2>2. HandlerInv(c)'
    BY DEF HandlerInv, RequestInv, RowInv, SearchInv, PickInv, Booking
  <2>3. QED
    BY <2>1, <2>2, OwnStep
<1>9. QED
  BY <1>1, <1>2, <1>3, <1>4, <1>5, <1>6, <1>7, <1>8 DEF Arrive

\* Locking and checking candidates, choosing one, and flushing.
LEMMA SearchStepInv ==
    ASSUME IInv, NEW c \in Client, TypeOK',
           LockTable(c) \/ CheckTable(c) \/ SelectTable(c) \/ Flush(c)
    PROVE  IInv'
<1> USE DEF shared, locks, session, IInv
<1>1. CASE LockTable(c)
  <2> USE <1>1 DEF LockTable, TypeOK
  <2>1. OthersKeep(c) /\ InsertInv'
    BY DEF OthersKeep, InsertInv
  <2>2. HandlerInv(c)'
    BY Untouched
  <2>3. QED
    BY <2>1, <2>2, OwnStep
<1>2. CASE CheckTable(c)
  <2> USE <1>2 DEF CheckTable, TypeOK
  <2>1. OthersKeep(c) /\ InsertInv'
    BY DEF OthersKeep, InsertInv
  <2>2. RequestInv(c)' /\ RowInv(c)' /\ PickInv(c)'
    BY DEF HandlerInv, RequestInv, RowInv, PickInv, Booking, Reschedules
  <2>3. PICK t \in Table :
           /\ IsFirst(t, todo[c])
           /\ todo' = [todo EXCEPT ![c] = @ \ {t}]
           /\ avail' = IF HasOverlap(t, want[c].start, want[c].end, req[c].id)
                       THEN avail
                       ELSE [avail EXCEPT ![c] = @ \cup {t}]
    OBVIOUS
  <2>4. t \in cand[c] /\ tableLock[t] = c /\ want[c].party <= Capacity[t]
    BY <2>3 DEF IsFirst, HoldsCandidates, HandlerInv, SearchInv
  <2>5. \A u \in avail'[c] : u \in cand[c] /\ Reserved(c, u)
    BY <2>3, <2>4 DEF HandlerInv, SearchInv, Reserved
  <2>6. \A u \in Table : Reserved(c, u) => Reserved(c, u)'
    BY DEF Reserved, HasOverlap
  <2>7. SearchInv(c)'
    BY <2>3, <2>5, <2>6 DEF HandlerInv, SearchInv
  <2>8. QED
    BY <2>1, <2>2, <2>7, OwnStep DEF HandlerInv
<1>3. CASE SelectTable(c)
  <2> USE <1>3 DEF SelectTable, Searched, TypeOK
  <2>1. OthersKeep(c) /\ InsertInv'
    BY DEF OthersKeep, InsertInv
  <2>2. PICK t \in Table : IsSelected(c, t) /\ pick' = [pick EXCEPT ![c] = t]
    OBVIOUS
  <2>3. t \in avail[c] /\ t # NoTable
    BY <2>2 DEF IsSelected, IsFirst, Table, NoTable
  <2>4. RequestInv(c)' /\ RowInv(c)' /\ SearchInv(c)'
    BY <2>2, <2>3 DEF HandlerInv, RequestInv, RowInv, SearchInv, Booking, Reschedules
  <2>5. Reserved(c, t) /\ want[c].start < want[c].end
    BY <2>3 DEF HandlerInv, SearchInv
  <2>6. PickInv(c)'
    BY <2>2, <2>5 DEF PickInv, Reserved, HasOverlap
  <2>7. QED
    BY <2>1, <2>4, <2>6, OwnStep DEF HandlerInv
<1>4. CASE Flush(c)
  <2> USE <1>4 DEF Flush, HoldRow, TypeOK
  <2>1. OthersKeep(c) /\ InsertInv'
    BY DEF OthersKeep, InsertInv
  <2>2. RequestInv(c)' /\ RowInv(c)' /\ SearchInv(c)'
    BY DEF HandlerInv, RequestInv, RowInv, SearchInv, Booking, Reschedules, Request
  <2>3. PickInv(c)'
    BY DEF HandlerInv, PickInv, Reserved, HasOverlap
  <2>4. QED
    BY <2>1, <2>2, <2>3, OwnStep DEF HandlerInv
<1>5. QED
  BY <1>1, <1>2, <1>3, <1>4

\* What a handler commits: a cancellation, an unchanged row, or a confirmed row at a table
\* it has reserved.
LEMMA WrittenCases ==
    ASSUME IInv, NEW c \in Client, pc[c] = "commit"
    PROVE  LET r == req[c].id IN
           /\ Written(c).status # "none"
           /\ req[c].kind = "cancel" => Written(c).status = "cancelled"
           /\ Written(c).status = "confirmed" =>
                 \/ Written(c) = rsv[r]
                 \/ /\ Written(c).table = pick[c]
                    /\ pick[c] # NoTable
                    /\ Written(c).party = want[c].party
                    /\ Written(c).start = want[c].start
                    /\ Written(c).end = want[c].end
<1> USE DEF IInv, HandlerInv
<1>1. rsv[req[c].id] \in Row /\ req[c] \in Request
  BY DEF TypeOK, Request
<1>2. RequestInv(c) /\ RowInv(c)
  OBVIOUS
<1>3. CASE req[c].kind = "cancel"
  BY <1>1, <1>3 DEF Written, Row
<1>4. CASE req[c].kind = "create"
  BY <1>1, <1>2, <1>4 DEF Written, Absent, RequestInv, Reschedules
<1>5. CASE req[c].kind = "update"
  <2>1. rsv[req[c].id].status = "confirmed"
    BY <1>2, <1>5 DEF RowInv, Booking
  <2>2. CASE req[c].body.keys = {}
    BY <1>5, <2>1, <2>2 DEF Written
  <2>3. CASE req[c].body.keys # {}
    BY <1>1, <1>2, <1>5, <2>1, <2>3 DEF Written, RequestInv, Reschedules, Row
  <2>4. QED
    BY <2>2, <2>3
<1>6. QED
  BY <1>1, <1>2, <1>3, <1>4, <1>5 DEF RequestInv, Request, Kind

\* Committing changes one row, held by the handler, to something nobody else is about to
\* contradict.
LEMMA CommitInv ==
    ASSUME IInv, NEW c \in Client, TypeOK', Commit(c)
    PROVE  IInv'
<1> DEFINE r == req[c].id
           row == Written(c)
<1> USE DEF Commit
<1>1. /\ r \in Reservation /\ req[c] \in Request
      /\ rsv' = [rsv EXCEPT ![r] = row] /\ rsv \in [Reservation -> Row]
      /\ rowLock[r] = c
  BY DEF IInv, TypeOK, Request, HandlerInv, RowInv
<1>2. /\ row.status # "none"
      /\ req[c].kind = "cancel" => row.status = "cancelled"
      /\ row.status = "confirmed" =>
            \/ row = rsv[r]
            \/ /\ row.table = pick[c] /\ pick[c] \in Table
               /\ row.party = want[c].party
               /\ row.start = want[c].start /\ row.end = want[c].end
               /\ want[c].start < want[c].end
               /\ Reserved(c, pick[c])
  BY WrittenCases DEF IInv, TypeOK, HandlerInv, PickInv
<1> HIDE DEF r, row
<1>3. NoDoubleBooking'
  <2> SUFFICES ASSUME NEW p \in Reservation, NEW q \in Reservation, p # q,
                      rsv'[p].status = "confirmed", rsv'[q].status = "confirmed",
                      rsv'[p].table = rsv'[q].table
               PROVE  rsv'[p].end <= rsv'[q].start \/ rsv'[q].end <= rsv'[p].start
    BY DEF NoDoubleBooking
  <2>1. ASSUME NEW s \in Reservation, s # r, rsv[s].status = "confirmed",
               row.status = "confirmed", row.table = rsv[s].table
        PROVE  rsv[s].end <= row.start \/ row.end <= rsv[s].start
    <3>1. CASE row = rsv[r]
      BY <1>1, <2>1, <3>1 DEF IInv, NoDoubleBooking
    <3>2. CASE row # rsv[r]
      <4>1. ~HasOverlap(row.table, row.start, row.end, r) /\ row \in Row
        BY <1>1, <1>2, <2>1, <3>2, WrittenType DEF Reserved, r, row, IInv
      <4>2. QED
        BY <1>1, <2>1, <4>1 DEF HasOverlap, Blocking, Row
    <3>3. QED
      BY <3>1, <3>2
  <2>2. CASE p = r
    BY <1>1, <2>1, <2>2
  <2>3. CASE q = r
    BY <1>1, <2>1, <2>3
  <2>4. CASE p # r /\ q # r
    BY <1>1, <2>4 DEF IInv, NoDoubleBooking
  <2>5. QED
    BY <2>2, <2>3, <2>4
<1>4. SeatedWithinCapacity'
  BY <1>1, <1>2 DEF IInv, SeatedWithinCapacity, Reserved
<1>5. AckedIsCommitted'
  <2> SUFFICES ASSUME NEW d \in Client, pc'[d] = "reread"
               PROVE  IF req[d].kind = "cancel" THEN rsv'[req[d].id].status = "cancelled"
                                                ELSE rsv'[req[d].id].status # "none"
    BY DEF AckedIsCommitted
  <2>1. CASE d = c
    BY <1>1, <1>2, <2>1 DEF r
  <2>2. CASE d # c
    <3>1. pc[d] = "reread" /\ req[d] \in Request
      BY <2>2 DEF IInv, TypeOK
    <3>2. IF req[d].kind = "cancel" THEN rsv[req[d].id].status = "cancelled"
                                    ELSE rsv[req[d].id].status # "none"
      BY <3>1 DEF IInv, AckedIsCommitted
    <3>3. CASE req[d].id # r
      BY <1>1, <3>1, <3>2, <3>3 DEF Request
    <3>4. CASE req[d].id = r /\ req[d].kind = "cancel"
      <4>1. rsv[r].status = "cancelled"
        BY <3>2, <3>4
      <4>2. req[c].kind = "cancel"
        BY <4>1 DEF IInv, HandlerInv, RowInv, RequestInv, Booking, r, Request, Kind, TypeOK
      <4>3. QED
        BY <1>1, <1>2, <3>4, <4>2
    <3>5. CASE req[d].id = r /\ req[d].kind # "cancel"
      BY <1>1, <1>2, <3>5
    <3>6. QED
      BY <3>3, <3>4, <3>5
  <2>3. QED
    BY <2>1, <2>2
<1>6. InsertInv'
  BY DEF IInv, InsertInv, TypeOK
<1>7. ASSUME NEW d \in Client
      PROVE  HandlerInv(d)'
  <2>1. CASE d = c
    BY <2>1 DEF HandlerInv, RequestInv, RowInv, SearchInv, PickInv, Booking, ForgetSearch,
                IInv, TypeOK
  <2>2. CASE d # c
    <3> USE <2>2 DEF ForgetSearch, ReleaseLocks
    <3>1. /\ pc'[d] = pc[d] /\ req'[d] = req[d] /\ want'[d] = want[d] /\ cand'[d] = cand[d]
          /\ todo'[d] = todo[d] /\ avail'[d] = avail[d] /\ pick'[d] = pick[d]
          /\ \A s \in Reservation : rowLock[s] = d => rowLock'[s] = d
          /\ \A t \in Table : tableLock[t] = d => tableLock'[t] = d
      BY DEF IInv, TypeOK
    <3>2. RequestInv(d)'
      BY <3>1 DEF IInv, HandlerInv, RequestInv, Reschedules
    <3>3. ASSUME Booking(d) \/ (pc[d] \in {"flush", "commit"} /\ req[d].kind = "cancel")
          PROVE  req[d] \in Request /\ pc[d] # "idle"
      BY <3>3 DEF Booking, IInv, TypeOK
    <3>4. Booking(d) => req[d].id # r
      <4> SUFFICES ASSUME Booking(d), req[d].id = r
                   PROVE  FALSE
        OBVIOUS
      <4>1. pc[d] # "idle" /\ req[d].kind \in {"create", "update"}
        BY DEF Booking
      <4>2. CASE req[d].kind = "create"
        <5>1. rsv[r].status = "none"
          BY <4>2 DEF IInv, HandlerInv, RowInv
        <5>2. req[c].kind = "create"
          BY <1>1, <5>1 DEF IInv, HandlerInv, RowInv, RequestInv, Booking, r, Request, Kind
        <5>3. QED
          BY <4>1, <4>2, <5>2 DEF IInv, InsertInv, r
      <4>3. CASE req[d].kind = "update"
        BY <1>1, <4>3 DEF IInv, HandlerInv, RowInv
      <4>4. QED
        BY <4>1, <4>2, <4>3
    <3>5. RowInv(d)'
      <4>1. RowInv(d)
        BY DEF IInv, HandlerInv
      <4>2. \A s \in Reservation :
               /\ s # r => rsv'[s] = rsv[s]
               /\ rsv[s].status # "none" => rsv'[s].status # "none"
        BY <1>1, <1>2
      <4>3. Booking(d) => rsv'[req[d].id] = rsv[req[d].id] /\ req[d].id \in Reservation
        BY <3>3, <3>4, <4>2 DEF Request
      <4>4. pc[d] = "commit" => req[d].id \in Reservation
        BY DEF IInv, TypeOK, Request
      <4>5. pc[d] \in {"flush", "commit"} /\ req[d].kind = "cancel" =>
               rsv'[req[d].id].status # "none"
        BY <3>3, <4>1, <4>2 DEF RowInv, Request
      <4>6. QED
        BY <3>1, <4>1, <4>3, <4>4, <4>5 DEF RowInv, Booking
    <3>6. ASSUME NEW t \in Table, Reserved(d, t)
          PROVE  Reserved(d, t)'
      <4>1. row.status = "confirmed" => row = rsv[r] \/ row.table # t
        BY <1>2, <3>6 DEF Reserved
      <4>2. ~HasOverlap(t, want[d].start, want[d].end, req[d].id)'
        BY <1>1, <3>1, <3>6, <4>1 DEF Reserved, HasOverlap, Blocking
      <4>3. QED
        BY <3>1, <3>6, <4>2 DEF Reserved
    <3>7. SearchInv(d)'
      BY <3>1, <3>6 DEF IInv, HandlerInv, SearchInv, TypeOK
    <3>8. PickInv(d)'
      BY <3>1, <3>6 DEF IInv, HandlerInv, PickInv, TypeOK
    <3>9. QED
      BY <3>2, <3>5, <3>7, <3>8 DEF HandlerInv
  <2>3. QED
    BY <2>1, <2>2
<1>8. QED
  BY <1>3, <1>4, <1>5, <1>6, <1>7 DEF IInv

\* New tables and the clock.
LEMMA EnvironmentInv ==
    ASSUME IInv, Tick \/ \E t \in Table : AddTable(t)
    PROVE  IInv'
<1> USE DEF Tick, AddTable, locks, session, IInv
<1>1. TypeOK'
  BY DEF TypeOK
<1>2. NoDoubleBooking' /\ SeatedWithinCapacity'
  BY SameRows
<1>3. AckedIsCommitted' /\ InsertInv'
  BY DEF AckedIsCommitted, InsertInv
<1>4. \A d \in Client : HandlerInv(d)'
  BY Untouched
<1>5. QED
  BY <1>1, <1>2, <1>3, <1>4

LEMMA InitInv == Init => IInv
<1> SUFFICES ASSUME Init
             PROVE  IInv
  OBVIOUS
<1> USE DEF Init
<1>1. TypeOK
  BY DEF TypeOK, Row, Status, Absent, Point, Outcome, Schedule, NoWant
<1>2. NoDoubleBooking /\ SeatedWithinCapacity /\ AckedIsCommitted /\ InsertInv
  BY DEF NoDoubleBooking, SeatedWithinCapacity, AckedIsCommitted, InsertInv, Absent
<1>3. \A c \in Client : HandlerInv(c)
  BY DEF HandlerInv, RequestInv, RowInv, SearchInv, PickInv, Booking
<1>4. QED
  BY <1>1, <1>2, <1>3 DEF IInv

LEMMA NextInv == IInv /\ [Next]_vars => IInv'
<1> SUFFICES ASSUME IInv, [Next]_vars
             PROVE  IInv'
  OBVIOUS
<1>1. ASSUME NEW c \in Client, Arrive(c) \/ Step(c) \/ Fail(c)
      PROVE  IInv'
  <2>1. TypeOK'
    BY <1>1, StepType DEF IInv
  <2>2. CASE Arrive(c) \/ UpdateDetails(c) \/ UpdateSchedule(c)
             \/ CancelById(c) \/ CancelByCode(c) \/ CancelAgain(c)
    BY <2>1, <2>2, ReadInv
  <2>3. CASE LockTable(c) \/ CheckTable(c) \/ SelectTable(c) \/ Flush(c)
    BY <2>1, <2>3, SearchStepInv
  <2>4. CASE Commit(c)
    BY <2>1, <2>4, CommitInv
  <2>5. CASE NotFound(c) \/ UpdateCancelled(c) \/ RejectUpdate(c) \/ Conflict(c)
             \/ FlushFails(c) \/ Reread(c) \/ Fail(c)
    <3>1. \E o \in Outcome : Finish(c, o) /\ UNCHANGED shared
      BY <2>5 DEF NotFound, UpdateCancelled, RejectUpdate, Conflict, FlushFails, Reread,
                  Fail, Outcome
    <3>2. QED
      BY <3>1, FinishInv
  <2>6. QED
    BY <1>1, <2>2, <2>3, <2>4, <2>5 DEF Step, ReadRow
<1>2. CASE Tick \/ \E t \in Table : AddTable(t)
  BY <1>2, EnvironmentInv
<1>3. CASE UNCHANGED vars
  <2> USE <1>3 DEF vars, shared, locks, session, IInv
  <2>1. TypeOK' /\ NoDoubleBooking' /\ SeatedWithinCapacity' /\ AckedIsCommitted' /\ InsertInv'
    BY SameRows DEF TypeOK, AckedIsCommitted, InsertInv
  <2>2. \A d \in Client : HandlerInv(d)'
    BY Untouched
  <2>3. QED
    BY <2>1, <2>2
<1>4. QED
  BY <1>1, <1>2, <1>3 DEF Next

\* IInv holds in every reachable state.
THEOREM Invariance == Spec => []IInv
BY InitInv, NextInv, PTL DEF Spec

\* Every variable keeps its type.
THEOREM TypeCorrectness == Spec => []TypeOK
<1>1. IInv => TypeOK
  BY DEF IInv
<1>2. QED
  BY <1>1, Invariance, PTL

\* Whatever the interleaving of handlers, no table is given to two confirmed reservations at
\* overlapping times.
THEOREM NeverDoubleBooked == Spec => []NoDoubleBooking
<1>1. IInv => NoDoubleBooking
  BY DEF IInv
<1>2. QED
  BY <1>1, Invariance, PTL

\* A confirmed reservation always has a table with enough seats.
THEOREM AlwaysSeated == Spec => []SeatedWithinCapacity
<1>1. IInv => SeatedWithinCapacity
  BY DEF IInv
<1>2. QED
  BY <1>1, Invariance, PTL

\* What has_overlap found still holds when the handler writes and commits.
THEOREM ChecksStayValid == Spec => []WriterIsSafe
<1>1. IInv => WriterIsSafe
  BY DEF IInv, HandlerInv, RequestInv, RowInv, PickInv, WriterIsSafe, Reserved, Booking
<1>2. QED
  BY <1>1, Invariance, PTL

\* A success answer is about a committed reservation, or a cancelled one.
THEOREM AnswersAreCommitted == Spec => []AckedIsCommitted
<1>1. IInv => AckedIsCommitted
  BY DEF IInv
<1>2. QED
  BY <1>1, Invariance, PTL
-------------------------------------------------------------------------------
(* Refinement *)

\* The book entry of a row: the row without cancelled_at.
EntryOf(row) == [status |-> row.status, table |-> row.table, start |-> row.start,
                 end |-> row.end, party |-> row.party]
BookOf == [r \in Reservation |-> EntryOf(rsv[r])]

LEMMA BookInit == Init => Book!Init
BY DEF Init, Book!Init, Book!Unbooked, Absent, NoTable, Book!NoTable

\* A commit books, reschedules or cancels one reservation in the book, or leaves it as it is.
LEMMA CommitRefines ==
    ASSUME IInv, IInv', NEW c \in Client, Commit(c)
    PROVE  Book!Next \/ BookOf' = BookOf
<1>0. PICK r \in Reservation : r = req[c].id
  BY DEF Commit, IInv, TypeOK, Request
<1> DEFINE row == Written(c)
<1>1. /\ r \in Reservation /\ req[c] \in Request
      /\ rsv' = [rsv EXCEPT ![r] = row]
      /\ rsv \in [Reservation -> Row] /\ row \in Row /\ rsv' \in [Reservation -> Row]
      /\ want[c] \in Schedule
  BY <1>0, WrittenType DEF Commit, IInv, TypeOK, Request
<1>2. /\ row.status # "none"
      /\ req[c].kind = "cancel" => row.status = "cancelled"
      /\ row.status = "confirmed" =>
            \/ row = rsv[r]
            \/ /\ row.table = pick[c] /\ pick[c] \in Table
               /\ row.party = want[c].party
               /\ row.start = want[c].start /\ row.end = want[c].end
               /\ want[c].start < want[c].end
               /\ Reserved(c, pick[c])
  BY <1>0, WrittenCases DEF IInv, TypeOK, HandlerInv, PickInv, Commit
<1>3. req[c].kind = "cancel" =>
         /\ rsv[r].status \in {"confirmed", "cancelled"}
         /\ row = [rsv[r] EXCEPT !.status = "cancelled", !.cancelledAt = stamp[c]]
  BY <1>0, <1>1 DEF Commit, IInv, HandlerInv, RowInv, Written, Row, Status
<1>4. req[c].kind \in {"create", "update"} =>
         rsv[r].status = IF req[c].kind = "create" THEN "none" ELSE "confirmed"
  BY <1>0 DEF Commit, IInv, HandlerInv, RowInv, Booking
<1>5. req[c].kind \in {"create", "update"} => row.status = "confirmed"
  BY <1>0, <1>1, <1>4 DEF Written, Absent, Row
<1> HIDE DEF row
<1>6. /\ BookOf \in [Reservation -> Book!Entry] /\ BookOf' \in [Reservation -> Book!Entry]
      /\ BookOf' = [BookOf EXCEPT ![r] = EntryOf(row)]
      /\ \A q \in Reservation : BookOf[q] = EntryOf(rsv[q])
      /\ BookOf'[r] = EntryOf(row)
  BY <1>1 DEF BookOf, EntryOf, Row, Book!Entry, Book!Status, Status, Book!Table, Table,
              Book!NoTable, NoTable
<1>7. CASE req[c].kind = "cancel"
  <2>1. CASE rsv[r].status = "confirmed"
    <3>1. EntryOf(row) = [EntryOf(rsv[r]) EXCEPT !.status = "cancelled"]
      <4>1. /\ row.status = "cancelled" /\ row.table = rsv[r].table
            /\ row.start = rsv[r].start /\ row.end = rsv[r].end /\ row.party = rsv[r].party
        BY <1>1, <1>3, <1>7 DEF Row
      <4>2. QED
        BY <4>1 DEF EntryOf
    <3>2. Book!Cancel(r)
      <4>1. BookOf[r] = EntryOf(rsv[r]) /\ BookOf[r].status = "confirmed"
        BY <1>1, <1>6, <2>1 DEF EntryOf
      <4>2. BookOf' = [BookOf EXCEPT ![r].status = "cancelled"]
        BY <1>6, <3>1, <4>1
      <4>3. QED
        BY <4>1, <4>2 DEF Book!Cancel, BookOf, EntryOf
    <3>3. QED
      BY <1>1, <3>2 DEF Book!Next
  <2>2. CASE rsv[r].status = "cancelled"
    <3>1. EntryOf(row) = EntryOf(rsv[r])
      BY <1>1, <1>3, <1>7, <2>2 DEF EntryOf, Row
    <3>2. QED
      BY <1>1, <1>6, <3>1
  <2>3. QED
    BY <1>3, <1>7, <2>1, <2>2
<1>8. CASE req[c].kind \in {"create", "update"}
  <2>1. CASE row = rsv[r]
    BY <1>1, <1>6, <2>1
  <2>2. CASE row # rsv[r]
    <3>1. /\ row.status = "confirmed" /\ row.table = pick[c] /\ pick[c] \in Table
          /\ row.party <= Capacity[pick[c]] /\ row.start < row.end
          /\ ~HasOverlap(row.table, row.start, row.end, r)
      BY <1>0, <1>2, <1>5, <1>8, <2>2 DEF Reserved
    <3>2. ~Book!Taken(row.table, row.start, row.end, r)
      BY <1>1, <3>1 DEF Book!Taken, HasOverlap, Blocking, Row
    <3>3. Book!Seats(r)
      BY <1>1, <1>6, <3>1, <3>2 DEF Book!Seats, BookOf, EntryOf, Book!Table, Table
    <3>4. Book!OnlyChanges(r)
      BY <1>1, <1>6 DEF Book!OnlyChanges, BookOf, EntryOf
    <3>5. Book!Book(r) \/ Book!Reschedule(r)
      BY <1>1, <1>4, <1>6, <1>8, <3>3, <3>4 DEF Book!Book, Book!Reschedule, EntryOf, BookOf
    <3>6. QED
      BY <1>1, <3>5 DEF Book!Next
  <2>3. QED
    BY <2>1, <2>2
<1>9. QED
  BY <1>7, <1>8 DEF Commit, IInv, HandlerInv, RequestInv, TypeOK, Request, Kind

\* Every step of the transactions is a step of the book, or leaves it as it is.
LEMMA NextRefines == IInv /\ IInv' /\ [Next]_vars => Book!Next \/ BookOf' = BookOf
<1> SUFFICES ASSUME IInv, IInv', [Next]_vars
             PROVE  Book!Next \/ BookOf' = BookOf
  OBVIOUS
<1>1. ASSUME NEW c \in Client, Commit(c)
      PROVE  Book!Next \/ BookOf' = BookOf
  BY <1>1, CommitRefines
<1>2. CASE rsv' = rsv
  BY <1>2 DEF BookOf, EntryOf
<1>3. ASSUME NEW c \in Client, Arrive(c) \/ Step(c) \/ Fail(c), ~Commit(c)
      PROVE  rsv' = rsv
  BY <1>3 DEF Arrive, Step, Fail, ReadRow, Create, RejectCreate, Update, Cancel, NotFound,
              UpdateCancelled, UpdateDetails, UpdateSchedule, RejectUpdate, CancelById,
              CancelByCode, CancelAgain, LockTable, CheckTable, SelectTable, Conflict, Flush,
              FlushFails, Reread, shared
<1>4. CASE Tick \/ (\E t \in Table : AddTable(t)) \/ UNCHANGED vars
  BY <1>4, <1>2 DEF Tick, AddTable, vars, shared
<1>5. QED
  BY <1>1, <1>2, <1>3, <1>4 DEF Next

\* ReservationService implements ReservationBook: what concurrent transactions do to the rows
\* is a sequence of atomic bookings, reschedulings and cancellations that never overlap.
THEOREM Refinement == Spec => ImplementsBook
<1>1. Book!Next \/ BookOf' = BookOf => [Book!Next]_BookOf
  OBVIOUS
<1>2. QED
  BY <1>1, BookInit, NextRefines, Invariance, PTL
     DEF Spec, ImplementsBook, Book!Spec, BookOf, EntryOf
===============================================================================
