--------------------------- MODULE ReservationBook ---------------------------
(***************************************************************************)
(* What the reservation subsystem promises its callers, without sessions,  *)
(* statements or row locks: a book of reservations in which every step is  *)
(* one atomic booking, rescheduling or cancellation of one reservation.    *)
(* ReservationService implements it with PostgreSQL transactions.          *)
(***************************************************************************)
EXTENDS Naturals

CONSTANTS
    Reservation,    \* identifiers of reservations
    NumTables,      \* tables are numbered in allocation order
    Capacity        \* seats of each table

VARIABLE book       \* [Reservation -> Entry]

Table   == 1..NumTables
NoTable == 0
Status  == {"none", "confirmed", "cancelled"}

Entry == [status: Status, table: Table \cup {NoTable}, start: Nat, end: Nat, party: Nat]

Unbooked == [status |-> "none", table |-> NoTable, start |-> 0, end |-> 0, party |-> 0]

\* A confirmed reservation of another party occupies t during part of [s, e).
Taken(t, s, e, r) ==
    \E q \in Reservation \ {r} :
        /\ book[q].status = "confirmed"
        /\ book[q].table = t
        /\ book[q].start < e
        /\ s < book[q].end

\* The next entry of r seats its party, alone, at a table that is large enough.
Seats(r) ==
    LET entry == book'[r]
    IN  /\ entry \in Entry
        /\ entry.status = "confirmed"
        /\ entry.table \in Table
        /\ entry.start < entry.end
        /\ entry.party <= Capacity[entry.table]
        /\ ~Taken(entry.table, entry.start, entry.end, r)

OnlyChanges(r) == book' = [book EXCEPT ![r] = book'[r]]

Init == book = [r \in Reservation |-> Unbooked]

Book(r) ==
    /\ book[r].status = "none"
    /\ OnlyChanges(r)
    /\ Seats(r)

Reschedule(r) ==
    /\ book[r].status = "confirmed"
    /\ OnlyChanges(r)
    /\ Seats(r)

Cancel(r) ==
    /\ book[r].status = "confirmed"
    /\ book' = [book EXCEPT ![r].status = "cancelled"]

Next == \E r \in Reservation : Book(r) \/ Reschedule(r) \/ Cancel(r)

Spec == Init /\ [][Next]_book
=============================================================================
