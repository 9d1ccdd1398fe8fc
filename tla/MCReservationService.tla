------------------------- MODULE MCReservationService -------------------------
(* Small instances of ReservationService for TLC. *)
EXTENDS ReservationService, TLC

\* A table for two and a table for four.
MCCapacity == <<2, 4>>

\* Overlapping and adjacent times, default and explicit ends, a party for either table
\* and one above the limit.
MCCreateRequests ==
    {[party |-> 2, start |-> 2, end |-> 0],
     [party |-> 3, start |-> 3, end |-> 4],
     [party |-> 5, start |-> 2, end |-> 0]}

\* A larger party, another start, an end before the start, a null party, no schedule at all.
MCUpdateRequests ==
    {[keys |-> {"party"}, party |-> 3, start |-> 0, end |-> 0],
     [keys |-> {"start"}, party |-> 0, start |-> 3, end |-> 0],
     [keys |-> {"end"},   party |-> 0, start |-> 0, end |-> 2],
     [keys |-> {"party"}, party |-> 0, start |-> 0, end |-> 0],
     [keys |-> {},        party |-> 0, start |-> 0, end |-> 0]}

\* For the run with three handlers: fewer kinds of request.
FewCreateRequests == {[party |-> 2, start |-> 2, end |-> 0]}
FewUpdateRequests == {[keys |-> {"party"}, party |-> 3, start |-> 0, end |-> 0]}

Symmetry == Permutations(Client) \cup Permutations(Reservation)
===============================================================================
