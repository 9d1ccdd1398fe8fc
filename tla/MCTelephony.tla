------------------------------ MODULE MCTelephony ------------------------------
(* Small instances of Telephony for TLC. *)
EXTENDS Telephony, TLC

Lifecycle ==
    {[status |-> "in-progress", timed |-> FALSE, error |-> FALSE],
     [status |-> "completed", timed |-> TRUE, error |-> FALSE],
     [status |-> "failed", timed |-> FALSE, error |-> TRUE]}

HandlerSymmetry == Permutations(Handler)
================================================================================
