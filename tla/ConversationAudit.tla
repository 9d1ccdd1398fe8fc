--------------------------- MODULE ConversationAudit ---------------------------
(***************************************************************************)
(* persistence/conversation_history/service.py and the tables of           *)
(* db/models/conversation_audit.py, for one conversation: record_turn      *)
(* reads the session row, then commits it and a turn row together.  It     *)
(* runs after the conversation's lock is released.                         *)
(***************************************************************************)
EXTENDS Naturals

CONSTANTS
    Handler,  \* requests handled at a time
    Unread    \* a handler that has not read the session row

VARIABLES
    total,  \* conversation_sessions.total_turns; 0 when there is no row
    turns,  \* conversation_turns: the numbers recorded
    known   \* total as each handler read it

auditVars == <<total, turns, known>>
--------------------------------------------------------------------------------
AuditTypeOK ==
    /\ total \in Nat
    /\ turns \subseteq Nat \ {0}
    /\ known \in [Handler -> Nat \cup {Unread}]

AuditInit ==
    /\ total = 0
    /\ turns = {}
    /\ known = [x \in Handler |-> Unread]

ReadSession(x) ==
    /\ known' = [known EXCEPT ![x] = total]
    /\ UNCHANGED <<total, turns>>

\* A session row is added when none was seen.
\* Seeded defect: one is added for every turn.
MutAddsSession(x) == TRUE
AddsSession(x)    == known[x] = 0

\* The unique keys let the commit pass: one session row, one row per turn number.
Accepted(x, n) == (AddsSession(x) => total = 0) /\ n \notin turns

\* The commit. total_turns is written when it grew over what was read.
RecordTurn(x, n) ==
    /\ Accepted(x, n)
    /\ total' = IF n > known[x] THEN n ELSE total
    /\ turns' = turns \cup {n}
    /\ known' = [known EXCEPT ![x] = Unread]

\* Nothing recorded: the transaction failed, or the handler is gone.
Unrecorded(x) ==
    /\ known' = [known EXCEPT ![x] = Unread]
    /\ UNCHANGED <<total, turns>>
================================================================================
