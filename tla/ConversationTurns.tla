-------------------------- MODULE ConversationTurns ---------------------------
(***************************************************************************)
(* conversation/service.py, process_message: concurrent turns of one       *)
(* conversation.  A turn takes the conversation's lock (RedisLock), loads  *)
(* the snapshot, handles the message (Dialogue), executes the pending      *)
(* operation once it is confirmed (ToolDispatch), saves the snapshot and   *)
(* releases the lock.                                                      *)
(***************************************************************************)
EXTENDS Dialogue

CONSTANTS
    Worker, NoWorker,  \* handlers, in any process
    Messages,          \* what callers may say
    Reset,             \* a request to forget the conversation
    Operation,         \* [tool, args] that the tool schemas accept
    NoOperation,
    MaxMade,           \* bound on commits of one operation
    MaxSent            \* bound on the messages received

VARIABLES
    owner, stage, overrun,                                            \* RedisLock
    record, made, step, op, begun, error, answer, hit, forgotten,     \* ToolDispatch
    memory,    \* the stored snapshot: turn number and pending operation
    pc,        \* where each turn is
    msg,       \* the message it handles
    snap,      \* its copy of the snapshot
    reply,     \* what it answers
    sent,      \* messages received so far
    named,     \* identifiers given to operations so far
    base,      \* history: what each turn loaded
    heard,     \* history: summaries the caller was given to confirm
    unheard,   \* history: summaries stored by a turn that was cut off before it answered
    closed,    \* history: operations rejected or completed by a saved turn
    late       \* history: some turn wrote memory after its lease had run out

Lookups == {o \in Operation : o.tool # "create"}

Lock     == INSTANCE RedisLock
Dispatch == INSTANCE ToolDispatch

ASSUME TurnAssumption ==
    /\ NoWorker \notin Worker
    /\ Messages \subseteq Message
    /\ Reset \notin Message
    /\ Operation \subseteq [tool: Tool, args: Fields]
    /\ NoOperation \notin Operation
    /\ MaxMade \in Nat
    /\ MaxSent \in Nat

lockVars     == <<owner, stage, overrun>>
dispatchVars == <<record, made, step, op, begun, error, answer, hit>>
turnVars     == <<pc, msg, snap, reply>>
counts       == <<sent, named>>
historyVars  == <<base, heard, unheard, closed, late>>
vars         == <<lockVars, dispatchVars, forgotten, memory, turnVars, counts, historyVars>>
-------------------------------------------------------------------------------
Point == {"idle", "lock", "load", "handle", "execute", "save", "leave"}
Reply == {"none", "answer", "ask", "confirm", "done", "retry", "raised"}

Snapshot == [turn: Nat, pending: Pending \cup {NoPending}]
Fresh    == [turn |-> 0, pending |-> NoPending]

\* A request for confirmation: of which operation, and what it says.
Question == [id: Nat, tool: Tool, summary: Fields]
Asks(p)  == [id |-> p.id, tool |-> p.tool, summary |-> p.summary]

TypeOK ==
    /\ Lock!TypeOK
    /\ Dispatch!TypeOK
    /\ memory \in Snapshot
    /\ pc \in [Worker -> Point]
    /\ msg \in [Worker -> Messages \cup {Reset}]
    /\ snap \in [Worker -> Snapshot]
    /\ reply \in [Worker -> Reply]
    /\ sent \in 0..MaxSent
    /\ base \in [Worker -> Snapshot]
    /\ heard \in SUBSET Question
    /\ unheard \in SUBSET Question
    /\ named \in Nat
    /\ closed \in SUBSET (1..named)
    /\ late \in BOOLEAN

Init ==
    /\ Lock!Init
    /\ Dispatch!Init
    /\ memory = Fresh
    /\ pc = [w \in Worker |-> "idle"]
    /\ msg = [w \in Worker |-> Reset]
    /\ snap = [w \in Worker |-> Fresh]
    /\ reply = [w \in Worker |-> "none"]
    /\ sent = 0
    /\ named = 0
    /\ base = [w \in Worker |-> Fresh]
    /\ heard = {}
    /\ unheard = {}
    /\ closed = {}
    /\ late = FALSE

\* The idempotency key of a pending operation.
Key(p) == [tool |-> p.tool, args |-> p.args]

\* Seeded defect: the dispatcher takes arguments the tool has no use for.
MutFits(p) == p.tool \in Tool

\* The tool schemas accept the arguments, and none that is not theirs.
Fits(p) == Key(p) \in Operation

Goto(w, p) == pc' = [pc EXCEPT ![w] = p]
Says(w, r) == reply' = [reply EXCEPT ![w] = r]

\* The handler is done with the request.
Gone(w) ==
    /\ Goto(w, "idle")
    /\ Says(w, "none")
    /\ msg' = [msg EXCEPT ![w] = Reset]
    /\ snap' = [snap EXCEPT ![w] = Fresh]
    /\ base' = [base EXCEPT ![w] = Fresh]
-------------------------------------------------------------------------------
(* A turn *)

Receive(w) ==
    /\ pc[w] = "idle"
    /\ sent < MaxSent
    /\ Lock!Try(w)
    /\ \E m \in Messages \cup {Reset} : msg' = [msg EXCEPT ![w] = m]
    /\ Goto(w, "lock")
    /\ sent' = sent + 1
    /\ UNCHANGED <<dispatchVars, memory, snap, reply, named, historyVars>>

Enter(w) ==
    /\ pc[w] = "lock"
    /\ Lock!Enter(w)
    /\ Goto(w, "load")
    /\ UNCHANGED <<dispatchVars, memory, msg, snap, reply, counts, historyVars>>

\* No lock before the deadline, or Redis failed: the request fails.
NotEntered(w) ==
    /\ pc[w] = "lock"
    /\ Lock!GiveUp(w) \/ Lock!EnterUnheard(w)
    /\ Gone(w)
    /\ UNCHANGED <<dispatchVars, memory, counts, heard, unheard, closed, late>>

\* A snapshot loaded is refreshed for an hour; a missing one starts a new conversation.
Load(w) ==
    /\ pc[w] = "load"
    /\ msg[w] # Reset
    /\ snap' = [snap EXCEPT ![w] = memory]
    /\ base' = [base EXCEPT ![w] = memory]
    /\ Goto(w, "handle")
    /\ UNCHANGED <<lockVars, dispatchVars, memory, msg, reply, counts, heard, unheard, closed, late>>

\* A write of memory by a turn whose lease has run out is noted.
Wrote(w) == late' = (late \/ w \in overrun)

\* reset: the snapshot is deleted under the same lock.
Delete(w) ==
    /\ pc[w] = "load"
    /\ msg[w] = Reset
    /\ memory' = Fresh
    /\ Wrote(w)
    /\ Goto(w, "leave")
    /\ Says(w, "answer")
    /\ UNCHANGED <<lockVars, dispatchVars, msg, snap, counts, base, heard, unheard, closed>>

\* The identifier of a new operation: a UUID, here a number not used before.
Identifier == named + 1

\* What this turn is to do.
Handled(w) == Handle(snap[w].pending, msg[w], Identifier)

\* The turn ends without a confirmed operation to execute.
Answer(w) ==
    LET h == Handled(w) IN
    /\ pc[w] = "handle"
    /\ h.does \in Reply
    /\ snap' = [snap EXCEPT ![w] = [turn |-> @.turn + 1, pending |-> h.pending]]
    /\ named' = IF h.pending.id = Identifier THEN Identifier ELSE named
    /\ Says(w, h.does)
    /\ Goto(w, "save")
    /\ UNCHANGED <<lockVars, dispatchVars, memory, msg, sent, historyVars>>

\* A correction of an operation that cannot be summarized yet: KeyError.
Stumble(w) ==
    /\ pc[w] = "handle"
    /\ Handled(w).does = "raise"
    /\ Says(w, "raised")
    /\ Goto(w, "leave")
    /\ UNCHANGED <<lockVars, dispatchVars, memory, msg, snap, counts, historyVars>>

\* The caller confirmed: _execute_pending calls the dispatcher.
Run(w) ==
    LET p == Handled(w).pending IN
    /\ pc[w] = "handle"
    /\ Handled(w).does = "run"
    /\ IF Fits(p) THEN Dispatch!Call(w, Key(p), FALSE)
                  ELSE Dispatch!RejectArguments(w)
    /\ Goto(w, "execute")
    /\ UNCHANGED <<lockVars, memory, msg, snap, reply, counts, historyVars>>

Execute(w) ==
    /\ pc[w] = "execute"
    /\ Dispatch!Execute(w) \/ Dispatch!Fail(w)
    /\ UNCHANGED <<lockVars, memory, turnVars, counts, historyVars>>

\* Seeded defect: whatever the tool answered, the operation is taken as executed.
MutAnyResult(a) == a # "none"

\* result.success
Succeeded(a) == a \in {"success", "replayed"}

\* The tool's answer: a success clears the pending operation, a failure keeps it.
Settle(w) ==
    LET p == IF Succeeded(answer[w]) THEN NoPending ELSE snap[w].pending IN
    /\ pc[w] = "execute"
    /\ snap' = [snap EXCEPT ![w] = [turn |-> @.turn + 1, pending |-> p]]
    /\ Says(w, IF Succeeded(answer[w]) THEN "done" ELSE "retry")
    /\ Dispatch!Collect(w)
    /\ Goto(w, "save")
    /\ UNCHANGED <<lockVars, memory, msg, counts, historyVars>>

\* The turn rejects, completes or replaces the operation it found pending.
Closes(w) == msg[w].decision = "negative" \/ reply[w] = "done"
                \/ snap[w].pending.id # base[w].pending.id

\* Storing the snapshot.
Store(w) ==
    /\ memory' = snap[w]
    /\ closed' = IF Closes(w) THEN closed \cup ({base[w].pending.id} \ {0}) ELSE closed
    /\ Wrote(w)

Save(w) ==
    /\ pc[w] = "save"
    /\ Store(w)
    /\ Goto(w, "leave")
    /\ UNCHANGED <<lockVars, dispatchVars, msg, snap, reply, counts, base, heard, unheard>>

\* What the reply of w puts to the caller for confirmation.
Asking(w) == IF reply[w] = "confirm" THEN {Asks(snap[w].pending)} ELSE {}

\* The lock is released; only then is the reply given, or cut off while the turn is audited.
Leave(w) ==
    /\ pc[w] = "leave"
    /\ Lock!Leave(w)
    /\ Gone(w)
    /\ \/ heard' = heard \cup Asking(w) /\ UNCHANGED unheard
       \/ unheard' = unheard \cup Asking(w) /\ UNCHANGED heard
    /\ UNCHANGED <<dispatchVars, memory, counts, closed, late>>
-------------------------------------------------------------------------------
(* Faults *)

\* What a call cut off may have done: the dispatcher's current call, or the save.
CutOff(w) ==
    /\ IF pc[w] = "execute" THEN Dispatch!Abandon(w) \/ Dispatch!Collect(w)
                            ELSE UNCHANGED dispatchVars
    /\ \/ /\ pc[w] = "save"
          /\ Store(w)
          /\ unheard' = unheard \cup Asking(w)
       \/ /\ UNCHANGED <<memory, closed, late>>
          /\ unheard' = IF pc[w] = "leave" THEN unheard \cup Asking(w) ELSE unheard

\* Redis raises, or the task is cancelled, inside the block: finally releases the lock.
Break(w) ==
    /\ pc[w] \in {"load", "handle", "execute", "save"}
    /\ CutOff(w)
    /\ Says(w, "raised")
    /\ Goto(w, "leave")
    /\ UNCHANGED <<lockVars, msg, snap, counts, base, heard>>

\* The process dies, or the release fails as well.
Crash(w) ==
    /\ pc[w] # "idle"
    /\ CutOff(w)
    /\ Lock!Vanish(w)
    /\ Gone(w)
    /\ UNCHANGED <<counts, heard>>

LeaseExpires ==
    /\ Lock!Expire
    /\ UNCHANGED <<dispatchVars, memory, turnVars, counts, historyVars>>

\* The snapshot's hour is over; the turns that loaded it are long done.
MemoryExpires ==
    /\ memory # Fresh
    /\ \A w \in Worker : pc[w] \notin {"handle", "execute", "save"}
    /\ memory' = Fresh
    /\ UNCHANGED <<lockVars, dispatchVars, turnVars, counts, historyVars>>

RecordLapses ==
    /\ \E o \in Operation : Dispatch!Lapse(o)
    /\ UNCHANGED <<lockVars, memory, turnVars, counts, historyVars>>
-------------------------------------------------------------------------------
Turn(w) ==
    \/ Receive(w) \/ Enter(w) \/ NotEntered(w) \/ Load(w) \/ Delete(w) \/ Answer(w)
    \/ Stumble(w) \/ Run(w) \/ Execute(w) \/ Settle(w) \/ Save(w) \/ Leave(w)

Next ==
    /\ \/ \E w \in Worker : Turn(w) \/ Break(w) \/ Crash(w)
       \/ LeaseExpires \/ MemoryExpires \/ RecordLapses
    /\ Dispatch!Forget

Spec == Init /\ [][Next]_vars
-------------------------------------------------------------------------------
(* Properties *)

\* What a confirmed operation amounts to, in the words of a summary.
Confirmed(w) == [id |-> snap[w].pending.id, tool |-> op[w].tool,
                 summary |-> Summary(op[w].tool, op[w].args)]

\* Replies that are still to be given; their snapshots are stored.
Underway == UNION {Asking(v) : v \in {u \in Worker : pc[u] = "leave"}}

\* Whatever corrections, answers, failures, lost snapshots and overlapping turns came before,
\* the summary of the operation handed to the dispatcher, made of the arguments it is handed
\* with, was put to the caller as a question about this operation; or was stored by a turn that
\* meant to and was cut off, or that, having lost its lease meanwhile, has yet to reply.
ExecutesWhatWasPrompted ==
    \A w \in Worker : pc[w] = "execute" /\ op[w] # NoOperation =>
        Confirmed(w) \in heard \cup unheard \cup Underway

\* A confirmed operation that is confirmed again, because its turn was cut off before it saved
\* or another turn overlapped it, commits once as long as its idempotency record stands.
ConfirmedOnce == Dispatch!AppliedOnce

\* Turns of a conversation are serial: as long as no turn outlived its lease and wrote all the
\* same, a turn within its lease works on the snapshot that is stored, so that no crash, lost
\* answer or failed release loses an update.
TurnsAreSerial ==
    late \/ \A w \in Worker :
        pc[w] \in {"handle", "execute", "save"} /\ w \notin overrun => base[w] = memory

\* An operation that was rejected, completed or superseded in a saved turn is not executed by
\* a later turn, under the same proviso.
ClosedStaysClosed ==
    late \/ \A w \in Worker :
        pc[w] = "execute" /\ w \notin overrun => snap[w].pending.id \notin closed

\* The caller hears that the operation is done only if it committed.
DoneIsCommitted ==
    \A w \in Worker : pc[w] \in {"save", "leave"} /\ reply[w] = "done" =>
        made[Key(base[w].pending)] > 0

\* A confirmation is asked for only when nothing is missing (docs/langgraph-design.md:
\* "write fields complete -> request_confirmation"). The code breaks this: a correction
\* leaves missing_fields as it was.
PromptIsComplete ==
    \A w \in Worker : pc[w] = "leave" /\ reply[w] = "confirm" => snap[w].pending.missing = {}
===============================================================================
