------------------------------- MODULE Telephony -------------------------------
(***************************************************************************)
(* api/routes/voice.py (the Twilio webhooks), telephony/twilio.py and      *)
(* db/services/call_session_service.py: one phone call.  Twilio asks for   *)
(* what to do when the call comes in and after each thing the caller says, *)
(* one request at a time; it reports the progress of the call alongside,   *)
(* in any order and more than once.  Each request has a database session   *)
(* of its own, whose copy of the call's row is never read again and whose  *)
(* updates write the columns that differ from that copy.                   *)
(***************************************************************************)
EXTENDS ConversationAudit, Sequences

CONSTANTS
    NoHandler,    \* nothing asked
    NoRow,        \* no call session
    NoSnapshot,   \* no conversation in memory
    MaxRetries,   \* twilio_max_retries
    Callback,     \* [status, timed, error] of the lifecycle callbacks
    MaxRequests   \* bound on the requests

Final  == {"completed", "failed"}  \* and busy, no-answer, canceled
Status == {"in-progress"} \cup Final  \* and queued, ringing

VARIABLES
    row,       \* the call session
    snapshot,  \* the conversation in memory: turn number and telephony_retry_count
    handler,   \* the handlers, see Request
    line,      \* where the caller is
    asked,     \* the handler Twilio waits for
    requests,  \* requests so far
    missed,    \* history: unclear answers since the last that was answered
    answered,  \* history: the turns whose answer the caller got, in order
    forgotten, \* history: the conversation left the memory
    unaudited, \* history: the database failed an audit
    torn       \* history: a lifecycle callback was cut off in creating the call

callVars    == <<row, snapshot>>
lineVars    == <<line, asked>>
historyVars == <<missed, answered, forgotten, unaudited, torn>>
vars == <<auditVars, callVars, handler, lineVars, requests, historyVars>>
--------------------------------------------------------------------------------
Point == {"idle", "read", "create", "insert", "update", "find", "load", "miss",
          "escalate", "turn", "audit", "record", "clear", "fetch", "fail"}
Said  == {"unclear", "human", "goodbye", "clear"}

\* ended_at, duration_seconds and error_details are there or not. escalated is set
\* together with the reason.
Row == [status: Status, ended: BOOLEAN, timed: BOOLEAN, error: BOOLEAN,
        reason: {"none", "low_confidence", "human"}]

NewRow(s) == [status |-> s, ended |-> FALSE, timed |-> FALSE, error |-> FALSE, reason |-> "none"]

Snapshot == [turn: Nat, misses: Nat]
Fresh    == [turn |-> 0, misses |-> 0]

ASSUME TelephonyAssumption ==
    /\ MaxRetries \in Nat \ {0}
    /\ Callback \subseteq [status: Status, timed: BOOLEAN, error: BOOLEAN]
    /\ MaxRequests \in Nat
    /\ NoHandler \notin Handler
    /\ NoRow \notin Row
    /\ NoSnapshot \notin Snapshot

Request == [pc: Point, kind: {"incoming", "speech", "status"}, said: Said,
            callback: Callback \cup {NoRow}, seen: Row \cup {NoRow},
            loaded: Snapshot \cup {NoSnapshot}]

Idle == [pc |-> "idle", kind |-> "incoming", said |-> "unclear", callback |-> NoRow,
         seen |-> NoRow, loaded |-> NoSnapshot]

TypeOK ==
    /\ AuditTypeOK
    /\ row \in Row \cup {NoRow}
    /\ snapshot \in Snapshot \cup {NoSnapshot}
    /\ handler \in [Handler -> Request]
    /\ line \in {"new", "waiting", "listening", "staff", "left"}
    /\ asked \in Handler \cup {NoHandler}
    /\ line = "waiting" <=> asked # NoHandler
    /\ requests \in 0..MaxRequests
    /\ missed \in Nat
    /\ answered \in Seq(Nat)
    /\ {forgotten, unaudited, torn} \subseteq BOOLEAN

Init ==
    /\ AuditInit
    /\ row = NoRow
    /\ snapshot = NoSnapshot
    /\ handler = [x \in Handler |-> Idle]
    /\ line = "new"
    /\ asked = NoHandler
    /\ requests = 0
    /\ missed = 0
    /\ answered = <<>>
    /\ forgotten = FALSE
    /\ unaudited = FALSE
    /\ torn = FALSE

At(x, p)   == handler[x].pc = p
Goto(x, p) == handler' = [handler EXCEPT ![x].pc = p]
Done(x)    == handler' = [handler EXCEPT ![x] = Idle]

\* The response, as far as Twilio still waits for it.
Reply(x, to) ==
    IF asked = x THEN line' = to /\ asked' = NoHandler ELSE UNCHANGED lineVars
--------------------------------------------------------------------------------
(* Twilio and the caller *)

Ask(x, r) ==
    /\ At(x, "idle")
    /\ requests < MaxRequests
    /\ requests' = requests + 1
    /\ handler' = [handler EXCEPT ![x] = r]
    /\ UNCHANGED <<auditVars, callVars, answered, forgotten, unaudited, torn>>

Ring(x) ==
    /\ line = "new"
    /\ Ask(x, [Idle EXCEPT !.pc = "create"])
    /\ line' = "waiting" /\ asked' = x
    /\ UNCHANGED missed

\* The incoming call is posted again; nobody hears the response.
RingAgain(x) ==
    /\ line # "new"
    /\ Ask(x, [Idle EXCEPT !.pc = "create"])
    /\ UNCHANGED <<lineVars, missed>>

Speak(x) ==
    /\ line = "listening"
    /\ \E said \in Said :
        /\ Ask(x, [Idle EXCEPT !.pc = "find", !.kind = "speech", !.said = said])
        /\ missed' = IF said = "unclear" THEN missed + 1 ELSE missed
    /\ line' = "waiting" /\ asked' = x

Report(x) ==
    /\ line # "new"
    /\ \E b \in Callback : Ask(x, [Idle EXCEPT !.pc = "read", !.kind = "status", !.callback = b])
    /\ UNCHANGED <<lineVars, missed>>

\* The caller hangs up, or Twilio waited too long: the handler goes on.
HangUp ==
    /\ line \in {"waiting", "listening"}
    /\ line' = "left" /\ asked' = NoHandler
    /\ UNCHANGED <<auditVars, callVars, handler, requests, historyVars>>

\* The conversation's time to live runs out.
Forget ==
    /\ snapshot # NoSnapshot
    /\ snapshot' = NoSnapshot
    /\ forgotten' = TRUE
    /\ UNCHANGED <<auditVars, row, handler, lineVars, requests, missed, answered, unaudited, torn>>
--------------------------------------------------------------------------------
(* Reads *)

Sees(x, p) == handler' = [handler EXCEPT ![x].pc = p, ![x].seen = row]

NothingWritten == UNCHANGED <<auditVars, callVars, requests, historyVars>>

\* status: the call, which the first callback may have to create.
Read(x) ==
    /\ At(x, "read")
    /\ Sees(x, IF row = NoRow THEN "create" ELSE "update")
    /\ UNCHANGED lineVars /\ NothingWritten

\* get_or_create: an existing call is returned.
Create(x) ==
    /\ At(x, "create")
    /\ IF row = NoRow
       THEN Goto(x, "insert") /\ UNCHANGED lineVars
       ELSE IF handler[x].kind = "status"
       THEN Sees(x, "update") /\ UNCHANGED lineVars
       ELSE Done(x) /\ Reply(x, "listening")
    /\ NothingWritten

\* process-speech: an unknown call is a 404.
Find(x) ==
    /\ At(x, "find")
    /\ IF row = NoRow THEN Done(x) /\ Reply(x, "left")
                      ELSE Sees(x, "load") /\ UNCHANGED lineVars
    /\ NothingWritten

Branch(said) ==
    CASE said = "unclear" -> "miss"
      [] said = "human" -> "escalate"
      [] said = "clear" -> "turn"
      [] OTHER -> "goodbye"

Load(x) ==
    /\ At(x, "load")
    /\ LET next == Branch(handler[x].said) IN
       IF next = "goodbye"
       THEN Done(x) /\ Reply(x, "left")
       ELSE /\ handler' = [handler EXCEPT ![x].pc = next, ![x].loaded = snapshot]
            /\ UNCHANGED lineVars
    /\ NothingWritten

\* A rollback expired the session's copy: the next query reads the row.
Fetch(x) ==
    /\ At(x, "fetch")
    /\ IF handler[x].seen = NoRow THEN Sees(x, "fail") ELSE Goto(x, "fail")
    /\ UNCHANGED lineVars /\ NothingWritten

AuditRead(x) ==
    /\ At(x, "audit")
    /\ ReadSession(x)
    /\ Goto(x, "record")
    /\ UNCHANGED <<callVars, lineVars, requests, historyVars>>
--------------------------------------------------------------------------------
(* Writes: what the pending step of a handler is to change *)

\* Seeded defect: a failed call has no end.
MutEnds(status) == status = "completed"
Ends(status)    == status \in Final

\* update_status on the session's copy. What was recorded is kept.
Updated(r, b) ==
    [r EXCEPT !.status = b.status,
              !.timed = @ \/ b.timed,
              !.error = @ \/ b.error,
              !.ended = @ \/ Ends(b.status)]

\* Seeded defect: the failure is not described.
MutFailure == [status |-> "failed", timed |-> FALSE, error |-> FALSE]
Failure    == [status |-> "failed", timed |-> FALSE, error |-> TRUE]

\* The row as the handler wants it.
Wanted(x) ==
    LET r == handler[x] IN
    CASE r.pc = "update" -> Updated(r.seen, r.callback)
      [] r.pc = "fail" -> Updated(r.seen, Failure)
      [] r.pc = "escalate" ->
            [r.seen EXCEPT !.reason = IF r.said = "human" THEN "human" ELSE "low_confidence"]

\* UPDATE sets the columns that differ from the copy.
\* Seeded defect: it sets every column.
MutFlush(new, seen) == new
Flush(new, seen) == [k \in DOMAIN new |-> IF new[k] # seen[k] THEN new[k] ELSE row[k]]

WritesRow(x) ==
    \/ /\ At(x, "insert")
       /\ row = NoRow
       /\ row' = NewRow(IF handler[x].kind = "status" THEN handler[x].callback.status
                                                      ELSE "in-progress")
    \/ /\ handler[x].pc \in {"update", "fail", "escalate"}
       /\ row' = Flush(Wanted(x), handler[x].seen)

Known(s) == IF s = NoSnapshot THEN Fresh ELSE s

\* Seeded defect: the turn is not counted.
MutTurned(s) == Known(s)
Turned(s)    == [Known(s) EXCEPT !.turn = @ + 1]

Missed(s) == [Known(s) EXCEPT !.misses = @ + 1]

\* Seeded defect: an answer does not end a series of misses.
MutCleared(s) == s
Cleared(s)    == IF s = NoSnapshot THEN s ELSE [s EXCEPT !.misses = 0]

\* A miss is counted on the copy loaded before; a turn and an answer on the
\* snapshot that is there.
WritesMemory(x) ==
    \/ At(x, "miss")  /\ snapshot' = Missed(handler[x].loaded)
    \/ At(x, "turn")  /\ snapshot' = Turned(snapshot)
    \/ At(x, "clear") /\ snapshot' = Cleared(snapshot)
--------------------------------------------------------------------------------
(* The steps of the webhooks that write *)

\* The call may have appeared since it was looked for: its key is unique, and the
\* insert fails.
Insert(x) ==
    /\ At(x, "insert")
    /\ IF row # NoRow
       THEN Done(x) /\ Reply(x, "left") /\ UNCHANGED row
       ELSE /\ WritesRow(x)
            /\ IF handler[x].kind = "status"
               THEN /\ handler' = [handler EXCEPT ![x].pc = "update", ![x].seen = row']
                    /\ UNCHANGED lineVars
               ELSE Done(x) /\ Reply(x, "listening")
    /\ UNCHANGED <<auditVars, snapshot, requests, historyVars>>

Update(x) ==
    /\ At(x, "update")
    /\ WritesRow(x)
    /\ Done(x)
    /\ UNCHANGED <<auditVars, snapshot, lineVars, requests, historyVars>>

\* mark_escalated, and update_status after a failed turn: staff take the call.
Transfer(x) ==
    /\ handler[x].pc \in {"escalate", "fail"}
    /\ WritesRow(x)
    /\ Done(x)
    /\ Reply(x, "staff")
    /\ UNCHANGED <<auditVars, snapshot, requests, historyVars>>

\* Seeded defect: one more attempt.
MutTooMany(n) == n > MaxRetries
TooMany(n)    == n >= MaxRetries

Miss(x) ==
    /\ At(x, "miss")
    /\ WritesMemory(x)
    /\ IF TooMany(snapshot'.misses)
       THEN Goto(x, "escalate") /\ UNCHANGED lineVars
       ELSE Done(x) /\ Reply(x, "listening")
    /\ UNCHANGED <<auditVars, row, requests, historyVars>>

\* A rollback makes the session forget its copy of the call.
Rollback(x) == [handler[x] EXCEPT !.seen = NoRow]

\* process_message up to the saved snapshot. A tool of it may have rolled back.
Turn(x) ==
    /\ At(x, "turn")
    /\ WritesMemory(x)
    /\ \E r \in {handler[x], Rollback(x)} :
         handler' = [handler EXCEPT ![x] = [r EXCEPT !.pc = "audit", !.loaded = snapshot']]
    /\ UNCHANGED <<auditVars, row, lineVars, requests, historyVars>>

Record(x) ==
    /\ At(x, "record")
    /\ RecordTurn(x, handler[x].loaded.turn)
    /\ Goto(x, "clear")
    /\ UNCHANGED <<callVars, lineVars, requests, historyVars>>

\* The audit's failures are swallowed: the number was recorded before, or the
\* database failed.
AuditFails(x) ==
    /\ handler[x].pc \in {"audit", "record"}
    /\ Unrecorded(x)
    /\ handler' = [handler EXCEPT ![x] = [Rollback(x) EXCEPT !.pc = "clear"]]
    /\ \/ /\ At(x, "record")
          /\ ~Accepted(x, handler[x].loaded.turn)
          /\ UNCHANGED unaudited
       \/ unaudited' = TRUE
    /\ UNCHANGED <<callVars, lineVars, requests, missed, answered, forgotten, torn>>

\* The caller gets the answer.
Clear(x) ==
    /\ At(x, "clear")
    /\ WritesMemory(x)
    /\ Done(x)
    /\ Reply(x, "listening")
    /\ missed' = 0
    /\ answered' = Append(answered, handler[x].loaded.turn)
    /\ UNCHANGED <<auditVars, row, requests, forgotten, unaudited, torn>>
--------------------------------------------------------------------------------
(* Failures: the pending step takes effect, or not *)

HalfDone(x) ==
    /\ Unrecorded(x)
    /\ \/ UNCHANGED callVars
       \/ WritesRow(x) /\ UNCHANGED snapshot
       \/ WritesMemory(x) /\ UNCHANGED row

\* The try block of process-speech: the failure is noted and staff take the call.
Fails(x) ==
    /\ handler[x].pc \in {"turn", "audit", "record", "clear"}
    /\ HalfDone(x)
    /\ \E r \in {handler[x], Rollback(x)} :
         handler' = [handler EXCEPT ![x] = [r EXCEPT !.pc = "fetch"]]
    /\ UNCHANGED <<lineVars, requests, historyVars>>

\* The request fails, or its process dies. Twilio ends the call.
Breaks(x) ==
    /\ ~At(x, "idle")
    /\ \/ HalfDone(x)
       \/ At(x, "record") /\ RecordTurn(x, handler[x].loaded.turn) /\ UNCHANGED callVars
    /\ Done(x)
    /\ Reply(x, "left")
    /\ torn' = (torn \/ (handler[x].kind = "status" /\ handler[x].pc \in {"insert", "update"}))
    /\ UNCHANGED <<requests, missed, answered, forgotten, unaudited>>
--------------------------------------------------------------------------------
Twilio(x) == Ring(x) \/ RingAgain(x) \/ Speak(x) \/ Report(x)

Webhook(x) ==
    \/ Read(x) \/ Create(x) \/ Find(x) \/ Load(x) \/ Fetch(x) \/ AuditRead(x)
    \/ Insert(x) \/ Update(x) \/ Transfer(x) \/ Miss(x)
    \/ Turn(x) \/ Record(x) \/ AuditFails(x) \/ Clear(x)
    \/ Fails(x) \/ Breaks(x)

Next == HangUp \/ Forget \/ \E x \in Handler : Twilio(x) \/ Webhook(x)

Spec == Init /\ [][Next]_vars
--------------------------------------------------------------------------------
(* Properties *)

\* stage-8c-twilio-incoming-calls.md: "Empty or low-confidence results use a
\* bounded retry policy. The third failure transfers to staff". A caller who is
\* being listened to has not been misheard that many times in a row, as long as
\* the memory that counts holds.
RepromptsBounded == line = "listening" => missed < MaxRetries \/ forgotten

\* Staff are not called for repeated silence unless every one of the last results
\* was unclear: an answer in between starts the count again.
EscalatedForCause ==
    row # NoRow /\ row.reason = "low_confidence" => missed >= MaxRetries

\* Each request writes what it changed in a copy of the row that may be old.  None of them
\* removes what another recorded: an end, a duration, an error or a reason for the transfer,
\* though what these say may be replaced; and the call that is over is reopened by no request
\* but a callback that itself reports an earlier status.  Such a callback, delivered late or
\* again, does reopen it (docs/stage-8c-twilio-incoming-calls.md:12 calls them idempotent).
RecordedStays ==
    [][row # NoRow =>
         /\ row' # NoRow
         /\ row.ended => row'.ended
         /\ row.timed => row'.timed
         /\ row.error => row'.error
         /\ row.reason # "none" => row'.reason # "none"
         /\ row.status \in Final /\ row'.status \notin Final =>
              \E x \in Handler : At(x, "update") /\ handler[x].callback.status \notin Final]_vars

\* A call in a final status has an end, once the callback that says so is over and
\* unless it was cut off between creating the call and updating it.
FinalHasEnd ==
    row # NoRow /\ row.status \in Final /\ ~row.ended =>
        torn \/ \E x \in Handler : At(x, "update") /\ handler[x].callback.status \in Final

\* A call that was handed to staff says why in its record.
TransferIsRecorded == line = "staff" => row # NoRow /\ (row.reason # "none" \/ row.error)

\* Every turn whose answer the caller got is in the audit, and no two of them are
\* one row, unless the database failed or the conversation was forgotten and
\* numbered its turns again.
AnsweredIsAudited ==
    \/ \A i \in DOMAIN answered :
          /\ answered[i] \in turns
          /\ \A j \in DOMAIN answered \ {i} : answered[j] # answered[i]
    \/ unaudited \/ forgotten
================================================================================
